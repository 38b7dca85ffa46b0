--------------------------- MODULE ResourcesProofs ---------------------------
(***************************************************************************)
(* Proofs about imports, for any names, any number of imports at once and  *)
(* any requests in between: what an import that has answered wrote is in   *)
(* force until another request writes over it, and what it refers to is on *)
(* disk or was reported.                                                   *)
(***************************************************************************)

EXTENDS Resources, TLAPS

-----------------------------------------------------------------------------
(* The invariant.                                                          *)

\* How the parts of a bundle hang together.
BundleOK(b) ==
    /\ b.kind \in {"tool", "skill", "expert", "scene"}
    /\ b.uses \in ToolNames \cup {None}
    /\ b.kind = "tool" => ~b.skill /\ b.uses = None
    /\ b.kind \in {"tool", "skill"} => ~b.skilled /\ b.agent = None
    /\ b.kind # "scene" => b.preset = None /\ b.wants = None
    /\ b.uses # None => b.skill
    /\ b.kind # "tool" /\ b.tool # None => b.uses # None /\ b.tool.key = b.uses.key
    /\ b.kind \in {"expert", "scene"} /\ b.skill => b.skilled
    /\ b.kind = "scene" /\ b.agent # None => b.wants = b.agent

Begun(i) == imp[i].phase \in {"waiting", "done"}
Done(i) == imp[i].phase = "done"
Kind(i) == imp[i].bundle.kind

ImportType ==
    /\ imp = [i \in Imports |-> imp[i]]
    /\ touched = [i \in Imports |-> touched[i]]
    /\ \A i \in Imports : /\ imp[i].phase \in {"idle", "failed", "waiting", "done"}
                          /\ Begun(i) => BundleOK(imp[i].bundle)

SkillType == skill = None \/ skill = [uses |-> skill.uses, by |-> skill.by]

\* The properties for an import, from the moment each can be relied on.
ToolInForce(i) ==
    LET b == imp[i].bundle IN
    Begun(i) /\ b.tool # None =>
        ToolRow(b, i) \in tools \/ Overtaken(i, "tool", b.tool) \/ GivenWay(i)

SkillInForce(i) ==
    LET b == imp[i].bundle IN
    Begun(i) /\ b.skill => skill = Skill(b, i) \/ Overtaken(i, "skill", None)

AgentInForce(i) ==
    LET b == imp[i].bundle IN
    Done(i) \/ (Begun(i) /\ b.kind = "scene") =>
        (b.agent # None => AgentRow(b, i) \in agents \/ Overtaken(i, "agent", b.agent))

PresetInForce(i) ==
    LET b == imp[i].bundle IN
    Done(i) /\ b.preset # None =>
        PresetRow(b, i) \in presets \/ Overtaken(i, "preset", b.preset)

Known(i, kind, n) == <<kind, n>> \in imp[i].report \/ Overtaken(i, kind, n)

ToolIsThere(i) ==
    LET b == imp[i].bundle IN
    Done(i) \/ (Begun(i) /\ b.kind # "skill") =>
        (b.uses # None /\ skill = Skill(b, i) =>
            \/ b.uses \in Names(tools)
            \/ Known(i, "tool", b.uses)
            \/ b.tool # None /\ GivenWay(i))

SkillIsThere(i) ==
    Begun(i) /\ imp[i].bundle.skilled => skill # None \/ Known(i, "skill", None)

AgentIsThere(i) ==
    LET b == imp[i].bundle IN
    Begun(i) /\ b.wants # None => b.wants \in Names(agents) \/ Known(i, "agent", b.wants)

ImportInv(i) ==
    /\ ToolInForce(i) /\ SkillInForce(i) /\ AgentInForce(i) /\ PresetInForce(i)
    /\ ToolIsThere(i) /\ SkillIsThere(i) /\ AgentIsThere(i)

IInv == ImportType /\ SkillType /\ \A i \in Imports : ImportInv(i)

LEMMA InitIInv == Init => IInv
<1> SUFFICES ASSUME Init PROVE IInv
  OBVIOUS
<1>1. \A i \in Imports : imp[i].phase = "idle" /\ ~Begun(i) /\ ~Done(i)
  BY DEF Init, Begun, Done
<1>2. ImportType /\ SkillType
  BY <1>1 DEF Init, ImportType, SkillType
<1>3. ASSUME NEW i \in Imports PROVE ImportInv(i)
  BY <1>1 DEF ImportInv, ToolInForce, SkillInForce, AgentInForce, PresetInForce,
     ToolIsThere, SkillIsThere, AgentIsThere
<1> QED BY <1>2, <1>3 DEF IInv

-----------------------------------------------------------------------------
(* What others do is noted.                                                *)

\* Import i knows of every row that a step changes.
Watches(i) ==
    /\ touched[i] \subseteq touched'[i]
    /\ \A n \in Changed(tools, tools') : <<"tool", n>> \in touched'[i]
    /\ \A n \in Changed(agents, agents') : <<"agent", n>> \in touched'[i]
    /\ \A n \in Changed(presets, presets') : <<"preset", n>> \in touched'[i]
    /\ skill' # skill => <<"skill", None>> \in touched'[i]

\* Only the import itself writes the Skill in its name.
KeepsTheName(i) == skill' = Skill(imp[i].bundle, i) => skill = Skill(imp[i].bundle, i)

LEMMA NothingChanged ==
    ASSUME NEW rows
    PROVE  Changed(rows, rows) = {}
  BY DEF Changed, Names

LEMMA NotedIsWatched ==
    ASSUME NEW writer, NEW i \in Imports, i # writer, Begun(i), Noted(writer)
    PROVE  Watches(i)
<1>1. touched'[i] = touched[i] \cup {<<"tool", n>> : n \in Changed(tools, tools')}
                        \cup {<<"agent", n>> : n \in Changed(agents, agents')}
                        \cup {<<"preset", n>> : n \in Changed(presets, presets')}
                        \cup {<<"skill", None>> : x \in {skill} \ {skill'}}
  BY DEF Noted, Begun
<1> QED BY <1>1 DEF Watches

LEMMA UnchangedIsWatched ==
    ASSUME NEW i \in Imports, UNCHANGED <<tools, agents, presets, skill>>,
           touched'[i] = touched[i]
    PROVE  Watches(i)
  BY NothingChanged DEF Watches

LEMMA StaysOvertaken ==
    ASSUME NEW i \in Imports, Watches(i), NEW kind, NEW n, Overtaken(i, kind, n)
    PROVE  Overtaken(i, kind, n)'
  BY DEF Watches, Overtaken

LEMMA Gone ==
    ASSUME NEW rows, NEW new, NEW r \in rows, r \notin new
    PROVE  r.name \in Changed(rows, new)
  BY DEF Changed, Names

LEMMA WatchedName ==
    ASSUME NEW i \in Imports, Watches(i)
    PROVE  /\ \A n : \A r \in tools \ tools' :
                r.name = n \/ Clash(r.name, n) => Overtaken(i, "tool", n)'
           /\ \A r \in agents \ agents' : Overtaken(i, "agent", r.name)'
           /\ \A r \in presets \ presets' : Overtaken(i, "preset", r.name)'
           /\ skill' # skill => Overtaken(i, "skill", None)'
<1>1. ASSUME NEW r \in tools \ tools', NEW n, r.name = n \/ Clash(r.name, n)
      PROVE  Overtaken(i, "tool", n)'
  <2> DEFINE t == <<"tool", r.name>>
  <2>1. t \in touched'[i] /\ t[1] = "tool" /\ t[2] = r.name
    BY <1>1, Gone DEF Watches
  <2> HIDE DEF t
  <2> QED BY <1>1, <2>1 DEF Overtaken
<1>2. ASSUME NEW r \in agents \ agents' PROVE Overtaken(i, "agent", r.name)'
  <2> DEFINE t == <<"agent", r.name>>
  <2>1. t \in touched'[i] /\ t[1] = "agent" /\ t[2] = r.name
    BY <1>2, Gone DEF Watches
  <2> HIDE DEF t
  <2> QED BY <2>1 DEF Overtaken
<1>3. ASSUME NEW r \in presets \ presets' PROVE Overtaken(i, "preset", r.name)'
  <2> DEFINE t == <<"preset", r.name>>
  <2>1. t \in touched'[i] /\ t[1] = "preset" /\ t[2] = r.name
    BY <1>3, Gone DEF Watches
  <2> HIDE DEF t
  <2> QED BY <2>1 DEF Overtaken
<1>4. ASSUME skill' # skill PROVE Overtaken(i, "skill", None)'
  <2> DEFINE t == <<"skill", None>>
  <2>1. t \in touched'[i] /\ t[1] = "skill" /\ t[2] = None
    BY <1>4 DEF Watches
  <2> HIDE DEF t
  <2> QED BY <2>1 DEF Overtaken
<1> QED BY <1>1, <1>2, <1>3, <1>4

\* A tool that made the import's give way is still there, or its loss was noted.
LEMMA StaysGivenWay ==
    ASSUME NEW i \in Imports, Watches(i), Begun(i), imp'[i].bundle = imp[i].bundle,
           BundleOK(imp[i].bundle), GivenWay(i), imp[i].bundle.tool # None
    PROVE  LET b == imp[i].bundle IN
           \/ GivenWay(i)'
           \/ /\ Overtaken(i, "tool", b.tool)'
              /\ b.kind # "tool" => Overtaken(i, "tool", b.uses)'
<1> DEFINE b == imp[i].bundle
<1>1. PICK r \in tools \ {ToolRow(b, i)} :
          IF b.kind = "tool" THEN r.name.dir = b.tool.dir ELSE r.name.key = b.tool.key
  BY DEF GivenWay
<1>2. CASE r \in tools'
  BY <1>1, <1>2 DEF GivenWay, ToolRow
<1>3. CASE r \notin tools'
  <2>1. Clash(r.name, b.tool)
    BY <1>1 DEF Clash
  <2>2. b.kind # "tool" => Clash(r.name, b.uses)
    BY <1>1 DEF BundleOK, Clash
  <2> QED BY <2>1, <2>2, <1>3, WatchedName
<1> QED BY <1>2, <1>3

\* A step of somebody else leaves an import what it has.
LEMMA OtherStep ==
    ASSUME IInv, NEW i \in Imports, imp'[i] = imp[i],
           Begun(i) => Watches(i) /\ KeepsTheName(i)
    PROVE  ImportInv(i)'
<1> DEFINE b == imp[i].bundle
<1>1. CASE ~Begun(i)
  <2>1. ~Begun(i)' /\ ~Done(i)'
    BY <1>1 DEF Begun, Done
  <2> QED BY <2>1 DEF ImportInv, ToolInForce, SkillInForce, AgentInForce, PresetInForce,
          ToolIsThere, SkillIsThere, AgentIsThere
<1>2. CASE Begun(i)
  <2>1. /\ Watches(i) /\ KeepsTheName(i) /\ ImportInv(i) /\ BundleOK(b)
        /\ Begun(i)' /\ Done(i)' = Done(i) /\ imp'[i].bundle = b
        /\ imp'[i].report = imp[i].report /\ b' = b
    BY <1>2 DEF IInv, ImportType, Begun, Done
  <2> HIDE DEF b
  <2>2. ASSUME NEW kind, NEW n, Known(i, kind, n) PROVE Known(i, kind, n)'
    BY <2>1, <2>2, StaysOvertaken DEF Known
  <2>3. ToolInForce(i)'
    <3> SUFFICES ASSUME b.tool # None
                 PROVE  (ToolRow(b, i) \in tools \/ Overtaken(i, "tool", b.tool) \/ GivenWay(i))'
      BY <2>1 DEF ToolInForce
    <3>1. CASE ToolRow(b, i) \in tools
      <4>1. ToolRow(b, i).name = b.tool
        BY DEF ToolRow
      <4> QED BY <2>1, <3>1, <4>1, WatchedName DEF b
    <3>2. CASE Overtaken(i, "tool", b.tool)
      BY <2>1, <3>2, StaysOvertaken
    <3>3. CASE GivenWay(i)
      BY <1>2, <2>1, <3>3, StaysGivenWay DEF b
    <3> QED BY <1>2, <2>1, <3>1, <3>2, <3>3 DEF ImportInv, ToolInForce, b
  <2>4. SkillInForce(i)'
    <3> SUFFICES ASSUME b.skill
                 PROVE  (skill = Skill(b, i) \/ Overtaken(i, "skill", None))'
      BY <2>1 DEF SkillInForce
    <3>1. CASE skill = Skill(b, i)
      BY <2>1, <3>1, WatchedName
    <3>2. CASE Overtaken(i, "skill", None)
      BY <2>1, <3>2, StaysOvertaken
    <3> QED BY <1>2, <2>1, <3>1, <3>2 DEF ImportInv, SkillInForce, b
  <2>5. AgentInForce(i)'
    <3> SUFFICES ASSUME Done(i) \/ b.kind = "scene", b.agent # None
                 PROVE  (AgentRow(b, i) \in agents \/ Overtaken(i, "agent", b.agent))'
      BY <2>1 DEF AgentInForce
    <3>1. CASE AgentRow(b, i) \in agents
      <4>1. AgentRow(b, i).name = b.agent
        BY DEF AgentRow
      <4> QED BY <2>1, <3>1, <4>1, WatchedName
    <3>2. CASE Overtaken(i, "agent", b.agent)
      BY <2>1, <3>2, StaysOvertaken
    <3> QED BY <1>2, <2>1, <3>1, <3>2 DEF ImportInv, AgentInForce, b
  <2>6. PresetInForce(i)'
    <3> SUFFICES ASSUME Done(i), b.preset # None
                 PROVE  (PresetRow(b, i) \in presets \/ Overtaken(i, "preset", b.preset))'
      BY <2>1 DEF PresetInForce
    <3>1. CASE PresetRow(b, i) \in presets
      <4>1. PresetRow(b, i).name = b.preset
        BY DEF PresetRow
      <4> QED BY <2>1, <3>1, <4>1, WatchedName
    <3>2. CASE Overtaken(i, "preset", b.preset)
      BY <2>1, <3>2, StaysOvertaken
    <3> QED BY <1>2, <2>1, <3>1, <3>2 DEF ImportInv, PresetInForce, b
  <2>7. ToolIsThere(i)'
    <3> SUFFICES ASSUME Done(i) \/ b.kind # "skill", b.uses # None, skill' = Skill(b, i)
                 PROVE  (\/ b.uses \in Names(tools)
                         \/ Known(i, "tool", b.uses)
                         \/ b.tool # None /\ GivenWay(i))'
      BY <2>1 DEF ToolIsThere
    <3>1. skill = Skill(b, i)
      BY <2>1 DEF KeepsTheName, b
    <3>2. CASE b.uses \in Names(tools)
      <4>1. PICK r \in tools : r.name = b.uses
        BY <3>2 DEF Names
      <4>2. CASE r \in tools'
        BY <2>1, <4>1, <4>2 DEF Names
      <4>3. CASE r \notin tools'
        BY <2>1, <4>1, <4>3, WatchedName DEF Known
      <4> QED BY <4>2, <4>3
    <3>3. CASE Known(i, "tool", b.uses)
      BY <2>1, <2>2, <3>3
    <3>4. CASE b.tool # None /\ GivenWay(i)
      <4>1. b.kind # "tool"
        BY <2>1 DEF BundleOK
      <4>2. GivenWay(i)' \/ Overtaken(i, "tool", b.uses)'
        BY <1>2, <2>1, <3>4, <4>1, StaysGivenWay DEF b
      <4> QED BY <2>1, <3>4, <4>2 DEF Known
    <3> QED BY <1>2, <2>1, <3>1, <3>2, <3>3, <3>4 DEF ImportInv, ToolIsThere, b
  <2>8. SkillIsThere(i)'
    <3> SUFFICES ASSUME b.skilled
                 PROVE  (skill # None \/ Known(i, "skill", None))'
      BY <2>1 DEF SkillIsThere
    <3>1. CASE skill # None
      BY <2>1, <3>1, WatchedName DEF Known
    <3>2. CASE Known(i, "skill", None)
      BY <2>1, <2>2, <3>2
    <3> QED BY <1>2, <2>1, <3>1, <3>2 DEF ImportInv, SkillIsThere, b
  <2>9. AgentIsThere(i)'
    <3> SUFFICES ASSUME b.wants # None
                 PROVE  (b.wants \in Names(agents) \/ Known(i, "agent", b.wants))'
      BY <2>1 DEF AgentIsThere
    <3>1. CASE b.wants \in Names(agents)
      <4>1. PICK r \in agents : r.name = b.wants
        BY <3>1 DEF Names
      <4>2. CASE r \in agents'
        BY <2>1, <4>1, <4>2 DEF Names
      <4>3. CASE r \notin agents'
        BY <2>1, <4>1, <4>3, WatchedName DEF Known
      <4> QED BY <4>2, <4>3
    <3>2. CASE Known(i, "agent", b.wants)
      BY <2>1, <2>2, <3>2
    <3> QED BY <1>2, <2>1, <3>1, <3>2 DEF ImportInv, AgentIsThere, b
  <2> QED BY <2>3, <2>4, <2>5, <2>6, <2>7, <2>8, <2>9 DEF ImportInv
<1> QED BY <1>1, <1>2

-----------------------------------------------------------------------------
(* The other requests.                                                     *)

LEMMA SkillIsARecord ==
    ASSUME NEW i \in Imports, NEW b, BundleOK(b)
    PROVE  Skill(b, i) # None /\ Skill(b, i).by = i /\ Skill(b, i).uses = b.uses
  BY ConstantsAssumption DEF BundleOK, Skill

\* What may become of the Skill by the hand of `writer`.
SkillBy(writer) ==
    \/ skill' = skill
    \/ skill' = None
    \/ \E t : skill' = [uses |-> t, by |-> writer]

LEMMA NameIsKept ==
    ASSUME NEW writer, NEW i \in Imports, i # writer, BundleOK(imp[i].bundle), SkillBy(writer)
    PROVE  KeepsTheName(i)
<1> SUFFICES ASSUME skill' = Skill(imp[i].bundle, i)
             PROVE  skill = Skill(imp[i].bundle, i)
  BY DEF KeepsTheName
<1>1. skill' # None /\ skill'.by = i
  BY SkillIsARecord
<1>2. ASSUME NEW t, skill' = [uses |-> t, by |-> writer] PROVE FALSE
  BY <1>1, <1>2
<1> QED BY <1>1, <1>2 DEF SkillBy

LEMMA SkillTypeKept ==
    ASSUME SkillType, NEW writer, SkillBy(writer)
    PROVE  SkillType'
<1>1. CASE skill' = skill \/ skill' = None
  BY <1>1 DEF SkillType
<1>2. ASSUME NEW t, skill' = [uses |-> t, by |-> writer] PROVE SkillType'
  BY <1>2 DEF SkillType
<1> QED BY <1>1, <1>2 DEF SkillBy

LEMMA EditInv ==
    ASSUME IInv, Edit, SkillBy(User)
    PROVE  IInv'
<1>1. imp' = imp /\ Noted(User) /\ User \notin Imports
  BY ConstantsAssumption DEF Edit
<1>2. touched' = [i \in Imports |-> touched'[i]]
  BY <1>1 DEF Noted
<1>3. ImportType' /\ SkillType'
  BY <1>1, <1>2, SkillTypeKept DEF IInv, ImportType, Begun
<1>4. ASSUME NEW i \in Imports PROVE ImportInv(i)'
  <2>1. i # User
    BY <1>1
  <2>2. ASSUME Begun(i) PROVE Watches(i) /\ KeepsTheName(i)
    BY <1>1, <2>1, <2>2, NotedIsWatched, NameIsKept DEF IInv, ImportType
  <2> QED BY <1>1, <2>2, OtherStep
<1> QED BY <1>3, <1>4 DEF IInv

LEMMA ToolRequestsInv ==
    ASSUME IInv,
           \/ \E n \in ToolNames : CreateTool(n)
           \/ \E r \in tools : DeleteTool(r) \/ \E n \in ToolNames : UpdateTool(r, n)
    PROVE  IInv'
<1>1. Edit /\ skill' = skill
  BY DEF CreateTool, DeleteTool, UpdateTool
<1> QED BY <1>1, EditInv DEF SkillBy

LEMMA AgentRequestsInv ==
    ASSUME IInv,
           \/ \E n \in AgentNames, skilled \in BOOLEAN : CreateAgent(n, skilled)
           \/ \E r \in agents :
                  \/ DeleteAgent(r)
                  \/ \E n \in AgentNames, skilled \in BOOLEAN : UpdateAgent(r, n, skilled)
    PROVE  IInv'
<1>1. Edit /\ skill' = skill
  BY DEF CreateAgent, DeleteAgent, UpdateAgent
<1> QED BY <1>1, EditInv DEF SkillBy

LEMMA SkillRequestsInv ==
    ASSUME IInv, CreateSkill \/ WriteSkillPart \/ DeleteSkill \/ \E t : UpdateSkill(t)
    PROVE  IInv'
<1>1. Edit
  BY DEF CreateSkill, WriteSkillPart, DeleteSkill, UpdateSkill
<1>2. CASE WriteSkillPart
  <2>1. skill # None /\ skill' = [skill EXCEPT !.by = User]
    BY <1>2 DEF WriteSkillPart
  <2>2. skill = [uses |-> skill.uses, by |-> skill.by]
    BY <2>1 DEF IInv, SkillType
  <2>3. skill' = [uses |-> skill.uses, by |-> User]
    BY <2>1, <2>2
  <2> QED BY <1>1, <2>3, EditInv DEF SkillBy
<1>3. CASE CreateSkill \/ DeleteSkill \/ \E t : UpdateSkill(t)
  <2>1. SkillBy(User)
    BY <1>3 DEF CreateSkill, DeleteSkill, UpdateSkill, SkillBy
  <2> QED BY <1>1, <2>1, EditInv
<1> QED BY <1>2, <1>3

LEMMA SceneRequestsInv ==
    ASSUME IInv,
           \/ \E n \in PresetNames, agent \in Names(agents) : ChangeScene(n, agent)
           \/ \E r \in tab : RemoveScene(r)
    PROVE  IInv'
<1>1. Edit /\ skill' = skill
  BY DEF ChangeScene, RemoveScene, SaveScenes
<1> QED BY <1>1, EditInv DEF SkillBy

\* Nothing changes on disk.
LEMMA QuietInv ==
    ASSUME IInv, UNCHANGED <<tools, agents, presets, skill, touched>>, UNCHANGED imp
    PROVE  IInv'
<1>1. ImportType' /\ SkillType'
  BY DEF IInv, ImportType, SkillType, Begun
<1>2. ASSUME NEW i \in Imports PROVE ImportInv(i)'
  BY UnchangedIsWatched, OtherStep DEF KeepsTheName
<1> QED BY <1>1, <1>2 DEF IInv

LEMMA RestartInv ==
    ASSUME IInv, Restart
    PROVE  IInv'
<1>1. /\ UNCHANGED <<tools, agents, presets, skill, touched>>
      /\ imp' = [i \in Imports |->
                   IF imp[i].phase = "waiting" THEN [phase |-> "failed"] ELSE imp[i]]
  BY DEF Restart
<1>2. ASSUME NEW i \in Imports
      PROVE  \/ imp'[i] = imp[i]
             \/ imp'[i].phase = "failed"
  BY <1>1
<1>3. ImportType' /\ SkillType'
  BY <1>1, <1>2 DEF IInv, ImportType, SkillType, Begun
<1>4. ASSUME NEW i \in Imports PROVE ImportInv(i)'
  <2>1. CASE imp'[i] = imp[i]
    BY <1>1, <2>1, UnchangedIsWatched, OtherStep DEF KeepsTheName
  <2>2. CASE imp'[i].phase = "failed"
    <3>1. ~Begun(i)' /\ ~Done(i)'
      BY <2>2 DEF Begun, Done
    <3> QED BY <3>1 DEF ImportInv, ToolInForce, SkillInForce, AgentInForce, PresetInForce,
            ToolIsThere, SkillIsThere, AgentIsThere
  <2> QED BY <1>2, <2>1, <2>2
<1> QED BY <1>3, <1>4 DEF IInv

-----------------------------------------------------------------------------
(* Imports.                                                                *)

\* A step of import i: the others are watching, so it is enough to look at i.
LEMMA ImportStep ==
    ASSUME IInv, NEW i \in Imports, NEW new, imp' = [imp EXCEPT ![i] = new],
           new.phase \in {"failed", "waiting", "done"},
           new.phase # "failed" => BundleOK(new.bundle),
           \/ Noted(i)
           \/ UNCHANGED <<tools, agents, presets, skill, touched>>,
           SkillBy(i), ImportInv(i)'
    PROVE  IInv'
<1>1. imp' = [j \in Imports |-> IF j = i THEN new ELSE imp[j]]
  BY DEF IInv, ImportType
<1>2. imp'[i] = new /\ \A j \in Imports : j # i => imp'[j] = imp[j]
  BY <1>1
<1>3. touched' = [j \in Imports |-> touched'[j]]
  BY DEF Noted, IInv, ImportType
<1>4. ImportType'
  BY <1>1, <1>2, <1>3 DEF IInv, ImportType, Begun
<1>5. SkillType'
  BY SkillTypeKept DEF IInv
<1>6. ASSUME NEW j \in Imports, j # i PROVE ImportInv(j)'
  <2>1. ASSUME Begun(j) PROVE Watches(j)
    BY <1>6, <2>1, NotedIsWatched, UnchangedIsWatched
  <2>2. ASSUME Begun(j) PROVE KeepsTheName(j)
    BY <1>6, <2>2, NameIsKept DEF IInv, ImportType
  <2> QED BY <1>2, <1>6, <2>1, <2>2, OtherStep
<1> QED BY <1>4, <1>5, <1>6 DEF IInv

\* Before its end an import keeps nobody waiting.
LEMMA FailedInv ==
    ASSUME NEW i \in Imports, imp'[i].phase = "failed"
    PROVE  ImportInv(i)'
<1>1. ~Begun(i)' /\ ~Done(i)'
  BY DEF Begun, Done
<1> QED BY <1>1 DEF ImportInv, ToolInForce, SkillInForce, AgentInForce, PresetInForce,
        ToolIsThere, SkillIsThere, AgentIsThere

LEMMA ImportBreaksOffInv ==
    ASSUME IInv, NEW i \in Imports, NEW b, ImportBreaksOff(i, b)
    PROVE  IInv'
<1> DEFINE new == [phase |-> "failed"]
<1>1. /\ imp' = [imp EXCEPT ![i] = new] /\ Noted(i)
      /\ skill' \in {None, skill} \/ skill' = [uses |-> b.uses, by |-> i]
  BY DEF ImportBreaksOff, Fails, SkillCopied, Skill
<1>2. imp'[i] = new /\ new.phase = "failed"
  BY <1>1 DEF IInv, ImportType
<1>3. ImportInv(i)' /\ SkillBy(i)
  BY <1>1, <1>2, FailedInv DEF SkillBy
<1> HIDE DEF new
<1> QED BY <1>1, <1>2, <1>3, ImportStep

LEMMA ImportFailsLateInv ==
    ASSUME IInv, NEW i \in Imports, ImportFailsLate(i)
    PROVE  IInv'
<1> DEFINE new == [phase |-> "failed"]
<1>1. imp' = [imp EXCEPT ![i] = new] /\ Noted(i) /\ UNCHANGED skill
  BY DEF ImportFailsLate, Fails
<1>2. imp'[i] = new /\ new.phase = "failed"
  BY <1>1 DEF IInv, ImportType
<1>3. ImportInv(i)' /\ SkillBy(i)
  BY <1>1, <1>2, FailedInv DEF SkillBy
<1> HIDE DEF new
<1> QED BY <1>1, <1>2, <1>3, ImportStep

-----------------------------------------------------------------------------
(* Bundles.                                                                *)

BundleType ==
    [kind : {"tool", "skill", "expert", "scene"}, skill : BOOLEAN,
     uses : ToolNames \cup {None}, tool : ToolNames \cup {None},
     agent : AgentNames \cup {None}, skilled : BOOLEAN,
     preset : PresetNames \cup {None}, wants : AgentNames \cup {None}]

LEMMA NothingIs == Nothing \in BundleType
  BY DEF Nothing, BundleType

LEMMA ToolBundleOK ==
    ASSUME NEW b \in ToolBundles
    PROVE  BundleOK(b) /\ b.kind = "tool"
<1>1. PICK n \in ToolNames : b = [Nothing EXCEPT !.tool = n]
  BY DEF ToolBundles
<1>2. /\ b.kind = "tool" /\ b.skill = FALSE /\ b.uses = None /\ b.agent = None
      /\ b.skilled = FALSE /\ b.preset = None /\ b.wants = None
  BY <1>1 DEF Nothing
<1> QED BY <1>2 DEF BundleOK

LEMMA SkillBundleOK ==
    ASSUME NEW b \in SkillBundles
    PROVE  /\ b \in BundleType /\ BundleOK(b) /\ b.kind = "skill" /\ b.skill
           /\ b.preset = None /\ b.wants = None
<1>1. PICK t \in ToolNames \cup {None} : \E n \in Carried(t) :
          b = [Nothing EXCEPT !.kind = "skill", !.skill = TRUE, !.uses = t, !.tool = n]
  BY DEF SkillBundles
<1> PICK n \in Carried(t) :
       b = [Nothing EXCEPT !.kind = "skill", !.skill = TRUE, !.uses = t, !.tool = n]
  BY <1>1
<1>2. n \in ToolNames \cup {None} /\ (n # None => t # None /\ n.key = t.key)
  BY DEF Carried
<1>3. /\ b.kind = "skill" /\ b.skill = TRUE /\ b.uses = t /\ b.tool = n /\ b.agent = None
      /\ b.skilled = FALSE /\ b.preset = None /\ b.wants = None
  BY <1>1 DEF Nothing
<1>4. b \in BundleType
  BY <1>1, <1>2, NothingIs DEF BundleType
<1> QED BY <1>2, <1>3, <1>4 DEF BundleOK

LEMMA ExpertBundleOK ==
    ASSUME NEW b \in ExpertBundles
    PROVE  /\ b \in BundleType /\ BundleOK(b) /\ b.kind = "expert"
           /\ b.preset = None
<1>1. CASE \E c \in SkillBundles \cup {Nothing}, n \in AgentNames : b = SkilledExpert(c, n)
  <2>1. PICK c \in SkillBundles \cup {Nothing}, n \in AgentNames :
            b = SkilledExpert(c, n)
    BY <1>1
  <2>2. /\ c \in BundleType /\ c.preset = None /\ c.wants = None
        /\ c.uses \in ToolNames \cup {None}
        /\ c.uses # None => c.skill
        /\ c.tool # None => c.uses # None /\ c.tool.key = c.uses.key
    <3>1. CASE c \in SkillBundles
      BY <3>1, SkillBundleOK DEF BundleOK
    <3>2. CASE c = Nothing
      BY <3>2, NothingIs DEF Nothing
    <3> QED BY <3>1, <3>2
  <2>3. /\ b.kind = "expert" /\ b.uses = c.uses /\ b.tool = c.tool /\ b.skill = c.skill
        /\ b.skilled = TRUE /\ b.preset = None /\ b.wants = None
    BY <2>1, <2>2 DEF BundleType, SkilledExpert
  <2>4. b \in BundleType
    BY <2>1, <2>2 DEF BundleType, SkilledExpert
  <2> QED BY <2>2, <2>3, <2>4 DEF BundleOK
<1>2. CASE \E n \in AgentNames : b = PlainExpert(n)
  <2>1. PICK n \in AgentNames : b = PlainExpert(n)
    BY <1>2
  <2>2. /\ b.kind = "expert" /\ b.uses = None /\ b.tool = None /\ b.skill = FALSE
        /\ b.skilled = FALSE /\ b.preset = None /\ b.wants = None
    BY <2>1 DEF Nothing, PlainExpert
  <2>3. b \in BundleType
    BY <2>1, NothingIs DEF BundleType, PlainExpert
  <2> QED BY <2>2, <2>3 DEF BundleOK
<1> QED BY <1>1, <1>2 DEF ExpertBundles

LEMMA SceneBundleOK ==
    ASSUME NEW b \in SceneBundles
    PROVE  BundleOK(b) /\ b.kind = "scene"
<1>1. CASE \E c \in ExpertBundles, n \in PresetNames : b = ForScene(c, n, c.agent)
  <2>1. PICK c \in ExpertBundles, n \in PresetNames : b = ForScene(c, n, c.agent)
    BY <1>1
  <2>2. c \in BundleType /\ BundleOK(c) /\ c.kind = "expert"
    BY ExpertBundleOK
  <2>3. /\ b.kind = "scene" /\ b.uses = c.uses /\ b.tool = c.tool /\ b.skill = c.skill
        /\ b.skilled = c.skilled /\ b.agent = c.agent /\ b.wants = c.agent
    BY <2>1, <2>2 DEF BundleType, ForScene
  <2> QED BY <2>2, <2>3 DEF BundleOK
<1>2. CASE \E n \in PresetNames, w \in AgentNames : b = ForScene(Nothing, n, w)
  <2>1. PICK n \in PresetNames, w \in AgentNames : b = ForScene(Nothing, n, w)
    BY <1>2
  <2>2. /\ b.kind = "scene" /\ b.uses = None /\ b.tool = None /\ b.skill = FALSE
        /\ b.agent = None
    BY <2>1 DEF Nothing, ForScene
  <2> QED BY <2>2 DEF BundleOK
<1> QED BY <1>1, <1>2 DEF SceneBundles

-----------------------------------------------------------------------------
(* An import begins.                                                       *)

LEMMA WrittenHas ==
    ASSUME NEW rows, NEW row
    PROVE  row \in Written(rows, row) /\ row.name \in Names(Written(rows, row))
  BY DEF Written, Names

LEMMA ImportToolInv ==
    ASSUME IInv, NEW i \in Imports, NEW b \in ToolBundles, ImportTool(i, b)
    PROVE  IInv'
<1> DEFINE new == [phase |-> "done", bundle |-> b, report |-> {}]
           row == ToolRow(b, i)
           others == {r \in tools : r.name.key # b.tool.key}
<1>1. /\ imp' = [imp EXCEPT ![i] = new] /\ Noted(i) /\ skill' = skill
      /\ tools' = Written(tools, row) \/ tools' \in Mirrored(others \cup {row})
  BY DEF ImportTool, Moves
<1>2. new.phase = "done" /\ new.bundle = b /\ BundleOK(b) /\ b.kind = "tool"
  BY ToolBundleOK
<1>3. imp'[i] = new
  BY <1>1 DEF IInv, ImportType
<1> HIDE DEF new
<1>4. Done(i)' /\ Begun(i)' /\ imp'[i].bundle = b
  BY <1>2, <1>3 DEF Done, Begun
<1>5. row \in tools' \/ \E r \in tools' \ {row} : r.name.dir = b.tool.dir
  <2>1. CASE tools' = Written(tools, row)
    BY <2>1, WrittenHas
  <2>2. CASE tools' \in Mirrored(others \cup {row})
    <3>1. PICK k \in tools' : {x \in tools' : x.name.dir = row.name.dir} = {k}
      BY <2>2 DEF Mirrored
    <3>2. k.name.dir = row.name.dir /\ row.name = b.tool
      BY <3>1 DEF ToolRow
    <3> QED BY <3>2
  <2> QED BY <1>1, <2>1, <2>2
<1>6. ToolInForce(i)'
  <2>1. row \in tools' \/ GivenWay(i)'
    BY <1>2, <1>4, <1>5 DEF GivenWay
  <2> QED BY <1>4, <2>1 DEF ToolInForce
<1>7. ImportInv(i)'
  BY <1>2, <1>4, <1>6 DEF BundleOK, ImportInv, SkillInForce, AgentInForce, PresetInForce,
     ToolIsThere, SkillIsThere, AgentIsThere
<1> QED BY <1>1, <1>2, <1>7, ImportStep DEF SkillBy

LEMMA BeginInv ==
    ASSUME IInv, NEW i \in Imports, NEW b, NEW report, BeginImport(i, b, report), BundleOK(b),
           b.kind # "tool",
           b.kind # "skill" => MissingForExpert(b, SkillCopied(b, i)) \subseteq report,
           b.kind = "scene" => /\ agents' = AgentsMerged(b, i)
                               /\ MissingForScene(b, SkillCopied(b, i)) \subseteq report
    PROVE  IInv'
<1> DEFINE new == [phase |-> "waiting", bundle |-> b, report |-> report]
<1>1. /\ imp' = [imp EXCEPT ![i] = new] /\ Noted(i)
      /\ skill' = SkillCopied(b, i) /\ tools' = ToolsMerged(b, i)
  BY DEF BeginImport, Moves
<1>2. /\ new.phase = "waiting" /\ new.bundle = b /\ new.report = report
      /\ imp'[i] = new
  BY <1>1 DEF IInv, ImportType
<1> HIDE DEF new
<1>3. /\ Begun(i)' /\ ~Done(i)' /\ imp'[i].bundle = b /\ imp'[i].report = report
      /\ b.kind \in {"skill", "expert", "scene"}
  BY <1>2 DEF Done, Begun, BundleOK
<1>4. /\ b.skill => skill' = Skill(b, i)
      /\ ~b.skill => skill' = skill
  BY <1>1 DEF SkillCopied
<1>5. b.tool # None =>
        \/ ToolRow(b, i) \in tools'
        \/ /\ tools' = tools
           /\ \E r \in tools : r.name.key = b.tool.key /\ r.name # b.tool
  BY <1>1, WrittenHas DEF ToolsMerged, ToolImported, ToolRow
<1>6. b.tool # None => ToolRow(b, i) \in tools' \/ GivenWay(i)'
  <2>1. ASSUME NEW r \in tools', r.name.key = b.tool.key, r.name # b.tool
        PROVE  GivenWay(i)'
    <3>1. r # ToolRow(b, i)
      BY <2>1 DEF ToolRow
    <3> QED BY <1>3, <2>1, <3>1 DEF GivenWay
  <2> QED BY <1>5, <2>1
<1>7. ToolInForce(i)'
  BY <1>3, <1>6 DEF ToolInForce
<1>8. SkillInForce(i)'
  BY <1>3, <1>4 DEF SkillInForce
<1>9. b.kind = "scene" /\ b.agent # None =>
        AgentRow(b, i) \in agents' /\ b.agent \in Names(agents')
  <2>1. AgentRow(b, i).name = b.agent
    BY DEF AgentRow
  <2> QED BY <2>1, WrittenHas DEF AgentsMerged
<1>10. AgentInForce(i)' /\ PresetInForce(i)'
  BY <1>3, <1>9 DEF AgentInForce, PresetInForce
<1>11. ToolIsThere(i)'
  <2> SUFFICES ASSUME b.kind # "skill", b.uses # None
               PROVE  \/ b.uses \in Names(tools')
                      \/ Known(i, "tool", b.uses)'
                      \/ b.tool # None /\ GivenWay(i)'
    BY <1>3 DEF ToolIsThere
  <2>1. b.skill /\ b.skilled /\ SkillCopied(b, i) = Skill(b, i)
    BY <1>3 DEF BundleOK, SkillCopied
  <2>2. MissingTool(b, Skill(b, i)) \subseteq report
    BY <2>1, SkillIsARecord DEF MissingForExpert
  <2>3. b.uses \in Names(tools) \cup {b.tool} \/ <<"tool", b.uses>> \in report
    BY <2>2, SkillIsARecord DEF MissingTool
  <2>4. CASE <<"tool", b.uses>> \in report
    BY <2>4, <1>3 DEF Known
  <2>5. CASE b.uses = b.tool
    <3>1. ToolRow(b, i).name = b.tool
      BY DEF ToolRow
    <3> QED BY <2>5, <3>1, <1>6 DEF Names
  <2>6. CASE b.uses \in Names(tools) /\ b.uses # b.tool
    <3>1. tools' = tools
      <4>1. CASE b.tool = None
        BY <4>1, <1>1 DEF ToolsMerged
      <4>2. CASE b.tool # None
        <5>1. PICK r \in tools : r.name = b.uses
          BY <2>6 DEF Names
        <5>2. r.name.key = b.tool.key /\ r.name # b.tool
          BY <4>2, <5>1, <2>6, <1>3 DEF BundleOK
        <5>3. ToolRow(b, i).name = b.tool
          BY DEF ToolRow
        <5> QED BY <4>2, <5>2, <5>3, <1>1 DEF ToolsMerged, ToolImported
      <4> QED BY <4>1, <4>2
    <3> QED BY <2>6, <3>1
  <2> QED BY <2>3, <2>4, <2>5, <2>6
<1>12. SkillIsThere(i)'
  <2> SUFFICES ASSUME b.skilled PROVE skill' # None \/ Known(i, "skill", None)'
    BY <1>3 DEF SkillIsThere
  <2>1. b.kind # "skill"
    BY DEF BundleOK
  <2>2. CASE SkillCopied(b, i) = None
    BY <2>1, <2>2, <1>3 DEF MissingForExpert, Known
  <2>3. CASE SkillCopied(b, i) # None
    BY <2>3, <1>1
  <2> QED BY <2>2, <2>3
<1>13. AgentIsThere(i)'
  <2> SUFFICES ASSUME b.wants # None
               PROVE  b.wants \in Names(agents') \/ Known(i, "agent", b.wants)'
    BY <1>3 DEF AgentIsThere
  <2>1. b.kind = "scene" /\ (b.agent # None => b.wants = b.agent)
    BY DEF BundleOK
  <2>2. CASE b.agent # None
    BY <1>9, <2>1, <2>2
  <2>3. CASE b.agent = None
    <3>1. agents' = agents
      BY <2>1, <2>3 DEF AgentsMerged
    <3>2. b.wants \in Names(agents) \/ <<"agent", b.wants>> \in report
      BY <2>1, <2>3 DEF MissingForScene
    <3> QED BY <3>1, <3>2, <1>3 DEF Known
  <2> QED BY <2>2, <2>3
<1>14. ImportInv(i)'
  BY <1>7, <1>8, <1>10, <1>11, <1>12, <1>13 DEF ImportInv
<1>15. SkillBy(i)
  BY <1>4 DEF SkillBy, Skill
<1> QED BY <1>1, <1>2, <1>14, <1>15, ImportStep

LEMMA BeginsInv ==
    ASSUME IInv, NEW i \in Imports,
           \/ \E b \in SkillBundles : BeginSkillImport(i, b)
           \/ \E b \in ExpertBundles : BeginExpertImport(i, b)
           \/ \E b \in SceneBundles : BeginSceneImport(i, b)
    PROVE  IInv'
<1>1. ASSUME NEW b \in SkillBundles, BeginSkillImport(i, b) PROVE IInv'
  <2>1. BundleOK(b) /\ b.kind = "skill" /\ BeginImport(i, b, {})
    BY <1>1, SkillBundleOK DEF BeginSkillImport
  <2> QED BY <2>1, BeginInv
<1>2. ASSUME NEW b \in ExpertBundles, BeginExpertImport(i, b) PROVE IInv'
  <2>1. /\ BundleOK(b) /\ b.kind = "expert"
        /\ BeginImport(i, b, MissingForExpert(b, SkillCopied(b, i)))
    BY <1>2, ExpertBundleOK DEF BeginExpertImport
  <2> QED BY <2>1, BeginInv
<1>3. ASSUME NEW b \in SceneBundles, BeginSceneImport(i, b) PROVE IInv'
  <2>1. /\ BundleOK(b) /\ b.kind = "scene" /\ agents' = AgentsMerged(b, i)
        /\ BeginImport(i, b, MissingForScene(b, SkillCopied(b, i)))
    BY <1>3, SceneBundleOK DEF BeginSceneImport
  <2>2. MissingForExpert(b, SkillCopied(b, i)) \subseteq MissingForScene(b, SkillCopied(b, i))
    BY DEF MissingForScene
  <2> QED BY <2>1, <2>2, BeginInv
<1> QED BY <1>1, <1>2, <1>3

-----------------------------------------------------------------------------
(* An import ends.                                                         *)

LEMMA EndStep ==
    ASSUME IInv, NEW i \in Imports, imp[i].phase = "waiting", NEW report,
           Moves(i, "done", imp[i].bundle, report),
           imp[i].bundle.kind # "skill" => report = imp[i].report,
           UNCHANGED <<tools, skill>>,
           UNCHANGED <<agents, presets, touched>> \/ Noted(i),
           \/ agents' = agents
           \/ imp[i].bundle.kind = "expert" /\ agents' = AgentsMerged(imp[i].bundle, i),
           imp[i].bundle.agent # None /\ imp[i].bundle.kind = "expert" =>
               agents' = AgentsMerged(imp[i].bundle, i),
           imp[i].bundle.preset # None =>
               PresetRow(imp[i].bundle, i) \in presets',
           imp[i].bundle.kind = "skill" => report = MissingForSkill(imp[i].bundle, skill)
    PROVE  IInv'
<1> DEFINE b == imp[i].bundle
           new == [phase |-> "done", bundle |-> b, report |-> report]
<1>1. imp' = [imp EXCEPT ![i] = new] /\ imp'[i] = new
  BY DEF Moves, IInv, ImportType
<1>2. new.phase = "done" /\ new.bundle = b /\ new.report = report
  OBVIOUS
<1>3. ImportInv(i) /\ Begun(i) /\ BundleOK(b)
  BY DEF IInv, ImportType, Begun
<1> HIDE DEF new
<1>4. /\ Begun(i)' /\ Done(i)' /\ imp'[i].bundle = b /\ imp'[i].report = report
      /\ b' = b
  BY <1>1, <1>2 DEF Begun, Done
<1> HIDE DEF b
<1>5. touched'[i] = touched[i]
  BY DEF Noted
<1>6. \A kind, n : Overtaken(i, kind, n)' <=> Overtaken(i, kind, n)
  BY <1>5 DEF Overtaken
<1>7. GivenWay(i)' <=> GivenWay(i)
  BY <1>4 DEF GivenWay, b
<1>8. ToolInForce(i)'
  BY <1>3, <1>4, <1>6, <1>7 DEF ImportInv, ToolInForce, b
<1>9. SkillInForce(i)'
  BY <1>3, <1>4, <1>6 DEF ImportInv, SkillInForce, b
<1>10. AgentInForce(i)'
  <2> SUFFICES ASSUME b.agent # None
               PROVE  AgentRow(b, i) \in agents' \/ Overtaken(i, "agent", b.agent)'
    BY <1>4 DEF AgentInForce
  <2>1. CASE b.kind = "expert"
    BY <2>1, WrittenHas DEF AgentsMerged, b
  <2>2. CASE b.kind = "scene"
    BY <2>2, <1>3, <1>4, <1>6 DEF ImportInv, AgentInForce, b
  <2> QED BY <2>1, <2>2, <1>3 DEF BundleOK
<1>11. PresetInForce(i)'
  BY <1>4 DEF PresetInForce, b
<1>12. ToolIsThere(i)'
  <2> SUFFICES ASSUME b.uses # None, skill = Skill(b, i)
               PROVE  \/ b.uses \in Names(tools)
                      \/ Known(i, "tool", b.uses)'
                      \/ b.tool # None /\ GivenWay(i)
    BY <1>4, <1>7 DEF ToolIsThere
  <2>1. CASE b.kind # "skill"
    BY <2>1, <1>3, <1>4, <1>6 DEF ImportInv, ToolIsThere, Known, b
  <2>2. CASE b.kind = "skill"
    <3>1. report = MissingTool(b, skill)
      BY <2>2 DEF MissingForSkill, b
    <3>2. b.uses \in Names(tools) \cup {b.tool} \/ <<"tool", b.uses>> \in report
      BY <3>1, <1>3, SkillIsARecord DEF MissingTool
    <3>3. CASE <<"tool", b.uses>> \in report
      BY <3>3, <1>4 DEF Known
    <3>4. CASE b.uses = b.tool
      <4>1. ToolRow(b, i) \in tools \/ Overtaken(i, "tool", b.tool) \/ GivenWay(i)
        BY <3>4, <1>3 DEF ImportInv, ToolInForce, b
      <4>2. ToolRow(b, i).name = b.tool
        BY DEF ToolRow
      <4>3. CASE ToolRow(b, i) \in tools
        BY <3>4, <4>2, <4>3 DEF Names
      <4>4. CASE Overtaken(i, "tool", b.tool)
        BY <3>4, <4>4, <1>4, <1>6 DEF Known
      <4> QED BY <3>4, <4>1, <4>3, <4>4
    <3> QED BY <3>2, <3>3, <3>4
  <2> QED BY <2>1, <2>2
<1>13. SkillIsThere(i)'
  <2> SUFFICES ASSUME b.skilled PROVE skill # None \/ Known(i, "skill", None)'
    BY <1>4 DEF SkillIsThere
  <2>1. b.kind # "skill"
    BY <1>3 DEF BundleOK
  <2> QED BY <2>1, <1>3, <1>4, <1>6 DEF ImportInv, SkillIsThere, Known, b
<1>14. AgentIsThere(i)'
  <2> SUFFICES ASSUME b.wants # None
               PROVE  b.wants \in Names(agents') \/ Known(i, "agent", b.wants)'
    BY <1>4 DEF AgentIsThere
  <2>1. b.kind = "scene"
    BY <1>3 DEF BundleOK
  <2> QED BY <2>1, <1>3, <1>4, <1>6 DEF ImportInv, AgentIsThere, Known, b
<1>15. ImportInv(i)'
  BY <1>8, <1>9, <1>10, <1>11, <1>12, <1>13, <1>14 DEF ImportInv
<1>16. UNCHANGED <<tools, agents, presets, skill, touched>> \/ Noted(i)
  OBVIOUS
<1> QED BY <1>1, <1>2, <1>3, <1>15, <1>16, ImportStep DEF SkillBy

LEMMA EndsInv ==
    ASSUME IInv, NEW i \in Imports, EndSkillImport(i) \/ EndExpertImport(i) \/ EndSceneImport(i)
    PROVE  IInv'
<1> DEFINE b == imp[i].bundle
<1>1. Begun(i) /\ BundleOK(b)
  BY DEF IInv, ImportType, Begun, EndSkillImport, EndExpertImport, EndSceneImport, Waiting
<1>2. CASE EndSkillImport(i)
  <2>1. /\ imp[i].phase = "waiting" /\ b.kind = "skill"
        /\ Moves(i, "done", b, MissingForSkill(b, skill))
        /\ UNCHANGED <<tools, agents, presets, skill, touched>>
    BY <1>2 DEF EndSkillImport, Waiting
  <2>2. b.preset = None
    BY <1>1, <2>1 DEF BundleOK
  <2> QED BY <2>1, <2>2, EndStep
<1>3. CASE EndExpertImport(i)
  <2>1. /\ imp[i].phase = "waiting" /\ b.kind = "expert"
        /\ Moves(i, "done", b, imp[i].report)
        /\ UNCHANGED <<tools, presets, skill>> /\ Noted(i)
        /\ agents' = AgentsMerged(b, i)
    BY <1>3 DEF EndExpertImport, Waiting
  <2>2. b.preset = None
    BY <1>1, <2>1 DEF BundleOK
  <2> QED BY <2>1, <2>2, EndStep
<1>4. CASE EndSceneImport(i)
  <2>1. /\ imp[i].phase = "waiting" /\ b.kind = "scene"
        /\ Moves(i, "done", b, imp[i].report)
        /\ UNCHANGED <<tools, agents, skill>> /\ Noted(i)
        /\ presets' = PresetImported(PresetRow(b, i))
    BY <1>4 DEF EndSceneImport, Waiting
  <2>2. PresetRow(b, i) \in presets'
    BY <2>1, WrittenHas DEF PresetImported
  <2> QED BY <2>1, <2>2, EndStep
<1> QED BY <1>2, <1>3, <1>4

-----------------------------------------------------------------------------
(* The theorems.                                                           *)

LEMMA NextInv == IInv /\ [Next]_vars => IInv'
<1> SUFFICES ASSUME IInv, [Next]_vars PROVE IInv'
  OBVIOUS
<1>1. CASE \/ \E n \in ToolNames : CreateTool(n)
           \/ \E r \in tools : DeleteTool(r) \/ \E n \in ToolNames : UpdateTool(r, n)
  BY <1>1, ToolRequestsInv
<1>2. CASE \/ \E n \in AgentNames, skilled \in BOOLEAN : CreateAgent(n, skilled)
           \/ \E r \in agents :
                  \/ DeleteAgent(r)
                  \/ \E n \in AgentNames, skilled \in BOOLEAN : UpdateAgent(r, n, skilled)
  BY <1>2, AgentRequestsInv
<1>3. CASE \/ CreateSkill \/ WriteSkillPart \/ DeleteSkill
           \/ \E t \in Names(tools) \cup {None} : UpdateSkill(t)
  BY <1>3, SkillRequestsInv
<1>4. CASE OpenEditor
  BY <1>4, QuietInv DEF OpenEditor
<1>5. CASE \/ \E n \in PresetNames, agent \in Names(agents) : ChangeScene(n, agent)
           \/ \E r \in tab : RemoveScene(r)
  BY <1>5, SceneRequestsInv
<1>6. ASSUME NEW i \in Imports, \E b \in ToolBundles : ImportTool(i, b)
      PROVE  IInv'
  BY <1>6, ImportToolInv
<1>7. ASSUME NEW i \in Imports,
             \/ \E b \in SkillBundles : BeginSkillImport(i, b)
             \/ \E b \in ExpertBundles : BeginExpertImport(i, b)
             \/ \E b \in SceneBundles : BeginSceneImport(i, b)
      PROVE  IInv'
  BY <1>7, BeginsInv
<1>8. ASSUME NEW i \in Imports,
             \E b \in SkillBundles \cup ExpertBundles \cup SceneBundles : ImportBreaksOff(i, b)
      PROVE  IInv'
  BY <1>8, ImportBreaksOffInv
<1>12. ASSUME NEW i \in Imports, ImportFailsLate(i)
       PROVE  IInv'
  BY <1>12, ImportFailsLateInv
<1>9. ASSUME NEW i \in Imports, EndSkillImport(i) \/ EndExpertImport(i) \/ EndSceneImport(i)
      PROVE  IInv'
  BY <1>9, EndsInv
<1>10. CASE Restart
  BY <1>10, RestartInv
<1>11. CASE UNCHANGED vars
  BY <1>11, QuietInv DEF vars
<1> QED BY <1>1, <1>2, <1>3, <1>4, <1>5, <1>6, <1>7, <1>8, <1>9, <1>10, <1>11, <1>12 DEF Next

\* What holds of every import from its beginning on.
THEOREM Invariance == Spec => []IInv
  BY InitIInv, NextInv, PTL DEF Spec

\* Whatever imports run at once and whatever requests come while they wait, an import that
\* has answered is in force until another writes over it; but a tool of its bundle may have
\* given way to one of the account that differs in case or has the directory.
THEOREM ImportsAreInForce == Spec => []CompletedImportIsInForce
<1>1. IInv => CompletedImportIsInForce
  <2> SUFFICES ASSUME IInv, NEW i \in Imports, imp[i].phase = "done"
               PROVE  LET b == imp[i].bundle IN
                      /\ b.tool # None =>
                           ToolRow(b, i) \in tools \/ Overtaken(i, "tool", b.tool) \/ GivenWay(i)
                      /\ b.skill => skill = Skill(b, i) \/ Overtaken(i, "skill", None)
                      /\ b.agent # None =>
                           AgentRow(b, i) \in agents \/ Overtaken(i, "agent", b.agent)
                      /\ b.preset # None =>
                           PresetRow(b, i) \in presets \/ Overtaken(i, "preset", b.preset)
    BY DEF CompletedImportIsInForce
  <2>1. Begun(i) /\ Done(i) /\ ImportInv(i)
    BY DEF IInv, Begun, Done
  <2> QED BY <2>1 DEF ImportInv, ToolInForce, SkillInForce, AgentInForce, PresetInForce
<1> QED BY <1>1, Invariance, PTL

\* A reference of an imported row leads to a resource, or was reported missing, or its
\* target has been written by others since the import began; or the account has the tool of
\* the bundle in another spelling, to which that tool gave way without a report.
THEOREM ReferencesAreReported == Spec => []UnresolvedIsReported
<1>1. IInv => UnresolvedIsReported
  <2> SUFFICES ASSUME IInv, NEW i \in Imports, imp[i].phase = "done"
               PROVE  LET b == imp[i].bundle
                          Told(kind, n) == <<kind, n>> \in imp[i].report \/ Overtaken(i, kind, n)
                      IN
                      /\ b.uses # None /\ skill = Skill(b, i) =>
                           \/ b.uses \in Names(tools) \/ Told("tool", b.uses)
                           \/ b.tool # None /\ GivenWay(i)
                      /\ b.skilled /\ AgentRow(b, i) \in agents =>
                           skill # None \/ Told("skill", None)
                      /\ b.wants # None /\ PresetRow(b, i) \in presets =>
                           b.wants \in Names(agents) \/ Told("agent", b.wants)
    BY DEF UnresolvedIsReported
  <2>1. Begun(i) /\ Done(i) /\ ImportInv(i)
    BY DEF IInv, Begun, Done
  <2> QED BY <2>1 DEF ImportInv, ToolIsThere, SkillIsThere, AgentIsThere, Known
<1> QED BY <1>1, Invariance, PTL

-----------------------------------------------------------------------------
(* Names and directories.                                                  *)

\* Two rows of a kind are stored in two directories.
StoredApart(rows) == \A r, s \in rows : r.name.dir = s.name.dir => r = s

\* Two tools differ in more than case, so that a name without regard to case, which is how
\* the settings, the imports and the exports look a tool up, means one of them.
ToolsAreNamedApart == \A r, s \in tools : r.name.key = s.name.key => r = s

FilesAreApart == StoredApart(tools) /\ StoredApart(agents) /\ StoredApart(presets)

LEMMA WrittenApart ==
    ASSUME NEW rows, StoredApart(rows), NEW row
    PROVE  StoredApart(Written(rows, row))
  BY DEF StoredApart, Written

LEMMA MirroredApart ==
    ASSUME NEW rows, NEW kept \in Mirrored(rows)
    PROVE  StoredApart(kept) /\ kept \subseteq rows
<1>1. kept \subseteq rows
  BY DEF Mirrored
<1> SUFFICES ASSUME NEW r \in kept, NEW s \in kept, r.name.dir = s.name.dir PROVE r = s
  BY <1>1 DEF StoredApart
<1>2. PICK k \in kept : {x \in kept : x.name.dir = r.name.dir} = {k}
  BY <1>1 DEF Mirrored
<1>3. r \in {x \in kept : x.name.dir = r.name.dir} /\ s \in {x \in kept : x.name.dir = r.name.dir}
  OBVIOUS
<1> QED BY <1>2, <1>3

LEMMA PartApart ==
    ASSUME NEW rows, StoredApart(rows), NEW part \in SUBSET rows
    PROVE  StoredApart(part)
  BY DEF StoredApart

LEMMA MergedApart ==
    ASSUME FilesAreApart, NEW b, NEW i
    PROVE  StoredApart(ToolsMerged(b, i)) /\ StoredApart(AgentsMerged(b, i))
<1>1. StoredApart(ToolsMerged(b, i))
  BY WrittenApart DEF ToolsMerged, ToolImported, FilesAreApart
<1>2. StoredApart(AgentsMerged(b, i))
  BY WrittenApart DEF AgentsMerged, FilesAreApart
<1> QED BY <1>1, <1>2

LEMMA MergedNamedApart ==
    ASSUME ToolsAreNamedApart, StoredApart(tools), NEW b, NEW i
    PROVE  \A r, s \in ToolsMerged(b, i) : r.name.key = s.name.key => r = s
<1> DEFINE row == ToolRow(b, i)
<1>1. ASSUME ~\E r \in tools : r.name.key = row.name.key /\ r.name # row.name,
             NEW r \in Written(tools, row), NEW s \in Written(tools, row), r.name.key = s.name.key
      PROVE  r = s
  <2>1. ASSUME NEW x \in Written(tools, row), x.name.key = row.name.key
        PROVE  x = row
    <3> HIDE DEF row
    <3> QED BY <1>1, <2>1 DEF Written
  <2> HIDE DEF row
  <2> QED BY <1>1, <2>1 DEF Written, ToolsAreNamedApart
<1> HIDE DEF row
<1> QED BY <1>1 DEF ToolsMerged, ToolImported, ToolsAreNamedApart, row

LEMMA NextApart ==
    ASSUME ToolsAreNamedApart, FilesAreApart, [Next]_vars
    PROVE  ToolsAreNamedApart' /\ FilesAreApart'
<1> USE DEF FilesAreApart
<1>1. ASSUME UNCHANGED tools PROVE ToolsAreNamedApart'
  BY <1>1 DEF ToolsAreNamedApart
<1>2. ASSUME NEW part \in SUBSET tools, tools' = part
      PROVE  ToolsAreNamedApart'
  BY <1>2 DEF ToolsAreNamedApart
<1>3. CASE UNCHANGED <<tools, agents, presets>>
  BY <1>1, <1>3
<1>4. ASSUME NEW n \in ToolNames, CreateTool(n)
      PROVE  ToolsAreNamedApart' /\ FilesAreApart'
  <2> DEFINE row == [name |-> n, by |-> User]
  <2>1. tools' = Written(tools, row) /\ UNCHANGED <<agents, presets>>
    BY <1>4 DEF CreateTool
  <2>2. \A r \in tools : r.name.key # n.key
    BY <1>4 DEF CreateTool, Names
  <2>3. row.name = n
    OBVIOUS
  <2> HIDE DEF row
  <2>4. ToolsAreNamedApart'
    BY <2>1, <2>2, <2>3 DEF Written, ToolsAreNamedApart
  <2> QED BY <2>1, <2>4, WrittenApart
<1>5. ASSUME NEW r \in tools, NEW n \in ToolNames, UpdateTool(r, n)
      PROVE  ToolsAreNamedApart' /\ FilesAreApart'
  <2> DEFINE row == [name |-> n, by |-> User]
             rows == (tools \ {r}) \cup {row}
  <2>1. tools' \in Mirrored(rows) /\ UNCHANGED <<agents, presets>>
    BY <1>5 DEF UpdateTool
  <2>2. \A x \in tools \ {r} : x.name.key # n.key
    BY <1>5 DEF UpdateTool, Names, ToolsAreNamedApart
  <2>3. row.name = n
    OBVIOUS
  <2> HIDE DEF row
  <2>4. \A x, y \in rows : x.name.key = y.name.key => x = y
    BY <2>2, <2>3 DEF ToolsAreNamedApart
  <2> HIDE DEF rows
  <2>5. StoredApart(tools') /\ tools' \subseteq rows
    BY <2>1, MirroredApart
  <2>6. ToolsAreNamedApart'
    BY <2>4, <2>5 DEF ToolsAreNamedApart
  <2> QED BY <2>1, <2>5, <2>6
<1>6. ASSUME NEW r \in tools, DeleteTool(r)
      PROVE  ToolsAreNamedApart' /\ FilesAreApart'
  <2>1. tools' = tools \ {r} /\ UNCHANGED <<agents, presets>>
    BY <1>6 DEF DeleteTool
  <2> QED BY <1>2, <2>1, PartApart
<1>7. CASE \/ \E n \in AgentNames, skilled \in BOOLEAN : CreateAgent(n, skilled)
           \/ \E r \in agents :
                  \/ DeleteAgent(r)
                  \/ \E n \in AgentNames, skilled \in BOOLEAN : UpdateAgent(r, n, skilled)
  <2>1. UNCHANGED <<tools, presets>>
    BY <1>7 DEF CreateAgent, DeleteAgent, UpdateAgent
  <2>2. StoredApart(agents')
    <3>1. ASSUME NEW n \in AgentNames, NEW skilled \in BOOLEAN, CreateAgent(n, skilled)
          PROVE  StoredApart(agents')
      BY <3>1, WrittenApart DEF CreateAgent
    <3>2. ASSUME NEW r \in agents, DeleteAgent(r) PROVE StoredApart(agents')
      BY <3>2, PartApart DEF DeleteAgent
    <3>3. ASSUME NEW r \in agents, NEW n \in AgentNames, NEW skilled \in BOOLEAN,
                 UpdateAgent(r, n, skilled)
          PROVE  StoredApart(agents')
      BY <3>3, MirroredApart DEF UpdateAgent
    <3> QED BY <1>7, <3>1, <3>2, <3>3
  <2> QED BY <1>1, <2>1, <2>2
<1>8. CASE \/ CreateSkill \/ WriteSkillPart \/ DeleteSkill \/ OpenEditor
           \/ \E t \in Names(tools) \cup {None} : UpdateSkill(t)
  BY <1>3, <1>8 DEF CreateSkill, WriteSkillPart, DeleteSkill, OpenEditor, UpdateSkill
<1>9. ASSUME NEW list, SaveScenes(list)
      PROVE  ToolsAreNamedApart' /\ FilesAreApart'
  BY <1>1, <1>9, MirroredApart DEF SaveScenes
<1>10. CASE \/ \E n \in PresetNames, agent \in Names(agents) : ChangeScene(n, agent)
            \/ \E r \in tab : RemoveScene(r)
  BY <1>9, <1>10 DEF ChangeScene, RemoveScene
<1>11. ASSUME NEW i \in Imports, NEW b \in ToolBundles, ImportTool(i, b)
       PROVE  ToolsAreNamedApart' /\ FilesAreApart'
  <2> DEFINE row == ToolRow(b, i)
             others == {r \in tools : r.name.key # b.tool.key}
  <2>1. UNCHANGED <<agents, presets>>
        /\ IF others = tools THEN tools' = Written(tools, row)
           ELSE tools' \in Mirrored(others \cup {row})
    BY <1>11 DEF ImportTool
  <2>2. row.name = b.tool
    BY DEF ToolRow
  <2> HIDE DEF row
  <2>3. CASE others = tools
    <3>0. tools' = Written(tools, row)
      BY <2>1, <2>3
    <3>1. tools' \subseteq others \cup {row} /\ StoredApart(tools')
      <4>1. StoredApart(tools')
        BY <3>0, WrittenApart
      <4>2. tools' \subseteq tools \cup {row}
        BY <3>0 DEF Written
      <4> HIDE DEF others
      <4> QED BY <4>1, <4>2, <2>3
    <3>2. ToolsAreNamedApart'
      BY <2>2, <3>1 DEF ToolsAreNamedApart
    <3> QED BY <2>1, <3>1, <3>2
  <2>4. CASE others # tools
    <3>1. tools' \subseteq others \cup {row} /\ StoredApart(tools')
      BY <2>1, <2>4, MirroredApart
    <3>2. ToolsAreNamedApart'
      BY <2>2, <3>1 DEF ToolsAreNamedApart
    <3> QED BY <2>1, <3>1, <3>2
  <2> QED BY <2>3, <2>4
<1>12. ASSUME NEW i \in Imports, NEW b,
              tools' = ToolsMerged(b, i), UNCHANGED presets,
              agents' = agents \/ agents' = AgentsMerged(b, i)
       PROVE  ToolsAreNamedApart' /\ FilesAreApart'
  <2>1. ToolsAreNamedApart'
    BY <1>12, MergedNamedApart DEF ToolsAreNamedApart
  <2> QED BY <1>12, <2>1, MergedApart
<1>13. ASSUME NEW i \in Imports,
              \/ \E b \in SkillBundles : BeginSkillImport(i, b)
              \/ \E b \in ExpertBundles : BeginExpertImport(i, b)
              \/ \E b \in SceneBundles : BeginSceneImport(i, b)
       PROVE  ToolsAreNamedApart' /\ FilesAreApart'
  BY <1>12, <1>13 DEF BeginSkillImport, BeginExpertImport, BeginSceneImport, BeginImport
<1>14. ASSUME NEW i \in Imports, NEW b, ImportBreaksOff(i, b)
       PROVE  ToolsAreNamedApart' /\ FilesAreApart'
  BY <1>1, <1>14, MergedApart DEF ImportBreaksOff
<1>17. ASSUME NEW i \in Imports, ImportFailsLate(i)
       PROVE  ToolsAreNamedApart' /\ FilesAreApart'
  <2>1. \/ presets' = presets
        \/ presets' = PresetImported(PresetRow(imp[i].bundle, i))
    BY <1>17 DEF ImportFailsLate
  <2>2. StoredApart(presets')
    BY <1>1, <2>1, PartApart, WrittenApart DEF PresetImported
  <2>3. StoredApart(agents')
    BY <1>1, <1>17, MergedApart DEF ImportFailsLate
  <2> QED BY <1>1, <1>17, <2>2, <2>3 DEF ImportFailsLate
<1>15. ASSUME NEW i \in Imports, EndSkillImport(i) \/ EndExpertImport(i) \/ EndSceneImport(i)
       PROVE  ToolsAreNamedApart' /\ FilesAreApart'
  <2>1. CASE EndSkillImport(i)
    BY <1>3, <2>1 DEF EndSkillImport
  <2>2. CASE EndExpertImport(i)
    BY <1>1, <2>2, MergedApart DEF EndExpertImport
  <2>3. CASE EndSceneImport(i)
    <3>1. StoredApart(presets')
      <4>1. presets' = PresetImported(PresetRow(imp[i].bundle, i))
        BY <2>3 DEF EndSceneImport
      <4> QED BY <4>1, PartApart, WrittenApart DEF PresetImported
    <3> QED BY <1>1, <2>3, <3>1 DEF EndSceneImport
  <2> QED BY <1>15, <2>1, <2>2, <2>3
<1>16. CASE Restart \/ UNCHANGED vars
  BY <1>3, <1>16 DEF Restart, vars
<1> QED BY <1>4, <1>5, <1>6, <1>7, <1>8, <1>10, <1>11, <1>13, <1>14, <1>15, <1>16, <1>17
    DEF Next

\* No sequence of requests and imports leaves two tools that differ in case only, although a
\* tool can be imported with a Skill, by itself, or renamed; and no two rows of a kind are
\* read from one file.
THEOREM ToolsAreToldApart == Spec => [](ToolsAreNamedApart /\ FilesAreApart)
<1>1. Init => ToolsAreNamedApart /\ FilesAreApart
  BY DEF Init, ToolsAreNamedApart, FilesAreApart, StoredApart
<1>2. ToolsAreNamedApart /\ FilesAreApart /\ [Next]_vars => (ToolsAreNamedApart /\ FilesAreApart)'
  BY NextApart
<1> QED BY <1>1, <1>2, PTL DEF Spec

=============================================================================
