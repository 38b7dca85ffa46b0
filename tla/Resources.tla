------------------------------- MODULE Resources -------------------------------
(*****************************************************************************)
(* The resources of one account (tools, one Skill directory, experts and     *)
(* scenes), the settings requests that edit them, and the imports of bundles *)
(* of resources.                                                             *)
(*                                                                           *)
(* A request that loads the rows of a kind, changes them and saves them does *)
(* so without an await, in one step.  Saving writes one file per row and     *)
(* removes every directory that no row of the list wrote.  An import saves   *)
(* kind after kind and then awaits, for up to ten minutes, while other       *)
(* requests go on; a scene editor sends back the whole list it had loaded.   *)
(*                                                                           *)
(* Abstractions.  A name is its casefolded form and the directory it is      *)
(* stored in (two names may share either).  Of a row's content there are its *)
(* references and who wrote it.  A bundle has at most one row of a kind.     *)
(* Previews, exports, hosts of scenes and Python requirements are left out.  *)
(*****************************************************************************)

EXTENDS Naturals

CONSTANTS
    ToolNames, AgentNames, PresetNames,   \* names: records [key, dir]
    Imports,                              \* import requests
    User,                                 \* who wrote what no import wrote
    MaxEdits,                             \* bound: edits of the user
    None

ASSUME ConstantsAssumption ==
    /\ \A n \in ToolNames \cup AgentNames \cup PresetNames : n = [key |-> n.key, dir |-> n.dir]
    /\ MaxEdits \in Nat
    /\ User \notin Imports
    /\ None \notin [uses : ToolNames \cup {None}, by : Imports]

VARIABLES
    tools, agents, presets,   \* the rows on disk
    skill,                    \* the Skill directory: what its SKILL.md uses
    tab,                      \* the scenes an open editor has loaded
    imp,                      \* per import: phase, bundle, report
    touched,                  \* history: what others have written since it began
    edits

vars == <<tools, agents, presets, skill, tab, imp, touched, edits>>

Names(rows) == {r.name : r \in rows}
Clash(m, n) == m.key = n.key \/ m.dir = n.dir

Init ==
    /\ tools = {} /\ agents = {} /\ presets = {} /\ skill = None
    /\ tab = {}
    /\ imp = [i \in Imports |-> [phase |-> "idle"]]
    /\ touched = [i \in Imports |-> {}]
    /\ edits = 0

-----------------------------------------------------------------------------
(* Rows and files *)

\* The list with the row in the place of the row with its name, or at its end: then
\* the row goes over the file of another in the same directory.
Written(rows, row) == {r \in rows : r.name.dir # row.name.dir} \cup {row}

\* A list in which rows may share a directory: the last of them is left.  Their order
\* is that of the directory listing.
Mirrored(rows) ==
    {kept \in SUBSET rows :
        \A r \in rows : \E k \in kept : {x \in kept : x.name.dir = r.name.dir} = {k}}

\* upsert_rows_by_name goes by the exact name; save_mcp_config keeps the first of the
\* tools that differ in case only.
ToolImported(row) ==
    IF \E r \in tools : r.name.key = row.name.key /\ r.name # row.name
    THEN tools
    ELSE Written(tools, row)

\* Mutant: as for tools, the row that was there first is kept.
PresetImported_KeepsTheFirst(row) ==
    IF \E r \in presets : r.name.key = row.name.key THEN presets ELSE Written(presets, row)

\* The scenes that differ from the imported one in case only are taken out.
PresetImported(row) == Written({r \in presets : r.name.key # row.name.key}, row)

Changed(before, after) == Names((before \ after) \cup (after \ before))

\* What a step of this writer changes is noted for the imports of others.
Noted(writer) ==
    touched' = [i \in Imports |->
        IF i = writer \/ imp[i].phase \notin {"waiting", "done"} THEN touched[i]
        ELSE touched[i] \cup {<<"tool", n>> : n \in Changed(tools, tools')}
                        \cup {<<"agent", n>> : n \in Changed(agents, agents')}
                        \cup {<<"preset", n>> : n \in Changed(presets, presets')}
                        \cup {<<"skill", None>> : x \in {skill} \ {skill'}}]

-----------------------------------------------------------------------------
(* Requests of the settings pages *)

Edit ==
    /\ edits < MaxEdits
    /\ edits' = edits + 1
    /\ UNCHANGED imp
    /\ Noted(User)

CreateTool(n) ==
    /\ n.key \notin {m.key : m \in Names(tools)}
    /\ tools' = Written(tools, [name |-> n, by |-> User])
    /\ UNCHANGED <<agents, presets, skill, tab>>
    /\ Edit

\* A new name is refused when another tool has it; its directory is not looked at.
UpdateTool(r, n) ==
    /\ n.key = r.name.key \/ n.key \notin {m.key : m \in Names(tools \ {r})}
    /\ tools' \in Mirrored((tools \ {r}) \cup {[name |-> n, by |-> User]})
    /\ UNCHANGED <<agents, presets, skill, tab>>
    /\ Edit

DeleteTool(r) ==
    /\ tools' = tools \ {r}
    /\ UNCHANGED <<agents, presets, skill, tab>>
    /\ Edit

\* The form offers the Skills there are.
CreateAgent(n, skilled) ==
    /\ skilled => skill # None
    /\ n.key \notin {m.key : m \in Names(agents)}
    /\ agents' = Written(agents, [name |-> n, skilled |-> skilled, by |-> User])
    /\ UNCHANGED <<tools, presets, skill, tab>>
    /\ Edit

UpdateAgent(r, n, skilled) ==
    /\ skilled => skill # None
    /\ n.key = r.name.key \/ n.key \notin {m.key : m \in Names(agents \ {r})}
    /\ agents' \in Mirrored((agents \ {r}) \cup {[name |-> n, skilled |-> skilled, by |-> User]})
    /\ UNCHANGED <<tools, presets, skill, tab>>
    /\ Edit

DeleteAgent(r) ==
    /\ agents' = agents \ {r}
    /\ UNCHANGED <<tools, presets, skill, tab>>
    /\ Edit

\* A new Skill gets a directory that is free.
CreateSkill ==
    /\ skill = None
    /\ skill' = [uses |-> None, by |-> User]
    /\ UNCHANGED <<tools, agents, presets, tab>>
    /\ Edit

UpdateSkill(t) ==
    /\ skill # None
    /\ skill' = [uses |-> t, by |-> User]
    /\ UNCHANGED <<tools, agents, presets, tab>>
    /\ Edit

\* A file beside SKILL.md is written or removed.
WriteSkillPart ==
    /\ skill # None
    /\ skill' = [skill EXCEPT !.by = User]
    /\ UNCHANGED <<tools, agents, presets, tab>>
    /\ Edit

DeleteSkill ==
    /\ skill # None
    /\ skill' = None
    /\ UNCHANGED <<tools, agents, presets, tab>>
    /\ Edit

OpenEditor ==
    /\ tab # presets
    /\ tab' = presets
    /\ UNCHANGED <<tools, agents, presets, skill, imp, touched, edits>>

\* The list of the editor takes the place of all scenes on disk.
SaveScenes(list) ==
    /\ tab' = list
    /\ presets' \in Mirrored(list)
    /\ UNCHANGED <<tools, agents, skill>>
    /\ Edit

ChangeScene(n, agent) ==
    SaveScenes({r \in tab : r.name # n} \cup {[name |-> n, agent |-> agent, by |-> User]})

RemoveScene(r) == SaveScenes(tab \ {r})

-----------------------------------------------------------------------------
(* Imports *)

\* The fields of a bundle: whether it has the Skill, the tool that Skill uses, the row it
\* has for that tool, the expert, whether it uses the Skill, the scene, and the expert that
\* the scene names.
Nothing == [kind |-> "tool", skill |-> FALSE, uses |-> None, tool |-> None,
            agent |-> None, skilled |-> FALSE, preset |-> None, wants |-> None]

\* The tool of a Skill goes along with it.  The export looks it up without regard to case,
\* and leaves it out when there is none.
Carried(t) == {None} \cup {n \in ToolNames : t # None /\ n.key = t.key}

ToolBundles == {[Nothing EXCEPT !.tool = n] : n \in ToolNames}

SkillBundles ==
    UNION {{[Nothing EXCEPT !.kind = "skill", !.skill = TRUE, !.uses = t, !.tool = n] :
               n \in Carried(t)} : t \in ToolNames \cup {None}}

SkilledExpert(b, n) == [b EXCEPT !.kind = "expert", !.agent = n, !.skilled = TRUE]
PlainExpert(n) == [Nothing EXCEPT !.kind = "expert", !.agent = n]
ForScene(b, n, w) == [b EXCEPT !.kind = "scene", !.preset = n, !.wants = w]

\* An expert may use a Skill that was missing at the export.
ExpertBundles ==
    {SkilledExpert(b, n) : b \in SkillBundles \cup {Nothing}, n \in AgentNames}
      \cup {PlainExpert(n) : n \in AgentNames}

\* A scene may name an expert that was missing at the export.
SceneBundles ==
    {ForScene(b, n, b.agent) : b \in ExpertBundles, n \in PresetNames}
      \cup {ForScene(Nothing, n, w) : n \in PresetNames, w \in AgentNames}

Skill(b, i) == [uses |-> b.uses, by |-> i]
ToolRow(b, i) == [name |-> b.tool, by |-> i]
AgentRow(b, i) == [name |-> b.agent, skilled |-> b.skilled, by |-> i]
PresetRow(b, i) == [name |-> b.preset, agent |-> b.wants, by |-> i]

\* What the directories and rows of a bundle are written over.
SkillCopied(b, i) == IF b.skill THEN Skill(b, i) ELSE skill
ToolsMerged(b, i) == IF b.tool # None THEN ToolImported(ToolRow(b, i)) ELSE tools
AgentsMerged(b, i) == IF b.agent # None THEN Written(agents, AgentRow(b, i)) ELSE agents

\* The names in a report: a name is there when it is on disk or in the bundle, to the
\* letter.  `used` is the Skill that the bundle has, or else the one of the account.
MissingTool(b, used) ==
    {<<"tool", n>> : n \in (IF used = None THEN {} ELSE {used.uses})
                             \ (Names(tools) \cup {b.tool, None})}

MissingForSkill(b, used) == MissingTool(b, used)

MissingForExpert(b, used) ==
    IF ~b.skilled THEN {}
    ELSE IF used = None THEN {<<"skill", None>>}
    ELSE MissingTool(b, used)

\* Mutant: an expert of the account is taken for one of the bundle, and not looked up.
MissingForScene_TrustsTheScene(b, used) == MissingForExpert(b, used)

MissingForScene(b, used) ==
    {<<"agent", n>> : n \in {b.wants} \ (Names(agents) \cup {b.agent})}
      \cup MissingForExpert(b, used)

Moves(i, phase, b, report) ==
    imp' = [imp EXCEPT ![i] = [phase |-> phase, bundle |-> b, report |-> report]]

\* import_mcp_server_zip goes by the casefolded name: the row comes in the place of the
\* one it replaces, or last.
ImportTool(i, b) ==
    /\ imp[i].phase = "idle"
    /\ LET others == {r \in tools : r.name.key # b.tool.key}
       IN IF others = tools
          THEN tools' = Written(tools, ToolRow(b, i))
          ELSE tools' \in Mirrored(others \cup {ToolRow(b, i)})
    /\ Moves(i, "done", b, {})
    /\ UNCHANGED <<agents, presets, skill, tab, edits>>
    /\ Noted(i)

\* An import up to its first await: the MCP runtime is disposed and the sandbox warmed up
\* with the requirements of the Skill.
BeginImport(i, b, report) ==
    /\ imp[i].phase = "idle"
    /\ skill' = SkillCopied(b, i)
    /\ tools' = ToolsMerged(b, i)
    /\ Moves(i, "waiting", b, report)
    /\ UNCHANGED <<presets, tab, edits>>
    /\ Noted(i)

BeginSkillImport(i, b) == UNCHANGED agents /\ BeginImport(i, b, {})

BeginExpertImport(i, b) ==
    UNCHANGED agents /\ BeginImport(i, b, MissingForExpert(b, SkillCopied(b, i)))

\* The experts of a scene are saved at once.
BeginSceneImport(i, b) ==
    /\ agents' = AgentsMerged(b, i)
    /\ BeginImport(i, b, MissingForScene(b, SkillCopied(b, i)))

Fails(i) == imp' = [imp EXCEPT ![i] = [phase |-> "failed"]]

\* A read or a write raises before the tools are saved: what was written stays.
ImportBreaksOff(i, b) ==
    /\ imp[i].phase = "idle"
    /\ \/ b.skill /\ skill' \in {None, Skill(b, i)} /\ UNCHANGED agents
       \/ b.kind = "scene" /\ skill' = SkillCopied(b, i) /\ agents' = AgentsMerged(b, i)
    /\ Fails(i)
    /\ UNCHANGED <<tools, presets, tab, edits>>
    /\ Noted(i)

Waiting(i, kind) == imp[i].phase = "waiting" /\ imp[i].bundle.kind = kind

\* The same after the await: the last kind is not saved, or what is read for the answer
\* raises when it is.
ImportFailsLate(i) ==
    /\ \/ imp[i].phase = "waiting" /\ UNCHANGED <<agents, presets>>
       \/ /\ Waiting(i, "expert")
          /\ agents' = AgentsMerged(imp[i].bundle, i)
          /\ UNCHANGED presets
       \/ /\ Waiting(i, "scene")
          /\ presets' = PresetImported(PresetRow(imp[i].bundle, i))
          /\ UNCHANGED agents
    /\ Fails(i)
    /\ UNCHANGED <<tools, skill, tab, edits>>
    /\ Noted(i)

\* The rest of an import, among the rows of now.  The report on a Skill is made here.
EndSkillImport(i) ==
    /\ Waiting(i, "skill")
    /\ Moves(i, "done", imp[i].bundle, MissingForSkill(imp[i].bundle, skill))
    /\ UNCHANGED <<tools, agents, presets, skill, tab, touched, edits>>

EndExpertImport(i) ==
    /\ Waiting(i, "expert")
    /\ agents' = AgentsMerged(imp[i].bundle, i)
    /\ Moves(i, "done", imp[i].bundle, imp[i].report)
    /\ UNCHANGED <<tools, presets, skill, tab, edits>>
    /\ Noted(i)

EndSceneImport(i) ==
    /\ Waiting(i, "scene")
    /\ presets' = PresetImported(PresetRow(imp[i].bundle, i))
    /\ Moves(i, "done", imp[i].bundle, imp[i].report)
    /\ UNCHANGED <<tools, agents, skill, tab, edits>>
    /\ Noted(i)

\* The process ends: an import under way does not go on.
Restart ==
    /\ \E i \in Imports : imp[i].phase = "waiting"
    /\ imp' = [i \in Imports |->
                 IF imp[i].phase = "waiting" THEN [phase |-> "failed"] ELSE imp[i]]
    /\ UNCHANGED <<tools, agents, presets, skill, tab, touched, edits>>

-----------------------------------------------------------------------------

Next ==
    \/ \E n \in ToolNames : CreateTool(n)
    \/ \E r \in tools : DeleteTool(r) \/ \E n \in ToolNames : UpdateTool(r, n)
    \/ \E n \in AgentNames, skilled \in BOOLEAN : CreateAgent(n, skilled)
    \/ \E r \in agents : \/ DeleteAgent(r)
                         \/ \E n \in AgentNames, skilled \in BOOLEAN : UpdateAgent(r, n, skilled)
    \/ CreateSkill \/ WriteSkillPart \/ DeleteSkill
    \/ \E t \in Names(tools) \cup {None} : UpdateSkill(t)
    \/ OpenEditor
    \/ \E n \in PresetNames, agent \in Names(agents) : ChangeScene(n, agent)
    \/ \E r \in tab : RemoveScene(r)
    \/ \E i \in Imports :
          \/ \E b \in ToolBundles : ImportTool(i, b)
          \/ \E b \in SkillBundles : BeginSkillImport(i, b)
          \/ \E b \in ExpertBundles : BeginExpertImport(i, b)
          \/ \E b \in SceneBundles : BeginSceneImport(i, b)
          \/ \E b \in SkillBundles \cup ExpertBundles \cup SceneBundles : ImportBreaksOff(i, b)
          \/ EndSkillImport(i)
          \/ EndExpertImport(i)
          \/ EndSceneImport(i)
          \/ ImportFailsLate(i)
    \/ Restart

Spec == Init /\ [][Next]_vars

-----------------------------------------------------------------------------
(* Properties *)

\* Somebody else has written this name, one that differs in case, or one with its
\* directory since the import began.
Overtaken(i, kind, n) ==
    \E t \in touched[i] : t[1] = kind /\ (t[2] = n \/ (kind # "skill" /\ Clash(t[2], n)))

\* A tool that came with a Skill gives way to one of the account that differs in case; one
\* imported by itself takes the place of that tool, but not always of a third tool in the
\* directory that it moves to.
GivenWay(i) ==
    LET b == imp[i].bundle IN
    \E r \in tools \ {ToolRow(b, i)} :
        IF b.kind = "tool" THEN r.name.dir = b.tool.dir ELSE r.name.key = b.tool.key

\* An import that has answered is in force: every row of its bundle is on disk with the
\* bundle's content, until another request writes that name or one that shares its
\* directory.  The exception is a tool that gave way to one of the account, which the
\* contract of the bundles does not allow: ImportedToolIsInForce is without it.
CompletedImportIsInForce ==
    \A i \in Imports : imp[i].phase = "done" =>
        LET b == imp[i].bundle IN
        /\ b.tool # None =>
             ToolRow(b, i) \in tools \/ Overtaken(i, "tool", b.tool) \/ GivenWay(i)
        /\ b.skill => skill = Skill(b, i) \/ Overtaken(i, "skill", None)
        /\ b.agent # None => AgentRow(b, i) \in agents \/ Overtaken(i, "agent", b.agent)
        /\ b.preset # None => PresetRow(b, i) \in presets \/ Overtaken(i, "preset", b.preset)

\* What the import plan ("Same name overwrites local content") and the contract of the
\* bundles ask: a tool of an import that has answered is on disk with the bundle's content
\* until another request writes its name or directory, whatever the account had before.
\* The code drops the tool for one of the account that differs in case.
ImportedToolIsInForce ==
    \A i \in Imports : imp[i].phase = "done" =>
        LET b == imp[i].bundle IN
        b.tool # None => ToolRow(b, i) \in tools \/ Overtaken(i, "tool", b.tool)

\* A reference in what an import wrote leads to a resource on disk, unless the answer
\* reported it missing, or another request has written the target since the import began;
\* or the target is a tool that the account spells otherwise.
UnresolvedIsReported ==
    \A i \in Imports : imp[i].phase = "done" =>
        LET b == imp[i].bundle
            Known(kind, n) == <<kind, n>> \in imp[i].report \/ Overtaken(i, kind, n)
        IN
        /\ b.uses # None /\ skill = Skill(b, i) =>
             b.uses \in Names(tools) \/ Known("tool", b.uses) \/ (b.tool # None /\ GivenWay(i))
        /\ b.skilled /\ AgentRow(b, i) \in agents => skill # None \/ Known("skill", None)
        /\ b.wants # None /\ PresetRow(b, i) \in presets =>
             b.wants \in Names(agents) \/ Known("agent", b.wants)

===============================================================================
