------------------------------ MODULE Registry ------------------------------
(***************************************************************************)
(* The project registry: simphony.yaml, its copy in memory, and the edits  *)
(* that the operator API makes to both (internal/config/registry.go,       *)
(* internal/server/projects.go), and the project runtimes, which follow    *)
(* their workflow files (internal/project/runtime.go, config/workflow.go), *)
(* with the start of the process, its end at any moment, and the people    *)
(* who edit the same files.                                                *)
(*                                                                         *)
(* A workflow file is reduced to its content's name; what the content      *)
(* resolves to are constants.  Names, start_paused, the server block and   *)
(* the other agent_runtime fields travel with the fields that are kept.    *)
(***************************************************************************)
EXTENDS Naturals, Sequences

CONSTANTS
    Ids,            \* project ids
    Key,            \* strings.ToLower of an id
    Workflows,      \* paths of workflow files
    Contents,       \* contents of a workflow file that resolve to a configuration
    OwnLimit,       \* agent.max_concurrent_agents that a content sets, 0 for none
    Overlapping,    \* pairs of contents whose workspace roots overlap
    Missing,        \* no such file
    Invalid,        \* a file that loads but does not resolve
    Limits,         \* limits that are asked for, 0 for none
    Endpoints, Secrets, None,   \* agent_runtime.endpoint_url and api_key
    FirstFile, HandFiles,       \* simphony.yaml at first, and as people write it
    FirstWorkflow,  \* the workflow files at first
    Requests,       \* settings requests
    Absent,         \* a key that is not written in the file or in the request
    Torn,           \* a file that was truncated and not written to its end
    NoSave, Stopped,
    MaxEdits,       \* bound: edits by the API
    MaxHands,       \* bound: edits by people
    MaxSaves        \* bound: settings saved for a project

\* What is in memory.
Projects == [id : Ids, workflow : Workflows, enabled : BOOLEAN, limit : Limits]
Registries == [projects : Seq(Projects), default : Limits, overlap : BOOLEAN,
               endpoint : Endpoints \cup {None}, key : Secrets \cup {None}]

\* What is written in simphony.yaml, and in a request.
Nodes == [id : Ids, workflow : Workflows, enabled : BOOLEAN \cup {Absent},
          limit : Limits \cup {Absent}]
Settings == [default : Limits \cup {Absent}, overlap : BOOLEAN \cup {Absent},
             endpoint : Endpoints \cup {None, Absent}, key : Secrets \cup {None, Absent}]
Documents == [projects : Seq(Nodes), settings : Settings]

\* A running project, and a project whose settings are being saved.
Runtimes == [project : Projects, config : [content : Contents, limit : Nat]]
Saves == [before : Contents \cup {Invalid}, content : Contents]

ASSUME RegistryAssumption ==
    /\ Key \in [Ids -> Ids]
    /\ OwnLimit \in [Contents -> Nat]
    /\ Overlapping \subseteq Contents \X Contents
    /\ Missing \notin Contents /\ Invalid \notin Contents
    /\ Limits \subseteq Nat /\ 0 \in Limits
    /\ MaxEdits \in Nat /\ MaxHands \in Nat /\ MaxSaves \in Nat
ASSUME FilesAssumption ==
    /\ FirstFile \in Documents
    /\ HandFiles \subseteq Documents \cup {Torn}
    /\ FirstWorkflow \in [Workflows -> Contents \cup {Missing, Invalid}]
    /\ Requests \subseteq Settings
ASSUME NamesAssumption ==
    /\ Absent \notin Limits /\ Absent \notin BOOLEAN
    /\ Absent \notin Endpoints \cup Secrets \cup {None}
    /\ None \notin Endpoints \cup Secrets
    /\ Missing # Invalid
    /\ Torn \notin Documents
    /\ NoSave \notin Saves
    /\ Stopped \notin Runtimes

VARIABLES
    up,        \* the process runs
    mem,       \* manager.Registry()
    file,      \* simphony.yaml
    workflow,  \* the workflow files
    edit,      \* the edit that holds registryMu
    inForce,   \* a running project's entry as it started, and its configuration
    watched,   \* running projects whose watcher has started
    notices,   \* running projects whose watcher has an event to handle
    save,      \* the settings that a project's API applied and has not saved yet
    lagging,   \* history: running projects that missed an event or failed to apply
               \* a file, and have not applied one since
    alone,     \* history: people have written no file since the process's last start
    edits, hands, saves

vars == <<up, mem, file, workflow, edit, inForce, watched, notices, save, lagging,
          alone, edits, hands, saves>>
following == <<inForce, watched, notices, save, lagging>>
-----------------------------------------------------------------------------
(* A YAML mapping is a record, in which a key that is not written is       *)
(* Absent.                                                                 *)

\* The value of a key that has a default.
Default(value, default) == IF value = Absent THEN default ELSE value

\* What is written for a value: nothing for an empty one.
Written(value, empty) == IF value = empty THEN Absent ELSE value

IndexOf(items, id) == {n \in DOMAIN items : Key[items[n].id] = Key[id]}
FirstOf(set) == CHOOSE n \in set : \A k \in set : n <= k
Without(items, n) ==
    [k \in 1 .. (Len(items) - 1) |-> IF k < n THEN items[k] ELSE items[k + 1]]

\* resolveRegistryProjects and its siblings: what a file's keys mean.
LoadProject(node) ==
    [id       |-> node.id,
     workflow |-> node.workflow,
     enabled  |-> Default(node.enabled, TRUE),
     limit    |-> Default(node.limit, 0)]

Load(doc) ==
    [projects |-> [n \in DOMAIN doc.projects |-> LoadProject(doc.projects[n])],
     default  |-> Default(doc.settings.default, 0),
     overlap  |-> Default(doc.settings.overlap, FALSE),
     endpoint |-> Default(doc.settings.endpoint, None),
     key      |-> Default(doc.settings.key, None)]

\* Of a file or of the registry: a project is left, and no id is there twice.
HasProjects(reg) == reg.projects # <<>>
UniqueIds(reg) ==
    \A n, k \in DOMAIN reg.projects : Key[reg.projects[n].id] = Key[reg.projects[k].id] => n = k

\* LoadProjectRegistry accepts the file: every workflow file has to be there, those
\* of disabled projects too.
Loads(doc) ==
    /\ doc # Torn
    /\ HasProjects(doc) /\ UniqueIds(doc)
    /\ \A n \in DOMAIN doc.projects : workflow[doc.projects[n].workflow] # Missing

Enabled(reg) == {n \in DOMAIN reg.projects : reg.projects[n].enabled}

\* Every enabled project resolves, and no two of them share a workspace root.
Resolves(reg) == \A n \in Enabled(reg) : workflow[reg.projects[n].workflow] \in Contents

KeptApart(reg) ==
    \/ reg.overlap
    \/ \A n, k \in Enabled(reg) :
         n < k => <<workflow[reg.projects[n].workflow],
                    workflow[reg.projects[k].workflow]>> \notin Overlapping

ValidateProjectIsolation(reg) == Resolves(reg) /\ KeptApart(reg)

\* applyRegistryDefaults: the entry's own limit, else the workflow's, else the
\* registry's default.
Resolve(reg, p, content) ==
    [content |-> content,
     limit   |-> IF p.limit > 0 THEN p.limit
                 ELSE IF OwnLimit[content] > 0 THEN OwnLimit[content]
                 ELSE reg.default]

\* No edit holds registryMu.
Idle == [step |-> "idle"]

Init ==
    /\ up = FALSE
    /\ mem = Load(FirstFile)
    /\ file = FirstFile
    /\ workflow = FirstWorkflow
    /\ edit = Idle
    /\ inForce = [i \in Ids |-> Stopped]
    /\ watched = {} /\ notices = {} /\ lagging = {}
    /\ save = [i \in Ids |-> NoSave]
    /\ alone = FALSE
    /\ edits = 0 /\ hands = 0 /\ saves = 0
-----------------------------------------------------------------------------
(* The process.                                                            *)

\* runProjectRegistry.  Every enabled project is started, and one that fails does
\* not keep the others from running; with none the process ends.
Start ==
    /\ ~up
    /\ Loads(file)
    /\ ValidateProjectIsolation(Load(file))
    /\ mem' = Load(file)
    /\ \E started \in SUBSET Enabled(Load(file)) \ {{}} :
         inForce' = [i \in Ids |->
             LET ns == {n \in started : Load(file).projects[n].id = i} IN
             IF ns = {} THEN Stopped
             ELSE LET p == Load(file).projects[FirstOf(ns)] IN
                  [project |-> p, config |-> Resolve(Load(file), p, workflow[p.workflow])]]
    /\ up' = TRUE
    /\ alone' = TRUE
    /\ UNCHANGED <<file, workflow, edit, watched, notices, save, lagging, edits, hands, saves>>

\* The process ends, at any moment: a write that is under way is cut short.
Crash ==
    /\ up
    /\ up' = FALSE
    /\ edit' = Idle
    /\ inForce' = [i \in Ids |-> Stopped]
    /\ watched' = {} /\ notices' = {} /\ lagging' = {}
    /\ save' = [i \in Ids |-> NoSave]
    /\ UNCHANGED <<mem, file, workflow, alone, edits, hands, saves>>

Running(i) == inForce[i] # Stopped
FileOf(i) == inForce[i].project.workflow
ReadBy(w) == {i \in Ids : Running(i) /\ FileOf(i) = w}

\* A workflow file was written: the runtimes that watch it get an event, the others
\* miss it.
Notify(w) ==
    /\ notices' = notices \cup (ReadBy(w) \cap watched)
    /\ lagging' = lagging \cup (ReadBy(w) \ watched)

\* Runtime.Start watches the file after it has read it and started the orchestrator.
Watch(i) ==
    /\ Running(i) /\ i \notin watched
    /\ watched' = watched \cup {i}
    /\ UNCHANGED <<up, mem, file, workflow, edit, inForce, notices, save, lagging,
                   alone, edits, hands, saves>>

\* applyResolvedWorkflowLocked.
Apply(i, content) ==
    inForce' = [inForce EXCEPT ![i].config = Resolve(mem, inForce[i].project, content)]

\* Mutant of Reload: a workflow that does not resolve is taken over too.
ReloadAnything(i) ==
    /\ i \in notices /\ save[i] = NoSave
    /\ notices' = notices \ {i}
    /\ inForce' = [inForce EXCEPT ![i].config.content = workflow[FileOf(i)]]
    /\ lagging' = lagging \ {i}
    /\ UNCHANGED <<up, mem, file, workflow, edit, watched, save, alone, edits, hands, saves>>

\* Runtime.Reload after an event, under r.mu: the entry as it was at the start, the
\* defaults as they are now.  A file that does not resolve, or whose tracker client
\* or workspace manager cannot be made, changes nothing.  Nothing compares the new
\* workspace root with the other projects'.
Reload(i) ==
    /\ i \in notices /\ save[i] = NoSave
    /\ notices' = notices \ {i}
    /\ \/ /\ workflow[FileOf(i)] \in Contents
          /\ Apply(i, workflow[FileOf(i)])
          /\ lagging' = lagging \ {i}
       \/ /\ lagging' = lagging \cup {i}
          /\ UNCHANGED inForce
    /\ UNCHANGED <<up, mem, file, workflow, edit, watched, save, alone, edits, hands, saves>>

\* Runtime.UpdateWorkflowSettings, up to the save, under r.mu: the file has to load,
\* the new settings have to resolve, and they are applied first.
ApplySettings(i, content) ==
    /\ Running(i) /\ save[i] = NoSave
    /\ saves < MaxSaves
    /\ saves' = saves + 1
    /\ workflow[FileOf(i)] # Missing
    /\ Apply(i, content)
    /\ save' = [save EXCEPT ![i] = [before |-> workflow[FileOf(i)], content |-> content]]
    /\ UNCHANGED <<up, mem, file, workflow, edit, watched, notices, lagging, alone,
                   edits, hands>>

\* SaveWorkflow renames a complete file over the old one.  What people wrote since
\* the settings were applied is lost.
SettingsSaved(i) ==
    /\ save[i] # NoSave
    /\ workflow' = [workflow EXCEPT ![FileOf(i)] = save[i].content]
    /\ notices' = notices \cup (ReadBy(FileOf(i)) \cap watched)
    /\ lagging' = (lagging \cup (ReadBy(FileOf(i)) \ watched)) \ {i}
    /\ save' = [save EXCEPT ![i] = NoSave]
    /\ UNCHANGED <<up, mem, file, edit, inForce, watched, alone, edits, hands, saves>>

\* Mutant of SettingsNotSaved: the settings that were not saved stay in force.
SettingsNotSavedKept(i) ==
    /\ save[i] # NoSave
    /\ save' = [save EXCEPT ![i] = NoSave]
    /\ UNCHANGED <<up, mem, file, workflow, edit, inForce, watched, notices, lagging,
                   alone, edits, hands, saves>>

\* The save fails: the file's settings are put back in force, if they resolve.  That
\* can fail too.
SettingsNotSaved(i) ==
    /\ save[i] # NoSave
    /\ save' = [save EXCEPT ![i] = NoSave]
    /\ \/ save[i].before \in Contents /\ Apply(i, save[i].before) /\ UNCHANGED lagging
       \/ lagging' = lagging \cup {i} /\ UNCHANGED inForce
    /\ UNCHANGED <<up, mem, file, workflow, edit, watched, notices, alone, edits, hands, saves>>
-----------------------------------------------------------------------------
(* Edits by the API, one at a time: check, read the file, truncate, write. *)

\* Mutant of Accept: the new registry is not validated.
AcceptUnchecked(op, id, next, request) ==
    /\ up /\ edit = Idle
    /\ edits < MaxEdits
    /\ edit' = [step |-> "checked", op |-> op, id |-> id, next |-> next, request |-> request]
    /\ edits' = edits + 1
    /\ UNCHANGED <<up, mem, file, workflow, following, alone, hands, saves>>

\* Every edit is checked against the registry in memory and the workflow files as
\* they are at that moment; a request that fails a check changes nothing.
Accept(op, id, next, request) ==
    /\ up /\ edit = Idle
    /\ edits < MaxEdits
    /\ ValidateProjectIsolation(next)
    /\ edit' = [step |-> "checked", op |-> op, id |-> id, next |-> next, request |-> request]
    /\ edits' = edits + 1
    /\ UNCHANGED <<up, mem, file, workflow, following, alone, hands, saves>>

\* Mutant of CreateProject: ids are compared letter by letter.
CreateProjectExactId(p) ==
    /\ \A n \in DOMAIN mem.projects : mem.projects[n].id # p.id
    /\ workflow[p.workflow] # Missing
    /\ Accept("create", p.id, [mem EXCEPT !.projects = Append(@, p)], p)

CreateProject(p) ==
    /\ IndexOf(mem.projects, p.id) = {}
    /\ workflow[p.workflow] # Missing
    /\ Accept("create", p.id, [mem EXCEPT !.projects = Append(@, p)], p)

\* An update keeps the id as it is spelled in the registry.
UpdateProject(p) ==
    /\ IndexOf(mem.projects, p.id) # {}
    /\ workflow[p.workflow] # Missing
    /\ LET n == FirstOf(IndexOf(mem.projects, p.id))
           q == [p EXCEPT !.id = mem.projects[n].id]
       IN Accept("update", p.id, [mem EXCEPT !.projects[n] = q], q)

DeleteProject(id) ==
    /\ Len(mem.projects) > 1
    /\ IndexOf(mem.projects, id) # {}
    /\ LET n == FirstOf(IndexOf(mem.projects, id))
       IN Accept("delete", id, [mem EXCEPT !.projects = Without(@, n)], None)

\* registryRuntimeContextChanged.
ContextChanged(req) == Default(req.endpoint, mem.endpoint) # mem.endpoint

\* applyRegistrySettingsUpdate.
Applied(req) ==
    [projects |-> mem.projects,
     default  |-> Default(req.default, mem.default),
     overlap  |-> Default(req.overlap, mem.overlap),
     endpoint |-> Default(req.endpoint, mem.endpoint),
     key      |-> Default(req.key, mem.key)]

\* A key stays with its endpoint: when the endpoint changes, the request has to say
\* which key it wants, or that it wants none.
UpdateSettings(req) ==
    /\ ContextChanged(req) => mem.key = None \/ req.key # Absent
    /\ Accept("settings", None, Applied(req), req)

\* registryProjectNode: only what differs from the defaults is written.
ProjectNode(p) ==
    [id       |-> p.id,
     workflow |-> p.workflow,
     enabled  |-> Written(p.enabled, TRUE),
     limit    |-> Written(p.limit, 0)]

\* Mutant of UpdatedNode: what is at its default is left as it is.
UpdatedNodeAddsOnly(node, p) ==
    [id       |-> node.id,
     workflow |-> p.workflow,
     enabled  |-> IF p.enabled THEN node.enabled ELSE FALSE,
     limit    |-> IF p.limit = 0 THEN node.limit ELSE p.limit]

\* The project's entry keeps its id as it is spelled.
UpdatedNode(node, p) == [ProjectNode(p) EXCEPT !.id = node.id]

\* updateRegistrySettingsInFile: the switches always, from memory.  And
\* updateRegistryAgentRuntimeNode: the key only if the request has one.
SettingsNode(settings, next, req) ==
    [default  |-> Written(next.default, 0),
     overlap  |-> next.overlap,
     endpoint |-> IF req.endpoint = Absent /\ req.key = Absent THEN settings.endpoint
                  ELSE Written(next.endpoint, None),
     key      |-> IF req.key = Absent THEN settings.key ELSE Written(next.key, None)]

\* The edit is applied to the file as it is now, not to the registry in memory.
\* Where it does not fit, the request fails and nothing is written.
Fits(doc) ==
    /\ doc # Torn
    /\ edit.op \in {"update", "delete"} => IndexOf(doc.projects, edit.id) # {}
    /\ edit.op = "delete" => Len(doc.projects) > 1

InFile(doc) == FirstOf(IndexOf(doc.projects, edit.id))

AppendInFile(doc) == [doc EXCEPT !.projects = Append(@, ProjectNode(edit.request))]
UpdateInFile(doc) == [doc EXCEPT !.projects[InFile(doc)] = UpdatedNode(@, edit.request)]
DeleteFromFile(doc) == [doc EXCEPT !.projects = Without(@, InFile(doc))]

Edited(doc) ==
    CASE edit.op = "create" -> AppendInFile(doc)
      [] edit.op = "update" -> UpdateInFile(doc)
      [] edit.op = "delete" -> DeleteFromFile(doc)
      [] edit.op = "settings" ->
           [doc EXCEPT !.settings = SettingsNode(@, edit.next, edit.request)]

ReadFile ==
    /\ edit.step = "checked"
    /\ edit' = IF Fits(file) THEN [step |-> "read", doc |-> Edited(file), next |-> edit.next]
               ELSE Idle
    /\ UNCHANGED <<up, mem, file, workflow, following, alone, edits, hands, saves>>

\* os.OpenFile with O_TRUNC.
Truncate ==
    /\ edit.step = "read"
    /\ edit' = [edit EXCEPT !.step = "open"]
    /\ file' = Torn
    /\ UNCHANGED <<up, mem, workflow, following, alone, edits, hands, saves>>

\* The document is written, and the memory follows.
Write ==
    /\ edit.step = "open"
    /\ file' = edit.doc
    /\ mem' = edit.next
    /\ edit' = Idle
    /\ UNCHANGED <<up, workflow, following, alone, edits, hands, saves>>

\* The file cannot be opened, or not be written to its end.  Nothing puts back what
\* it held.
WriteFails ==
    /\ edit.step \in {"read", "open"}
    /\ edit' = Idle
    /\ UNCHANGED <<up, mem, file, workflow, following, alone, edits, hands, saves>>
-----------------------------------------------------------------------------
(* People, external.                                                       *)

HandEdit ==
    /\ hands < MaxHands
    /\ hands' = hands + 1
    /\ file' \in HandFiles
    /\ alone' = FALSE
    /\ UNCHANGED <<up, mem, workflow, edit, following, edits, saves>>

HandWorkflow ==
    /\ hands < MaxHands
    /\ hands' = hands + 1
    /\ \E w \in Workflows :
         /\ workflow' \in {[workflow EXCEPT ![w] = c] : c \in Contents \cup {Missing, Invalid}}
         /\ Notify(w)
    /\ alone' = FALSE
    /\ UNCHANGED <<up, mem, file, edit, inForce, watched, save, edits, saves>>

Process ==
    \/ Start \/ Crash
    \/ \E i \in Ids :
         \/ Watch(i) \/ Reload(i) \/ SettingsSaved(i) \/ SettingsNotSaved(i)
         \/ \E c \in Contents : ApplySettings(i, c)

Api ==
    \/ \E p \in Projects : CreateProject(p) \/ UpdateProject(p)
    \/ \E id \in Ids : DeleteProject(id)
    \/ \E req \in Requests : UpdateSettings(req)
    \/ ReadFile \/ Truncate \/ Write \/ WriteFails

Next == Process \/ Api \/ HandEdit \/ HandWorkflow

Spec == Init /\ [][Next]_vars
-----------------------------------------------------------------------------
TypeOK ==
    /\ up \in BOOLEAN /\ alone \in BOOLEAN
    /\ mem \in Registries
    /\ file \in Documents \cup {Torn}
    /\ workflow \in [Workflows -> Contents \cup {Missing, Invalid}]
    /\ edit.step \in {"idle", "checked", "read", "open"}
    /\ inForce \in [Ids -> Runtimes \cup {Stopped}]
    /\ save \in [Ids -> Saves \cup {NoSave}]
    /\ \A i \in Ids : Running(i) => up
    /\ notices \subseteq watched /\ watched \cup lagging \subseteq {i \in Ids : Running(i)}
    /\ \A i \in Ids : save[i] # NoSave => Running(i)
    /\ edits \in 0..MaxEdits /\ hands \in 0..MaxHands /\ saves \in 0..MaxSaves

\* Between edits the file says what the memory says, field by field, whatever the
\* edits were, wherever they failed and wherever the process ended, as long as people
\* write no file.  The one exception is a file whose writing was cut short.
FileIsMemory == alone /\ edit = Idle /\ file # Torn => Load(file) = mem

\* As long as people write no file, the process could start again with the registry
\* that the API left: the workflow files are there, ids are unique, the enabled
\* projects resolve and keep their workspaces apart.  Three exceptions: a writing of
\* simphony.yaml that was cut short, by its failure or by the end of the process,
\* leaves a file that does not load; the API disables or deletes the last enabled
\* project if it is asked to; and the settings of a project are saved in its
\* workflow file without a look at the others' workspace roots.
StartsAgain ==
    alone /\ edit = Idle /\ file # Torn =>
        /\ Loads(file)
        /\ Resolves(Load(file))
        /\ KeptApart(Load(file)) \/ saves > 0
        /\ Enabled(Load(file)) # {} \/ Enabled(mem) = {}

\* The registry in memory never has two projects of the same id, nor none at all,
\* whatever people do to the files.
MemoryIsSound == up => HasProjects(mem) /\ UniqueIds(mem)

\* A project runs by its workflow file: with no event to handle and no settings to
\* save, what is in force is what the file says, unless the file does not resolve, or
\* an event was missed or a file could not be applied since.
ConfigFollowsFile ==
    \A i \in Ids \ (notices \cup lagging) :
        Running(i) /\ save[i] = NoSave /\ workflow[FileOf(i)] \in Contents =>
            inForce[i].config.content = workflow[FileOf(i)]
=============================================================================
