--------------------------- MODULE RegistryProofs ---------------------------
(***************************************************************************)
(* Proofs about Registry, for any ids, files, requests and workflow        *)
(* contents.                                                               *)
(***************************************************************************)
EXTENDS Registry, WellFoundedInduction, SequenceTheorems, TLAPS

USE DEF following

(* Sequences: what the edits do to the list of projects.                   *)

LEMMA MapSeq ==
  ASSUME NEW S, NEW T, NEW s \in Seq(S), NEW t,
         DOMAIN t = DOMAIN s, t = [n \in DOMAIN t |-> t[n]],
         \A n \in DOMAIN s : t[n] \in T
  PROVE  t \in Seq(T) /\ Len(t) = Len(s)
<1>1. DOMAIN s = 1 .. Len(s) /\ Len(s) \in Nat
  OBVIOUS
<1>2. t \in [1 .. Len(s) -> T]
  BY <1>1
<1>3. t \in Seq(T)
  BY <1>1, <1>2, SeqDef
<1>4. DOMAIN t = 1 .. Len(t) /\ Len(t) \in Nat
  BY <1>3
<1> QED
  BY <1>1, <1>3, <1>4

LEMMA WithoutSeq ==
  ASSUME NEW S, NEW s \in Seq(S), NEW k \in DOMAIN s
  PROVE  /\ Without(s, k) \in Seq(S)
         /\ Len(Without(s, k)) = Len(s) - 1
         /\ \A n \in 1 .. Len(s) - 1 : Without(s, k)[n] = IF n < k THEN s[n] ELSE s[n + 1]
<1>1. /\ Len(s) \in Nat /\ DOMAIN s = 1 .. Len(s)
      /\ \A n \in 1 .. Len(s) : s[n] \in S
      /\ Len(s) >= 1 /\ Len(s) - 1 \in Nat
  OBVIOUS
<1>2. /\ DOMAIN Without(s, k) = 1 .. Len(s) - 1
      /\ \A n \in 1 .. Len(s) - 1 : Without(s, k)[n] = IF n < k THEN s[n] ELSE s[n + 1]
  BY DEF Without
<1>3. \A n \in 1 .. Len(s) - 1 : Without(s, k)[n] \in S
  BY <1>1, <1>2
<1>4. Without(s, k) \in [1 .. Len(s) - 1 -> S]
  BY <1>1, <1>3 DEF Without
<1>5. Without(s, k) \in Seq(S)
  BY <1>1, <1>4, SeqDef
<1>6. DOMAIN Without(s, k) = 1 .. Len(Without(s, k)) /\ Len(Without(s, k)) \in Nat
  BY <1>5
<1>7. Len(Without(s, k)) = Len(s) - 1
  <2> DEFINE l == Len(Without(s, k))
             m == Len(s) - 1
  <2>1. 1 .. l = 1 .. m /\ l \in Nat /\ m \in Nat
    BY <1>1, <1>2, <1>6
  <2> HIDE DEF l, m
  <2>2. l = m
    BY <2>1
  <2> QED
    BY <2>2 DEF l, m
<1> QED
  BY <1>2, <1>5, <1>7

LEMMA FirstOfIn ==
  ASSUME NEW set \in SUBSET Nat, set # {}
  PROVE  FirstOf(set) \in set
<1> DEFINE R == {ss \in Nat \X Nat : ss[1] < ss[2]}
<1>1. IsWellFoundedOn(R, Nat)
  BY NatLessThanWellFounded DEF OpToRel
<1> HIDE DEF R
<1>2. PICK n \in set : \A k \in set : ~(<<k, n>> \in R)
  BY <1>1, WFMin
<1>3. \A k \in set : ~(<<k, n>> \in R) => n <= k
  BY DEF R
<1> QED
  BY <1>2, <1>3 DEF FirstOf
-----------------------------------------------------------------------------
(* What is loaded, and what is written for it.                             *)

LEMMA DefaultTypes ==
  /\ \A v \in BOOLEAN \cup {Absent}, d \in BOOLEAN : Default(v, d) \in BOOLEAN
  /\ \A v \in Limits \cup {Absent}, d \in Limits : Default(v, d) \in Limits
  /\ \A v \in Endpoints \cup {None, Absent}, d \in Endpoints \cup {None} :
        Default(v, d) \in Endpoints \cup {None}
  /\ \A v \in Secrets \cup {None, Absent}, d \in Secrets \cup {None} :
        Default(v, d) \in Secrets \cup {None}
<1>1. \A v \in BOOLEAN \cup {Absent}, d \in BOOLEAN : Default(v, d) \in BOOLEAN
  BY Zenon DEF Default
<1> QED
  BY <1>1 DEF Default

LEMMA WrittenTypes ==
  /\ \A v \in BOOLEAN : Written(v, TRUE) \in BOOLEAN \cup {Absent}
  /\ \A v \in Limits : Written(v, 0) \in Limits \cup {Absent}
  /\ \A v \in Endpoints \cup {None} : Written(v, None) \in Endpoints \cup {None, Absent}
  /\ \A v \in Secrets \cup {None} : Written(v, None) \in Secrets \cup {None, Absent}
<1>1. \A v \in BOOLEAN : Written(v, TRUE) \in BOOLEAN \cup {Absent}
  BY Zenon DEF Written
<1> QED
  BY <1>1 DEF Written

(* What is written for a value is read back as that value.                 *)
LEMMA WrittenIsRead ==
  /\ \A v \in BOOLEAN : Default(Written(v, TRUE), TRUE) = v
  /\ \A v \in BOOLEAN : Default(v, FALSE) = v
  /\ \A v \in Limits : Default(Written(v, 0), 0) = v
  /\ \A v \in Endpoints \cup {None} : Default(Written(v, None), None) = v
  /\ \A v \in Secrets \cup {None} : Default(Written(v, None), None) = v
<1>1. \A v \in BOOLEAN : Default(Written(v, TRUE), TRUE) = v
  BY NamesAssumption, Zenon DEF Default, Written
<1>2. \A v \in BOOLEAN : Default(v, FALSE) = v
  BY NamesAssumption, Zenon DEF Default
<1> QED
  BY <1>1, <1>2, NamesAssumption DEF Default, Written

LEMMA LoadProjectType == \A node \in Nodes : LoadProject(node) \in Projects
<1> SUFFICES ASSUME NEW node \in Nodes PROVE LoadProject(node) \in Projects
  OBVIOUS
<1>1. /\ node.id \in Ids /\ node.workflow \in Workflows
      /\ node.enabled \in BOOLEAN \cup {Absent} /\ node.limit \in Limits \cup {Absent}
  BY DEF Nodes
<1>2. Default(node.enabled, TRUE) \in BOOLEAN
  BY <1>1, DefaultTypes, Zenon
<1>3. Default(node.limit, 0) \in Limits
  BY <1>1, DefaultTypes, RegistryAssumption
<1> QED
  BY <1>1, <1>2, <1>3 DEF LoadProject, Projects

LEMMA ProjectNodeType ==
  ASSUME NEW p \in Projects
  PROVE  ProjectNode(p) \in Nodes /\ LoadProject(ProjectNode(p)) = p
<1>1. /\ p.id \in Ids /\ p.workflow \in Workflows /\ p.enabled \in BOOLEAN /\ p.limit \in Limits
      /\ p = [id |-> p.id, workflow |-> p.workflow, enabled |-> p.enabled, limit |-> p.limit]
  BY DEF Projects
<1>2. Written(p.enabled, TRUE) \in BOOLEAN \cup {Absent}
  BY <1>1, WrittenTypes, Zenon
<1>3. Default(Written(p.enabled, TRUE), TRUE) = p.enabled
  BY <1>1, WrittenIsRead, Zenon
<1>4. Written(p.limit, 0) \in Limits \cup {Absent} /\ Default(Written(p.limit, 0), 0) = p.limit
  BY <1>1, WrittenTypes, WrittenIsRead
<1>5. ProjectNode(p) \in Nodes
  BY <1>1, <1>2, <1>4 DEF ProjectNode, Nodes
<1>6. LoadProject(ProjectNode(p)) =
        [id |-> p.id, workflow |-> p.workflow, enabled |-> p.enabled, limit |-> p.limit]
  BY <1>3, <1>4 DEF ProjectNode, LoadProject
<1> QED
  BY <1>1, <1>5, <1>6

LEMMA LoadSettingsType ==
  ASSUME NEW settings \in Settings
  PROVE  /\ Default(settings.default, 0) \in Limits
         /\ Default(settings.overlap, FALSE) \in BOOLEAN
         /\ Default(settings.endpoint, None) \in Endpoints \cup {None}
         /\ Default(settings.key, None) \in Secrets \cup {None}
<1>1. /\ settings.default \in Limits \cup {Absent}
      /\ settings.overlap \in BOOLEAN \cup {Absent}
      /\ settings.endpoint \in Endpoints \cup {None, Absent}
      /\ settings.key \in Secrets \cup {None, Absent}
  BY DEF Settings
<1>2. Default(settings.overlap, FALSE) \in BOOLEAN
  BY <1>1, DefaultTypes, Zenon
<1> QED
  BY <1>1, <1>2, DefaultTypes, RegistryAssumption

LEMMA LoadType ==
  ASSUME NEW doc \in Documents
  PROVE  /\ Load(doc) \in Registries
         /\ Len(Load(doc).projects) = Len(doc.projects)
         /\ DOMAIN Load(doc).projects = DOMAIN doc.projects
         /\ \A n \in DOMAIN doc.projects : Load(doc).projects[n] = LoadProject(doc.projects[n])
<1> DEFINE ps == [n \in DOMAIN doc.projects |-> LoadProject(doc.projects[n])]
<1>1. doc.projects \in Seq(Nodes) /\ doc.settings \in Settings
  BY DEF Documents
<1>2. \A n \in DOMAIN doc.projects : doc.projects[n] \in Nodes
  BY <1>1
<1>3. \A n \in DOMAIN doc.projects : ps[n] \in Projects
  BY <1>2, LoadProjectType
<1>4. ps \in Seq(Projects) /\ Len(ps) = Len(doc.projects)
  <2> HIDE DEF ps
  <2>1. DOMAIN ps = DOMAIN doc.projects /\ ps = [n \in DOMAIN ps |-> ps[n]]
    BY DEF ps
  <2> QED
    BY <1>1, <1>3, <2>1, MapSeq
<1>5. Load(doc).projects = ps
  BY DEF Load
<1>6. Load(doc) \in Registries
  <2>1. Load(doc) = [projects |-> ps,
                     default  |-> Default(doc.settings.default, 0),
                     overlap  |-> Default(doc.settings.overlap, FALSE),
                     endpoint |-> Default(doc.settings.endpoint, None),
                     key      |-> Default(doc.settings.key, None)]
    BY DEF Load
  <2> HIDE DEF ps
  <2>2. /\ Default(doc.settings.default, 0) \in Limits
        /\ Default(doc.settings.overlap, FALSE) \in BOOLEAN
        /\ Default(doc.settings.endpoint, None) \in Endpoints \cup {None}
        /\ Default(doc.settings.key, None) \in Secrets \cup {None}
    BY <1>1, LoadSettingsType
  <2> DEFINE d == Default(doc.settings.default, 0)
             o == Default(doc.settings.overlap, FALSE)
             e == Default(doc.settings.endpoint, None)
             k == Default(doc.settings.key, None)
  <2>3. /\ ps \in Seq(Projects) /\ d \in Limits /\ o \in BOOLEAN
        /\ e \in Endpoints \cup {None} /\ k \in Secrets \cup {None}
    BY <1>4, <2>2
  <2>4. Load(doc) = [projects |-> ps, default |-> d, overlap |-> o, endpoint |-> e, key |-> k]
    BY <2>1, Zenon
  <2> HIDE DEF d, o, e, k
  <2> QED
    BY <2>3, <2>4 DEF Registries
<1> QED
  BY <1>4, <1>5, <1>6

LEMMA RegistryFields ==
  ASSUME NEW reg \in Registries
  PROVE  /\ reg.projects \in Seq(Projects) /\ reg.default \in Limits /\ reg.overlap \in BOOLEAN
         /\ reg.endpoint \in Endpoints \cup {None} /\ reg.key \in Secrets \cup {None}
         /\ reg = [projects |-> reg.projects, default |-> reg.default, overlap |-> reg.overlap,
                   endpoint |-> reg.endpoint, key |-> reg.key]
  BY DEF Registries

(* Two files with the same settings mean the same registry when their      *)
(* projects do.                                                            *)
LEMMA SameLoad ==
  ASSUME NEW doc \in Documents, NEW reg \in Registries,
         Len(doc.projects) = Len(reg.projects),
         \A n \in DOMAIN reg.projects : LoadProject(doc.projects[n]) = reg.projects[n],
         Default(doc.settings.default, 0) = reg.default,
         Default(doc.settings.overlap, FALSE) = reg.overlap,
         Default(doc.settings.endpoint, None) = reg.endpoint,
         Default(doc.settings.key, None) = reg.key
  PROVE  Load(doc) = reg
<1>1. /\ Load(doc).projects \in Seq(Projects) /\ reg.projects \in Seq(Projects)
      /\ Len(Load(doc).projects) = Len(reg.projects)
  BY LoadType, RegistryFields
<1>2. DOMAIN doc.projects = DOMAIN reg.projects /\ DOMAIN reg.projects = 1 .. Len(reg.projects)
  BY <1>1 DEF Documents
<1>3. \A n \in 1 .. Len(reg.projects) : Load(doc).projects[n] = reg.projects[n]
  BY <1>2, LoadType
<1>4. Load(doc).projects = reg.projects
  BY <1>1, <1>3, SeqEqual
<1>5. Load(doc) = [projects |-> Load(doc).projects, default |-> reg.default,
                   overlap |-> reg.overlap, endpoint |-> reg.endpoint, key |-> reg.key]
  BY DEF Load
<1> QED
  BY <1>4, <1>5, RegistryFields

(* Ids are the same in the file and in memory.                             *)
LEMMA SameIndex ==
  ASSUME NEW doc \in Documents, NEW id
  PROVE  IndexOf(Load(doc).projects, id) = IndexOf(doc.projects, id)
<1>1. /\ DOMAIN Load(doc).projects = DOMAIN doc.projects
      /\ \A n \in DOMAIN doc.projects : Load(doc).projects[n] = LoadProject(doc.projects[n])
  BY LoadType
<1>2. \A n \in DOMAIN doc.projects : Load(doc).projects[n].id = doc.projects[n].id
  <2>1. \A node : LoadProject(node).id = node.id
    BY DEF LoadProject
  <2> QED
    BY <1>1, <2>1
<1> QED
  BY <1>1, <1>2 DEF IndexOf

LEMMA IndexFirst ==
  ASSUME NEW S, NEW s \in Seq(S), NEW id, IndexOf(s, id) # {}
  PROVE  FirstOf(IndexOf(s, id)) \in DOMAIN s /\ Key[s[FirstOf(IndexOf(s, id))].id] = Key[id]
<1>1. IndexOf(s, id) \in SUBSET Nat
  BY DEF IndexOf
<1> QED
  BY <1>1, FirstOfIn DEF IndexOf
-----------------------------------------------------------------------------
(* The edit in progress as a change of the registry in memory.             *)

Created == [mem EXCEPT !.projects = Append(@, edit.request)]
Place == FirstOf(IndexOf(mem.projects, edit.id))
Updated == [mem EXCEPT !.projects[Place] = edit.request]
Deleted == [mem EXCEPT !.projects = Without(@, Place)]

Change ==
    \/ edit.op = "create" /\ edit.request \in Projects /\ edit.next = Created
    \/ /\ edit.op = "update" /\ edit.request \in Projects /\ edit.next = Updated
       /\ IndexOf(mem.projects, edit.id) # {}
       /\ edit.request.id = mem.projects[Place].id
    \/ edit.op = "delete" /\ edit.next = Deleted /\ IndexOf(mem.projects, edit.id) # {}
    \/ edit.op = "settings" /\ edit.request \in Settings /\ edit.next = Applied(edit.request)

LEMMA AppliedType ==
  ASSUME mem \in Registries, NEW req \in Settings
  PROVE  Applied(req) \in Registries
<1>1. /\ req.default \in Limits \cup {Absent} /\ req.overlap \in BOOLEAN \cup {Absent}
      /\ req.endpoint \in Endpoints \cup {None, Absent} /\ req.key \in Secrets \cup {None, Absent}
  BY DEF Settings
<1>2. Default(req.overlap, mem.overlap) \in BOOLEAN
  BY <1>1, DefaultTypes, RegistryFields, Zenon
<1>3. /\ Default(req.default, mem.default) \in Limits
      /\ Default(req.endpoint, mem.endpoint) \in Endpoints \cup {None}
      /\ Default(req.key, mem.key) \in Secrets \cup {None}
  BY <1>1, DefaultTypes, RegistryFields
<1> QED
  BY <1>2, <1>3, RegistryFields DEF Applied, Registries

LEMMA ChangeType ==
  ASSUME mem \in Registries, Change
  PROVE  edit.next \in Registries
<1>1. mem.projects \in Seq(Projects)
  BY RegistryFields
<1>2. CASE edit.request \in Projects /\ edit.next = Created
  <2>1. Append(mem.projects, edit.request) \in Seq(Projects)
    BY <1>1, <1>2, AppendProperties
  <2> QED
    BY <1>2, <2>1 DEF Created, Registries
<1>3. CASE /\ edit.request \in Projects /\ edit.next = Updated
           /\ IndexOf(mem.projects, edit.id) # {}
  <2>0. Place \in 1 .. Len(mem.projects)
    BY <1>1, <1>3, IndexFirst DEF Place
  <2>1. [mem.projects EXCEPT ![Place] = edit.request] \in Seq(Projects)
    BY <1>1, <1>3, <2>0, ExceptSeq
  <2>2. edit.next = [mem EXCEPT !.projects = [mem.projects EXCEPT ![Place] = edit.request]]
    BY <1>3 DEF Updated, Registries
  <2> QED
    BY <2>1, <2>2 DEF Registries
<1>4. CASE edit.next = Deleted /\ IndexOf(mem.projects, edit.id) # {}
  <2>1. Place \in DOMAIN mem.projects
    BY <1>1, <1>4, IndexFirst DEF Place
  <2>2. Without(mem.projects, Place) \in Seq(Projects)
    BY <1>1, <2>1, WithoutSeq
  <2> QED
    BY <1>4, <2>2 DEF Deleted, Registries
<1>5. CASE edit.request \in Settings /\ edit.next = Applied(edit.request)
  BY <1>5, AppliedType
<1> QED
  BY <1>2, <1>3, <1>4, <1>5 DEF Change

LEMMA EditedCases ==
  ASSUME NEW doc
  PROVE  /\ edit.op = "create" => Edited(doc) = AppendInFile(doc)
         /\ edit.op = "update" => Edited(doc) = UpdateInFile(doc)
         /\ edit.op = "delete" => Edited(doc) = DeleteFromFile(doc)
         /\ edit.op = "settings" =>
               Edited(doc) =
                 [doc EXCEPT !.settings = SettingsNode(doc.settings, edit.next, edit.request)]
  BY DEF Edited

LEMMA UpdateInFileIs ==
  ASSUME NEW doc \in Documents
  PROVE  UpdateInFile(doc) =
           [projects |-> [doc.projects EXCEPT ![InFile(doc)] =
                             UpdatedNode(doc.projects[InFile(doc)], edit.request)],
            settings |-> doc.settings]
<1> DEFINE n == InFile(doc)
           node == UpdatedNode(doc.projects[n], edit.request)
<1>1. UpdateInFile(doc) = [doc EXCEPT !.projects = [doc.projects EXCEPT ![n] = node]]
  BY DEF UpdateInFile
<1> HIDE DEF n, node
<1>2. UpdateInFile(doc) = [projects |-> [doc.projects EXCEPT ![n] = node],
                           settings |-> doc.settings]
  BY <1>1 DEF Documents
<1> QED
  BY <1>2 DEF n, node

LEMMA UpdatedNodeType ==
  ASSUME NEW node \in Nodes, NEW p \in Projects
  PROVE  /\ UpdatedNode(node, p) \in Nodes
         /\ p.id = node.id => LoadProject(UpdatedNode(node, p)) = p
<1>1. ProjectNode(p) \in Nodes /\ LoadProject(ProjectNode(p)) = p
  BY ProjectNodeType
<1>2. ProjectNode(p).id = p.id /\ node.id \in Ids
  BY DEF ProjectNode, Nodes
<1>3. UpdatedNode(node, p) \in Nodes
  BY <1>1, <1>2 DEF UpdatedNode, Nodes
<1>4. p.id = node.id => UpdatedNode(node, p) = ProjectNode(p)
  BY <1>1, <1>2 DEF UpdatedNode, Nodes
<1> QED
  BY <1>1, <1>3, <1>4

LEMMA SettingsNodeType ==
  ASSUME NEW settings \in Settings, NEW next \in Registries, NEW req \in Settings
  PROVE  SettingsNode(settings, next, req) \in Settings
<1> DEFINE d == Written(next.default, 0)
           o == next.overlap
           e == IF req.endpoint = Absent /\ req.key = Absent THEN settings.endpoint
                ELSE Written(next.endpoint, None)
           k == IF req.key = Absent THEN settings.key ELSE Written(next.key, None)
<1>1. /\ d \in Limits \cup {Absent} /\ o \in BOOLEAN
      /\ Written(next.endpoint, None) \in Endpoints \cup {None, Absent}
      /\ Written(next.key, None) \in Secrets \cup {None, Absent}
  BY WrittenTypes, RegistryFields
<1>2. e \in Endpoints \cup {None, Absent} /\ k \in Secrets \cup {None, Absent}
  BY <1>1 DEF Settings
<1>3. SettingsNode(settings, next, req) =
        [default |-> d, overlap |-> o, endpoint |-> e, key |-> k]
  BY Zenon DEF SettingsNode
<1>4. d \in Limits \cup {Absent} /\ o \in BOOLEAN \cup {Absent}
  BY <1>1
<1> HIDE DEF d, o, e, k
<1> QED
  BY <1>2, <1>3, <1>4 DEF Settings

(* The settings of the file mean what the edit means, if they meant what   *)
(* the memory said: also the keys that the edit leaves alone.              *)
LEMMA SettingsNodeLoads ==
  ASSUME mem \in Registries, NEW settings \in Settings, NEW req \in Settings,
         Default(settings.default, 0) = mem.default,
         Default(settings.overlap, FALSE) = mem.overlap,
         Default(settings.endpoint, None) = mem.endpoint,
         Default(settings.key, None) = mem.key
  PROVE  LET node == SettingsNode(settings, Applied(req), req)
             next == Applied(req)
         IN  /\ Default(node.default, 0) = next.default
             /\ Default(node.overlap, FALSE) = next.overlap
             /\ Default(node.endpoint, None) = next.endpoint
             /\ Default(node.key, None) = next.key
<1> DEFINE next == Applied(req)
           node == SettingsNode(settings, next, req)
<1>1. /\ next.default \in Limits /\ next.overlap \in BOOLEAN
      /\ next.endpoint \in Endpoints \cup {None} /\ next.key \in Secrets \cup {None}
  BY AppliedType, RegistryFields
<1>2. /\ node.default = Written(next.default, 0)
      /\ node.overlap = next.overlap
      /\ node.endpoint = IF req.endpoint = Absent /\ req.key = Absent THEN settings.endpoint
                         ELSE Written(next.endpoint, None)
      /\ node.key = IF req.key = Absent THEN settings.key ELSE Written(next.key, None)
  BY DEF SettingsNode
<1>3. /\ req.endpoint = Absent => next.endpoint = mem.endpoint
      /\ req.key = Absent => next.key = mem.key
  BY DEF Applied, Default
<1> HIDE DEF next, node
<1>4. Default(node.default, 0) = next.default
  BY <1>1, <1>2, WrittenIsRead
<1>5. Default(node.overlap, FALSE) = next.overlap
  BY <1>1, <1>2, WrittenIsRead, Zenon
<1>6. Default(node.endpoint, None) = next.endpoint
  BY <1>1, <1>2, <1>3, WrittenIsRead
<1>7. Default(node.key, None) = next.key
  BY <1>1, <1>2, <1>3, WrittenIsRead
<1> QED
  BY <1>4, <1>5, <1>6, <1>7 DEF next, node

LEMMA EditedType ==
  ASSUME mem \in Registries, file \in Documents, Fits(file), Change
  PROVE  Edited(file) \in Documents
<1>0. /\ file.projects \in Seq(Nodes) /\ file.settings \in Settings
      /\ \A n \in DOMAIN file.projects : file.projects[n] \in Nodes
      /\ file = [projects |-> file.projects, settings |-> file.settings]
  BY DEF Documents
<1>1. CASE edit.op = "create" /\ edit.request \in Projects
  <2>1. Append(file.projects, ProjectNode(edit.request)) \in Seq(Nodes)
    BY <1>0, <1>1, ProjectNodeType, AppendProperties
  <2> QED
    BY <1>0, <1>1, <2>1, EditedCases DEF AppendInFile, Documents
<1>2. CASE edit.op \in {"update", "delete"}
  <2>1. InFile(file) \in DOMAIN file.projects
    BY <1>0, <1>2, IndexFirst DEF Fits, InFile
  <2>2. CASE edit.op = "update"
    <3>0. edit.request \in Projects
      BY <2>2 DEF Change
    <3>1. UpdatedNode(file.projects[InFile(file)], edit.request) \in Nodes
      BY <1>0, <2>1, <3>0, UpdatedNodeType
    <3> DEFINE ps == [file.projects EXCEPT ![InFile(file)] =
                         UpdatedNode(file.projects[InFile(file)], edit.request)]
    <3>2. Edited(file) = [projects |-> ps, settings |-> file.settings]
      BY <2>2, EditedCases, UpdateInFileIs
    <3>3. ps \in Seq(Nodes)
      BY <1>0, <2>1, <3>1, ExceptSeq
    <3> HIDE DEF ps
    <3> QED
      BY <1>0, <3>2, <3>3 DEF Documents
  <2>3. CASE edit.op = "delete"
    <3>1. Without(file.projects, InFile(file)) \in Seq(Nodes)
      BY <1>0, <2>1, WithoutSeq
    <3> QED
      BY <1>0, <2>3, <3>1, EditedCases DEF DeleteFromFile, Documents
  <2> QED
    BY <1>2, <2>2, <2>3
<1>3. CASE edit.op = "settings" /\ edit.request \in Settings /\ edit.next = Applied(edit.request)
  <2>1. SettingsNode(file.settings, edit.next, edit.request) \in Settings
    BY <1>0, <1>3, AppliedType, SettingsNodeType
  <2> QED
    BY <1>0, <1>3, <2>1, EditedCases DEF Documents
<1> QED
  BY <1>1, <1>2, <1>3 DEF Change

(* The edit of a file that says what the memory says leads to a file that  *)
(* says what the new memory will say.                                      *)
LEMMA EditedLoads ==
  ASSUME mem \in Registries, file \in Documents, Fits(file), Change, Load(file) = mem
  PROVE  Load(Edited(file)) = edit.next
<1>0. /\ file.projects \in Seq(Nodes) /\ file.settings \in Settings
      /\ \A n \in DOMAIN file.projects : file.projects[n] \in Nodes
      /\ file = [projects |-> file.projects, settings |-> file.settings]
      /\ DOMAIN file.projects = 1 .. Len(file.projects) /\ Len(file.projects) \in Nat
  BY DEF Documents
<1>1. /\ mem.projects \in Seq(Projects) /\ Len(mem.projects) = Len(file.projects)
      /\ DOMAIN mem.projects = DOMAIN file.projects
      /\ \A n \in DOMAIN file.projects : mem.projects[n] = LoadProject(file.projects[n])
  BY LoadType, RegistryFields
<1>2. /\ Default(file.settings.default, 0) = mem.default
      /\ Default(file.settings.overlap, FALSE) = mem.overlap
      /\ Default(file.settings.endpoint, None) = mem.endpoint
      /\ Default(file.settings.key, None) = mem.key
  BY Zenon DEF Load
<1>3. edit.next \in Registries /\ Edited(file) \in Documents
  BY ChangeType, EditedType
<1>4. IndexOf(file.projects, edit.id) = IndexOf(mem.projects, edit.id) /\ InFile(file) = Place
  BY SameIndex DEF InFile, Place
<1>5. CASE edit.op = "create" /\ edit.request \in Projects /\ edit.next = Created
  <2>1. /\ Edited(file).settings = file.settings
        /\ Edited(file).projects = Append(file.projects, ProjectNode(edit.request))
    BY <1>0, <1>5, EditedCases DEF AppendInFile
  <2>2. /\ edit.next.projects = Append(mem.projects, edit.request)
        /\ edit.next.default = mem.default /\ edit.next.overlap = mem.overlap
        /\ edit.next.endpoint = mem.endpoint /\ edit.next.key = mem.key
    BY <1>5, RegistryFields DEF Created
  <2>3. ProjectNode(edit.request) \in Nodes /\ LoadProject(ProjectNode(edit.request)) = edit.request
    BY <1>5, ProjectNodeType
  <2>4. Len(Edited(file).projects) = Len(edit.next.projects)
    BY <1>0, <1>1, <1>5, <2>1, <2>2, <2>3, AppendProperties
  <2>5. \A n \in DOMAIN edit.next.projects :
           LoadProject(Edited(file).projects[n]) = edit.next.projects[n]
    <3>1. DOMAIN edit.next.projects = 1 .. Len(file.projects) + 1
      BY <1>0, <1>1, <1>5, <2>2
    <3>2. /\ Edited(file).projects[Len(file.projects) + 1] = ProjectNode(edit.request)
          /\ edit.next.projects[Len(file.projects) + 1] = edit.request
          /\ \A n \in 1 .. Len(file.projects) :
                /\ Edited(file).projects[n] = file.projects[n]
                /\ edit.next.projects[n] = mem.projects[n]
      BY <1>0, <1>1, <1>5, <2>1, <2>2, <2>3, AppendProperties
    <3>3. \A n \in 1 .. Len(file.projects) + 1 :
             n \in 1 .. Len(file.projects) \/ n = Len(file.projects) + 1
      BY <1>0
    <3> QED
      BY <1>0, <1>1, <2>3, <3>1, <3>2, <3>3
  <2>6. edit.next.overlap = mem.overlap
    BY <2>2
  <2> QED
    BY <1>2, <1>3, <2>1, <2>2, <2>4, <2>5, SameLoad
<1>6. CASE /\ edit.op = "update" /\ edit.request \in Projects /\ edit.next = Updated
           /\ IndexOf(mem.projects, edit.id) # {}
           /\ edit.request.id = mem.projects[Place].id
  <2>0. Place \in DOMAIN file.projects
    BY <1>1, <1>6, IndexFirst DEF Place
  <2>1. /\ Edited(file).settings = file.settings
        /\ Edited(file).projects =
             [file.projects EXCEPT ![Place] = UpdatedNode(file.projects[Place], edit.request)]
    BY <1>4, <1>6, EditedCases, UpdateInFileIs
  <2>2. /\ edit.next.projects = [mem.projects EXCEPT ![Place] = edit.request]
        /\ edit.next.default = mem.default /\ edit.next.overlap = mem.overlap
        /\ edit.next.endpoint = mem.endpoint /\ edit.next.key = mem.key
    BY <1>6, RegistryFields DEF Updated
  <2>3. edit.request.id = file.projects[Place].id
    <3>1. \A node : LoadProject(node).id = node.id
      BY DEF LoadProject
    <3> QED
      BY <1>1, <1>6, <2>0, <3>1
  <2>4. /\ UpdatedNode(file.projects[Place], edit.request) \in Nodes
        /\ LoadProject(UpdatedNode(file.projects[Place], edit.request)) = edit.request
    BY <1>0, <1>6, <2>0, <2>3, UpdatedNodeType
  <2>5. /\ Len(Edited(file).projects) = Len(file.projects)
        /\ \A n \in DOMAIN file.projects : Edited(file).projects[n] =
              IF n = Place THEN UpdatedNode(file.projects[Place], edit.request) ELSE file.projects[n]
    BY <1>0, <2>0, <2>1, <2>4, ExceptSeq
  <2>6. /\ Len(edit.next.projects) = Len(file.projects)
        /\ DOMAIN edit.next.projects = DOMAIN file.projects
        /\ \A n \in DOMAIN file.projects : edit.next.projects[n] =
              IF n = Place THEN edit.request ELSE mem.projects[n]
    BY <1>1, <1>6, <2>0, <2>2, ExceptSeq
  <2>7. \A n \in DOMAIN edit.next.projects :
           LoadProject(Edited(file).projects[n]) = edit.next.projects[n]
    BY <1>1, <2>4, <2>5, <2>6
  <2>8. Len(Edited(file).projects) = Len(edit.next.projects)
    BY <2>5, <2>6
  <2>9. /\ Default(Edited(file).settings.default, 0) = edit.next.default
        /\ Default(Edited(file).settings.overlap, FALSE) = edit.next.overlap
        /\ Default(Edited(file).settings.endpoint, None) = edit.next.endpoint
        /\ Default(Edited(file).settings.key, None) = edit.next.key
    BY <1>2, <2>1, <2>2, Zenon
  <2> QED
    BY <1>3, <2>7, <2>8, <2>9, SameLoad
<1>7. CASE edit.op = "delete" /\ edit.next = Deleted /\ IndexOf(mem.projects, edit.id) # {}
  <2>0. Place \in DOMAIN file.projects
    BY <1>1, <1>7, IndexFirst DEF Place
  <2>1. /\ Edited(file).settings = file.settings
        /\ Edited(file).projects = Without(file.projects, Place)
    BY <1>0, <1>4, <1>7, EditedCases DEF DeleteFromFile
  <2>2. /\ edit.next.projects = Without(mem.projects, Place)
        /\ edit.next.default = mem.default /\ edit.next.overlap = mem.overlap
        /\ edit.next.endpoint = mem.endpoint /\ edit.next.key = mem.key
    BY <1>7, RegistryFields DEF Deleted
  <2>3. /\ Len(Edited(file).projects) = Len(file.projects) - 1
        /\ \A n \in 1 .. Len(file.projects) - 1 : Edited(file).projects[n] =
              IF n < Place THEN file.projects[n] ELSE file.projects[n + 1]
    BY <1>0, <2>0, <2>1, WithoutSeq
  <2>4. /\ Len(edit.next.projects) = Len(file.projects) - 1
        /\ DOMAIN edit.next.projects = 1 .. Len(file.projects) - 1
        /\ \A n \in 1 .. Len(file.projects) - 1 : edit.next.projects[n] =
              IF n < Place THEN mem.projects[n] ELSE mem.projects[n + 1]
    <3>1. Without(mem.projects, Place) \in Seq(Projects)
      BY <1>1, <2>0, WithoutSeq
    <3>2. /\ Len(Without(mem.projects, Place)) = Len(mem.projects) - 1
          /\ \A n \in 1 .. Len(mem.projects) - 1 : Without(mem.projects, Place)[n] =
                IF n < Place THEN mem.projects[n] ELSE mem.projects[n + 1]
      BY <1>1, <2>0, WithoutSeq
    <3>3. DOMAIN edit.next.projects = 1 .. Len(edit.next.projects)
      BY <2>2, <3>1
    <3> QED
      BY <1>1, <2>2, <3>2, <3>3
  <2>5. \A n \in 1 .. Len(file.projects) - 1 :
           n \in DOMAIN file.projects /\ n + 1 \in DOMAIN file.projects
    BY <1>0
  <2>6. \A n \in DOMAIN edit.next.projects :
           LoadProject(Edited(file).projects[n]) = edit.next.projects[n]
    BY <1>1, <2>3, <2>4, <2>5
  <2> QED
    BY <1>2, <1>3, <2>1, <2>2, <2>3, <2>4, <2>6, SameLoad
<1>8. CASE edit.op = "settings" /\ edit.request \in Settings /\ edit.next = Applied(edit.request)
  <2>1. /\ Edited(file).settings = SettingsNode(file.settings, Applied(edit.request), edit.request)
        /\ Edited(file).projects = file.projects
    BY <1>0, <1>8, EditedCases
  <2>2. edit.next.projects = mem.projects
    BY <1>8 DEF Applied
  <2>3. /\ Default(Edited(file).settings.default, 0) = edit.next.default
        /\ Default(Edited(file).settings.overlap, FALSE) = edit.next.overlap
        /\ Default(Edited(file).settings.endpoint, None) = edit.next.endpoint
        /\ Default(Edited(file).settings.key, None) = edit.next.key
    BY <1>0, <1>2, <1>8, <2>1, SettingsNodeLoads, Zenon
  <2> QED
    BY <1>1, <1>3, <2>1, <2>2, <2>3, SameLoad
<1> QED
  BY <1>5, <1>6, <1>7, <1>8 DEF Change
-----------------------------------------------------------------------------
(***************************************************************************)
(* The inductive invariant, in two halves that share up, workflow and save. *)
(* The registry half follows an edit through its steps: what was accepted   *)
(* is a change of the memory and is sound; what will be written is a file,  *)
(* and, as long as the API is alone, the one that means the accepted        *)
(* change.  The project half follows a runtime: while its settings are      *)
(* being saved, "before" is what its file holds, or an event is on its way. *)
(***************************************************************************)
Sound(reg) == HasProjects(reg) /\ UniqueIds(reg)

There(reg) == \A n \in DOMAIN reg.projects : workflow[reg.projects[n].workflow] # Missing

Fine(reg) == There(reg) /\ Resolves(reg) /\ (saves = 0 => KeptApart(reg))

EditInv ==
    /\ edit.step # "idle" => up
    /\ edit.step = "checked" => Change /\ Sound(edit.next)
    /\ edit.step \in {"read", "open"} =>
          /\ edit = [step |-> edit.step, doc |-> edit.doc, next |-> edit.next]
          /\ edit.doc \in Documents
          /\ edit.next \in Registries /\ Sound(edit.next)

AloneInv ==
    alone =>
      /\ Sound(mem) /\ Fine(mem)
      /\ edit.step # "idle" => Fine(edit.next)
      /\ file # Torn => edit.step # "open" /\ Load(file) = mem
      /\ edit.step \in {"read", "open"} => Load(edit.doc) = edit.next

(* Settings that are being saved are counted.                              *)
SavesInv == \A i \in Ids : save[i] # NoSave => saves > 0

RegistryType ==
    /\ alone \in BOOLEAN
    /\ mem \in Registries
    /\ file \in Documents \cup {Torn}
    /\ edit.step \in {"idle", "checked", "read", "open"}
    /\ edits \in 0..MaxEdits /\ hands \in 0..MaxHands /\ saves \in 0..MaxSaves

RegistryInv == RegistryType /\ EditInv /\ SavesInv /\ AloneInv /\ MemoryIsSound

SaveInv ==
    \A i \in Ids : save[i] # NoSave =>
        /\ inForce[i].config.content = save[i].content
        /\ i \notin notices \cup lagging => workflow[FileOf(i)] = save[i].before

RuntimeType ==
    /\ up \in BOOLEAN
    /\ workflow \in [Workflows -> Contents \cup {Missing, Invalid}]
    /\ inForce \in [Ids -> Runtimes \cup {Stopped}]
    /\ save \in [Ids -> Saves \cup {NoSave}]
    /\ \A i \in Ids : Running(i) => up
    /\ notices \subseteq watched /\ watched \cup lagging \subseteq {i \in Ids : Running(i)}
    /\ \A i \in Ids : save[i] # NoSave => Running(i)

RuntimeInv == RuntimeType /\ SaveInv /\ ConfigFollowsFile

IInv == RegistryInv /\ RuntimeInv

LEMMA TypeSplit == TypeOK <=> RegistryType /\ RuntimeType
  BY DEF TypeOK, RegistryType, RuntimeType
-----------------------------------------------------------------------------
(* The registry half.  What an accepted edit keeps.                        *)

LEMMA SoundProjects ==
  ASSUME mem \in Registries, Sound(mem)
  PROVE  /\ mem.projects \in Seq(Projects) /\ mem.projects # <<>>
         /\ DOMAIN mem.projects = 1 .. Len(mem.projects) /\ Len(mem.projects) \in Nat
         /\ \A n, k \in DOMAIN mem.projects :
               Key[mem.projects[n].id] = Key[mem.projects[k].id] => n = k
  BY RegistryFields DEF Sound, HasProjects, UniqueIds

LEMMA AddedProject ==
  ASSUME mem \in Registries, Sound(mem), NEW next, NEW p \in Projects,
         IndexOf(mem.projects, p.id) = {},
         next.projects = Append(mem.projects, p)
  PROVE  Sound(next) /\ (There(mem) /\ workflow[p.workflow] # Missing => There(next))
<1>1. /\ next.projects # <<>>
      /\ DOMAIN next.projects = 1 .. Len(mem.projects) + 1
      /\ next.projects[Len(mem.projects) + 1] = p
      /\ \A n \in 1 .. Len(mem.projects) : next.projects[n] = mem.projects[n]
  BY SoundProjects, AppendProperties
<1>2. \A n \in 1 .. Len(mem.projects) : Key[mem.projects[n].id] # Key[p.id]
  BY SoundProjects DEF IndexOf
<1>3. \A n \in 1 .. Len(mem.projects) + 1 :
         n \in 1 .. Len(mem.projects) \/ n = Len(mem.projects) + 1
  BY SoundProjects
<1>4. UniqueIds(next)
  BY <1>1, <1>2, <1>3, SoundProjects DEF UniqueIds
<1>5. There(mem) /\ workflow[p.workflow] # Missing => There(next)
  BY <1>1, <1>3, SoundProjects DEF There
<1> QED
  BY <1>1, <1>4, <1>5 DEF Sound, HasProjects

LEMMA ReplacedProject ==
  ASSUME mem \in Registries, Sound(mem), NEW next, NEW n \in DOMAIN mem.projects,
         NEW q \in Projects, q.id = mem.projects[n].id,
         next.projects = [mem.projects EXCEPT ![n] = q]
  PROVE  Sound(next) /\ (There(mem) /\ workflow[q.workflow] # Missing => There(next))
<1>1. /\ next.projects \in Seq(Projects) /\ Len(next.projects) = Len(mem.projects)
      /\ DOMAIN next.projects = DOMAIN mem.projects
      /\ \A k \in DOMAIN mem.projects : next.projects[k] = IF k = n THEN q ELSE mem.projects[k]
  BY SoundProjects, ExceptSeq
<1>2. \A k \in DOMAIN mem.projects : next.projects[k].id = mem.projects[k].id
  BY <1>1
<1>3. next.projects # <<>>
  BY <1>1, SoundProjects
<1>4. There(mem) /\ workflow[q.workflow] # Missing => There(next)
  BY <1>1 DEF There
<1> QED
  BY <1>1, <1>2, <1>3, <1>4, SoundProjects DEF Sound, HasProjects, UniqueIds

LEMMA RemovedProject ==
  ASSUME mem \in Registries, Sound(mem), NEW next, NEW n \in DOMAIN mem.projects,
         Len(mem.projects) > 1, next.projects = Without(mem.projects, n)
  PROVE  Sound(next) /\ (There(mem) => There(next))
<1>0. mem.projects \in Seq(Projects)
  BY SoundProjects
<1>1. /\ next.projects \in Seq(Projects)
      /\ DOMAIN next.projects = 1 .. Len(mem.projects) - 1
      /\ Len(next.projects) = Len(mem.projects) - 1
      /\ \A k \in 1 .. Len(mem.projects) - 1 :
            next.projects[k] = IF k < n THEN mem.projects[k] ELSE mem.projects[k + 1]
  <2>1. /\ Without(mem.projects, n) \in Seq(Projects)
        /\ Len(Without(mem.projects, n)) = Len(mem.projects) - 1
        /\ \A k \in 1 .. Len(mem.projects) - 1 : Without(mem.projects, n)[k] =
              IF k < n THEN mem.projects[k] ELSE mem.projects[k + 1]
    BY <1>0, WithoutSeq
  <2> QED
    BY <2>1
<1>2. next.projects # <<>>
  BY <1>1, SoundProjects, EmptySeq
<1>3. \A k \in 1 .. Len(mem.projects) - 1 :
         k \in DOMAIN mem.projects /\ k + 1 \in DOMAIN mem.projects
  BY SoundProjects
<1>4. ASSUME NEW j \in DOMAIN next.projects, NEW k \in DOMAIN next.projects,
             Key[next.projects[j].id] = Key[next.projects[k].id]
      PROVE  j = k
  <2> DEFINE a == IF j < n THEN j ELSE j + 1
             b == IF k < n THEN k ELSE k + 1
  <2>1. j \in Nat /\ k \in Nat /\ n \in Nat
    BY <1>1, SoundProjects
  <2>2. /\ a \in DOMAIN mem.projects /\ next.projects[j] = mem.projects[a]
        /\ b \in DOMAIN mem.projects /\ next.projects[k] = mem.projects[b]
    BY <1>1, <1>3
  <2> HIDE DEF a, b
  <2>3. a = b
    BY <1>4, <2>2, SoundProjects
  <2> QED
    BY <2>1, <2>3 DEF a, b
<1>5. There(mem) => There(next)
  BY <1>1, <1>3 DEF There
<1> QED
  BY <1>2, <1>4, <1>5 DEF Sound, HasProjects, UniqueIds

LEMMA SameProjects ==
  ASSUME NEW reg, NEW next, next.projects = reg.projects
  PROVE  (Sound(reg) => Sound(next)) /\ (There(reg) => There(next))
  BY DEF Sound, HasProjects, UniqueIds, There

LEMMA RegistryInit == Init => RegistryInv
<1> SUFFICES ASSUME Init PROVE RegistryInv
  OBVIOUS
<1>1. Load(FirstFile) \in Registries
  BY FilesAssumption, LoadType
<1>2. edit.step = "idle"
  BY DEF Init, Idle
<1>3. mem \in Registries /\ file \in Documents /\ alone \in BOOLEAN
  BY <1>1, FilesAssumption DEF Init
<1>4. edits \in 0 .. MaxEdits /\ hands \in 0 .. MaxHands /\ saves \in 0 .. MaxSaves
  BY RegistryAssumption DEF Init
<1>5. RegistryType
  BY <1>2, <1>3, <1>4 DEF RegistryType
<1> QED
  BY <1>2, <1>5 DEF Init, RegistryInv, EditInv, SavesInv, AloneInv, MemoryIsSound

(* A file that the process starts with is a sound registry.                *)
LEMMA LoadedRegistry ==
  ASSUME NEW doc \in Documents, Loads(doc)
  PROVE  Load(doc) \in Registries /\ Sound(Load(doc)) /\ There(Load(doc))
<1>0. /\ Load(doc) \in Registries
      /\ doc.projects \in Seq(Nodes) /\ doc.projects # <<>>
      /\ Load(doc).projects \in Seq(Projects)
      /\ Len(Load(doc).projects) = Len(doc.projects)
      /\ DOMAIN Load(doc).projects = DOMAIN doc.projects
      /\ \A n \in DOMAIN doc.projects : Load(doc).projects[n] = LoadProject(doc.projects[n])
  BY LoadType, RegistryFields DEF Documents, Loads, HasProjects
<1>1. \A n \in DOMAIN doc.projects : /\ Load(doc).projects[n].id = doc.projects[n].id
                                     /\ Load(doc).projects[n].workflow = doc.projects[n].workflow
  <2>1. \A node : LoadProject(node).id = node.id /\ LoadProject(node).workflow = node.workflow
    BY DEF LoadProject
  <2> HIDE DEF LoadProject
  <2> QED
    BY <1>0, <2>1
<1>2. HasProjects(Load(doc))
  BY <1>0, EmptySeq DEF HasProjects
<1>3. UniqueIds(Load(doc)) /\ There(Load(doc))
  BY <1>0, <1>1 DEF Loads, UniqueIds, There
<1> QED
  BY <1>0, <1>2, <1>3 DEF Sound

LEMMA StartRegistry == IInv /\ Start => RegistryInv'
<1> SUFFICES ASSUME IInv, Start PROVE RegistryInv'
  OBVIOUS
<1>1. /\ file \in Documents /\ file # Torn /\ edit.step = "idle"
      /\ mem' = Load(file) /\ up' /\ alone' = TRUE
      /\ file' = file /\ workflow' = workflow /\ edit' = edit /\ save' = save
      /\ edits' = edits /\ hands' = hands /\ saves' = saves
      /\ \A i \in Ids : save[i] = NoSave
  BY DEF Start, IInv, RegistryInv, RuntimeInv, RuntimeType, RegistryType, EditInv, Loads
<1>0. SavesInv'
  BY <1>1 DEF SavesInv
<1>2. /\ mem' \in Registries /\ Sound(mem') /\ There(mem')
      /\ Loads(file) /\ ValidateProjectIsolation(mem')
  BY <1>1, LoadedRegistry DEF Start
<1>3. RegistryType'
  BY <1>1, <1>2 DEF IInv, RegistryInv, RegistryType
<1>4. EditInv'
  BY <1>1 DEF EditInv
<1>5. There(mem)' /\ Resolves(mem)' /\ KeptApart(mem)'
  BY <1>1, <1>2 DEF There, ValidateProjectIsolation, Resolves, KeptApart
<1>6. AloneInv'
  <2>1. Sound(mem)'
    BY <1>2 DEF Sound, HasProjects, UniqueIds
  <2> QED
    BY <1>1, <1>5, <2>1 DEF AloneInv, Fine
<1>7. MemoryIsSound'
  BY <1>2 DEF MemoryIsSound, Sound
<1> QED
  BY <1>0, <1>3, <1>4, <1>6, <1>7 DEF RegistryInv

LEMMA CrashRegistry == RegistryInv /\ Crash => RegistryInv'
<1> SUFFICES ASSUME RegistryInv, Crash PROVE RegistryInv'
  OBVIOUS
<1>1. edit'.step = "idle"
  BY DEF Crash, Idle
<1>2. RegistryType'
  BY <1>1 DEF Crash, RegistryInv, RegistryType
<1>3. EditInv' /\ SavesInv' /\ MemoryIsSound'
  BY <1>1 DEF Crash, EditInv, SavesInv, MemoryIsSound
<1>4. AloneInv'
  BY <1>1 DEF Crash, RegistryInv, AloneInv, Fine, There, Resolves, KeptApart, Enabled
<1> QED
  BY <1>2, <1>3, <1>4 DEF RegistryInv

(* What is accepted is a change of the memory, sound and, as long as the   *)
(* API is alone, fit to be started with.                                   *)
LEMMA AcceptRegistry ==
  ASSUME RegistryInv, NEW op, NEW id, NEW next, NEW request, Accept(op, id, next, request),
         Sound(mem) => Sound(next), Sound(mem) /\ There(mem) => There(next), Change'
  PROVE  RegistryInv'
<1>1. /\ up /\ edit.step = "idle"
      /\ edit' = [step |-> "checked", op |-> op, id |-> id, next |-> next, request |-> request]
      /\ edits' \in 0 .. MaxEdits
      /\ ValidateProjectIsolation(next)
      /\ up' = up /\ mem' = mem /\ file' = file /\ workflow' = workflow /\ save' = save
      /\ alone' = alone /\ hands' = hands /\ saves' = saves
  BY RegistryAssumption DEF Accept, Idle, RegistryInv, RegistryType
<1>2. Sound(mem) /\ Sound(next)
  BY <1>1 DEF RegistryInv, MemoryIsSound, Sound
<1>3. RegistryType'
  BY <1>1 DEF RegistryInv, RegistryType
<1>4. EditInv'
  <2>1. Sound(edit.next)'
    BY <1>1, <1>2
  <2> QED
    BY <1>1, <2>1 DEF EditInv
<1>5. AloneInv'
  <2> SUFFICES ASSUME alone PROVE AloneInv'
    BY <1>1 DEF AloneInv
  <2>1. Fine(mem) /\ (file # Torn => Load(file) = mem)
    BY <1>1 DEF RegistryInv, AloneInv
  <2>2. Fine(next)
    BY <1>1, <1>2, <2>1 DEF Fine, ValidateProjectIsolation
  <2>3. Fine(mem)' /\ Fine(edit.next)'
    BY <1>1, <2>1, <2>2 DEF Fine, There, Resolves, KeptApart, Enabled
  <2>4. Sound(mem)'
    BY <1>1, <1>2 DEF Sound, HasProjects, UniqueIds
  <2> QED
    BY <1>1, <2>1, <2>3, <2>4 DEF AloneInv
<1>6. MemoryIsSound' /\ SavesInv'
  BY <1>1, <1>2 DEF MemoryIsSound, Sound, RegistryInv, SavesInv
<1> QED
  BY <1>3, <1>4, <1>5, <1>6 DEF RegistryInv

LEMMA CreateRegistry ==
  ASSUME RegistryInv, NEW p \in Projects, CreateProject(p)
  PROVE  RegistryInv'
<1> DEFINE next == [mem EXCEPT !.projects = Append(@, p)]
<1>1. /\ IndexOf(mem.projects, p.id) = {} /\ workflow[p.workflow] # Missing
      /\ Accept("create", p.id, next, p)
      /\ mem \in Registries
  BY DEF CreateProject, RegistryInv, RegistryType
<1>2. next.projects = Append(mem.projects, p)
  BY <1>1, RegistryFields
<1>3. Sound(mem) => Sound(next) /\ (There(mem) => There(next))
  <2> HIDE DEF next
  <2> QED
    BY <1>1, <1>2, AddedProject
<1>4. Change'
  BY <1>1 DEF Accept, Change, Created
<1> HIDE DEF next
<1> QED
  BY <1>1, <1>3, <1>4, AcceptRegistry

LEMMA UpdateRegistry ==
  ASSUME RegistryInv, NEW p \in Projects, UpdateProject(p)
  PROVE  RegistryInv'
<1> DEFINE n == FirstOf(IndexOf(mem.projects, p.id))
           q == [p EXCEPT !.id = mem.projects[n].id]
           next == [mem EXCEPT !.projects[n] = q]
<1>1. /\ IndexOf(mem.projects, p.id) # {} /\ workflow[p.workflow] # Missing
      /\ Accept("update", p.id, next, q)
      /\ mem \in Registries
  BY DEF UpdateProject, RegistryInv, RegistryType
<1>2. mem.projects \in Seq(Projects) /\ n \in DOMAIN mem.projects
  BY <1>1, RegistryFields, IndexFirst
<1>3. q \in Projects /\ q.id = mem.projects[n].id /\ q.workflow = p.workflow
  <2> HIDE DEF n
  <2>1. mem.projects[n] \in Projects
    BY <1>2
  <2> QED
    BY <2>1 DEF Projects
<1>4. next = [mem EXCEPT !.projects = [mem.projects EXCEPT ![n] = q]]
  BY DEF n
<1>5. next.projects = [mem.projects EXCEPT ![n] = q]
  <2> HIDE DEF next, n, q
  <2> QED
    BY <1>1, <1>4, RegistryFields
<1>6. Sound(mem) => Sound(next) /\ (There(mem) => There(next))
  <2> HIDE DEF next, n, q
  <2> QED
    BY <1>1, <1>2, <1>3, <1>5, ReplacedProject
<1>7. Change'
  <2>1. /\ edit' = [step |-> "checked", op |-> "update", id |-> p.id, next |-> next, request |-> q]
        /\ mem' = mem
    BY <1>1 DEF Accept
  <2> HIDE DEF q
  <2>2. Place' = n
    BY <2>1 DEF Place
  <2>3. IndexOf(mem.projects, edit.id)' # {}
    BY <1>1, <2>1
  <2>4. Updated' = next
    BY <2>1, <2>2 DEF Updated
  <2> HIDE DEF next, n
  <2> QED
    BY <1>3, <2>1, <2>2, <2>3, <2>4 DEF Change
<1> HIDE DEF next, n, q
<1> QED
  BY <1>1, <1>6, <1>7, AcceptRegistry

LEMMA DeleteRegistry ==
  ASSUME RegistryInv, NEW id \in Ids, DeleteProject(id)
  PROVE  RegistryInv'
<1> DEFINE n == FirstOf(IndexOf(mem.projects, id))
           next == [mem EXCEPT !.projects = Without(@, n)]
<1>1. /\ IndexOf(mem.projects, id) # {} /\ Len(mem.projects) > 1
      /\ Accept("delete", id, next, None)
      /\ mem \in Registries
  BY DEF DeleteProject, RegistryInv, RegistryType
<1>2. mem.projects \in Seq(Projects) /\ n \in DOMAIN mem.projects
  BY <1>1, RegistryFields, IndexFirst
<1>3. next.projects = Without(mem.projects, n)
  <2> HIDE DEF n
  <2> QED
    BY <1>1, RegistryFields
<1>4. Sound(mem) => Sound(next) /\ (There(mem) => There(next))
  <2> HIDE DEF next, n
  <2> QED
    BY <1>1, <1>2, <1>3, RemovedProject
<1>5. Change'
  <2>1. /\ edit' = [step |-> "checked", op |-> "delete", id |-> id, next |-> next,
                    request |-> None]
        /\ mem' = mem
    BY <1>1 DEF Accept
  <2>2. Place' = n /\ IndexOf(mem.projects, edit.id)' # {}
    BY <1>1, <2>1 DEF Place
  <2>3. Deleted' = next
    BY <2>1, <2>2 DEF Deleted
  <2> HIDE DEF next, n
  <2> QED
    BY <2>1, <2>2, <2>3 DEF Change
<1> HIDE DEF next, n
<1> QED
  BY <1>1, <1>4, <1>5, AcceptRegistry

LEMMA SettingsRegistry ==
  ASSUME RegistryInv, NEW req \in Requests, UpdateSettings(req)
  PROVE  RegistryInv'
<1>1. Accept("settings", None, Applied(req), req) /\ req \in Settings
  BY FilesAssumption DEF UpdateSettings
<1>2. Applied(req).projects = mem.projects
  BY DEF Applied
<1>3. Sound(mem) => Sound(Applied(req)) /\ (There(mem) => There(Applied(req)))
  BY <1>2, SameProjects
<1>4. Change'
  <2>1. /\ edit'.op = "settings" /\ edit'.request = req /\ edit'.next = Applied(req)
        /\ mem' = mem
    BY <1>1 DEF Accept
  <2>2. Applied(req)' = Applied(req)
    BY <2>1 DEF Applied
  <2> QED
    BY <1>1, <2>1, <2>2 DEF Change
<1> QED
  BY <1>1, <1>3, <1>4, AcceptRegistry

(* The file is read and edited.  While only the API writes it, it says what *)
(* the memory says, so what is read back is what was accepted.              *)
LEMMA ReadRegistry == RegistryInv /\ ReadFile => RegistryInv'
<1> SUFFICES ASSUME RegistryInv, ReadFile PROVE RegistryInv'
  OBVIOUS
<1>1. /\ edit.step = "checked" /\ up /\ Change /\ Sound(edit.next) /\ mem \in Registries
      /\ file \in Documents \cup {Torn}
      /\ up' = up /\ mem' = mem /\ file' = file /\ workflow' = workflow /\ save' = save
      /\ alone' = alone /\ edits' = edits /\ hands' = hands /\ saves' = saves
  BY DEF ReadFile, RegistryInv, RegistryType, EditInv
<1>2. MemoryIsSound' /\ SavesInv'
  BY <1>1 DEF RegistryInv, MemoryIsSound, SavesInv
<1>3. alone => Sound(mem)' /\ Fine(mem)'
  <2>1. alone => Sound(mem)'
    BY <1>1 DEF RegistryInv, AloneInv, Sound, HasProjects, UniqueIds
  <2> QED
    BY <1>1, <2>1 DEF RegistryInv, AloneInv, Fine, There, Resolves, KeptApart, Enabled
<1>4. alone => (file # Torn => Load(file) = mem) /\ Fine(edit.next)
  BY <1>1 DEF RegistryInv, AloneInv
<1>5. CASE Fits(file)
  <2>1. edit' = [step |-> "read", doc |-> Edited(file), next |-> edit.next]
    BY <1>5 DEF ReadFile
  <2>2. file \in Documents /\ Edited(file) \in Documents /\ edit.next \in Registries
    BY <1>1, <1>5, EditedType, ChangeType DEF Fits
  <2>3. alone => Load(Edited(file)) = edit.next
    BY <1>1, <1>4, <1>5, <2>2, EditedLoads DEF Fits
  <2> DEFINE new == Edited(file)
             next == edit.next
  <2>4. /\ edit' = [step |-> "read", doc |-> new, next |-> next]
        /\ new \in Documents /\ next \in Registries /\ Sound(next)
        /\ alone => Load(new) = next /\ Fine(next)
    BY <1>1, <1>4, <2>1, <2>2, <2>3
  <2> HIDE DEF new, next
  <2>5. /\ edit'.step = "read" /\ edit'.doc = new /\ edit'.next = next
        /\ edit' = [step |-> edit'.step, doc |-> edit'.doc, next |-> edit'.next]
    BY <2>4
  <2>6. RegistryType'
    BY <1>1, <2>5 DEF RegistryInv, RegistryType
  <2>7. EditInv'
    <3>1. Sound(edit.next)'
      BY <2>4, <2>5
    <3> QED
      BY <1>1, <2>4, <2>5, <3>1 DEF EditInv
  <2>8. AloneInv'
    <3>1. alone => Fine(edit.next)'
      BY <1>1, <2>4, <2>5 DEF Fine, There, Resolves, KeptApart, Enabled
    <3> QED
      BY <1>1, <1>3, <1>4, <2>4, <2>5, <3>1 DEF AloneInv
  <2> QED
    BY <1>2, <2>6, <2>7, <2>8 DEF RegistryInv
<1>6. CASE ~Fits(file)
  <2>1. edit'.step = "idle"
    BY <1>6 DEF ReadFile, Idle
  <2>2. RegistryType'
    BY <1>1, <2>1 DEF RegistryInv, RegistryType
  <2>3. EditInv' /\ AloneInv'
    BY <1>1, <1>3, <1>4, <2>1 DEF EditInv, AloneInv
  <2> QED
    BY <1>2, <2>2, <2>3 DEF RegistryInv
<1> QED
  BY <1>5, <1>6

LEMMA TruncateRegistry == RegistryInv /\ Truncate => RegistryInv'
<1> SUFFICES ASSUME RegistryInv, Truncate PROVE RegistryInv'
  OBVIOUS
<1>1. /\ edit.step = "read" /\ up /\ Sound(edit.next)
      /\ edit = [step |-> edit.step, doc |-> edit.doc, next |-> edit.next]
      /\ edit.doc \in Documents /\ edit.next \in Registries
      /\ up' = up /\ mem' = mem /\ file' = Torn /\ workflow' = workflow /\ save' = save
      /\ alone' = alone /\ edits' = edits /\ hands' = hands /\ saves' = saves
      /\ edit' = [edit EXCEPT !.step = "open"]
  BY DEF Truncate, RegistryInv, EditInv
<1>2. /\ edit'.step = "open" /\ edit'.doc = edit.doc /\ edit'.next = edit.next
      /\ edit' = [step |-> edit'.step, doc |-> edit'.doc, next |-> edit'.next]
  BY <1>1
<1>3. MemoryIsSound' /\ SavesInv' /\ RegistryType'
  BY <1>1, <1>2 DEF RegistryInv, MemoryIsSound, SavesInv, RegistryType
<1>4. EditInv'
  <2>1. Sound(edit.next)'
    BY <1>1, <1>2
  <2> QED
    BY <1>1, <1>2, <2>1 DEF EditInv
<1>5. AloneInv'
  <2>1. alone => Fine(mem)' /\ Fine(edit.next)'
    BY <1>1, <1>2 DEF RegistryInv, AloneInv, Fine, There, Resolves, KeptApart, Enabled
  <2> QED
    BY <1>1, <1>2, <2>1 DEF RegistryInv, AloneInv
<1> QED
  BY <1>3, <1>4, <1>5 DEF RegistryInv

LEMMA WriteRegistry == RegistryInv /\ Write => RegistryInv'
<1> SUFFICES ASSUME RegistryInv, Write PROVE RegistryInv'
  OBVIOUS
<1>1. /\ edit.step = "open" /\ up /\ Sound(edit.next)
      /\ edit.doc \in Documents /\ edit.next \in Registries
      /\ up' = up /\ mem' = edit.next /\ file' = edit.doc /\ workflow' = workflow
      /\ save' = save /\ alone' = alone
      /\ edits' = edits /\ hands' = hands /\ saves' = saves
      /\ edit'.step = "idle"
  BY DEF Write, RegistryInv, EditInv, Idle
<1>2. RegistryType'
  BY <1>1 DEF RegistryInv, RegistryType
<1>3. EditInv' /\ MemoryIsSound' /\ SavesInv'
  BY <1>1 DEF EditInv, MemoryIsSound, Sound, RegistryInv, SavesInv
<1>4. AloneInv'
  <2>1. alone => Fine(mem)'
    BY <1>1 DEF RegistryInv, AloneInv, Fine, There, Resolves, KeptApart, Enabled
  <2>2. alone => file' # Torn /\ Load(edit.doc) = edit.next
    BY <1>1, NamesAssumption DEF RegistryInv, AloneInv
  <2> QED
    BY <1>1, <2>1, <2>2 DEF RegistryInv, AloneInv
<1> QED
  BY <1>2, <1>3, <1>4 DEF RegistryInv

(* An edit goes on, or is given up, while its file and its registry stay.  *)
LEMMA OtherRegistry ==
  ASSUME RegistryInv, up' = up, mem' = mem, edit' = edit \/ edit'.step = "idle",
         file' \in Documents \cup {Torn}, alone' \in BOOLEAN,
         edits' \in 0 .. MaxEdits, hands' \in 0 .. MaxHands, saves' \in 0 .. MaxSaves,
         \A i \in Ids : save'[i] # NoSave => saves' > 0,
         alone' => /\ alone /\ file' = file /\ Fine(mem)'
                   /\ edit'.step # "idle" => Fine(edit.next)'
  PROVE  RegistryInv'
<1>1. RegistryType'
  BY DEF RegistryInv, RegistryType
<1>2. MemoryIsSound' /\ SavesInv'
  BY DEF RegistryInv, MemoryIsSound, SavesInv
<1>3. EditInv'
  <2>1. CASE edit' = edit
    <3>1. Sound(edit.next) => Sound(edit.next)'
      BY <2>1 DEF Sound, HasProjects, UniqueIds
    <3>2. Change => Change'
      BY <2>1 DEF Change, Created, Updated, Deleted, Place, Applied
    <3> QED
      BY <2>1, <3>1, <3>2 DEF RegistryInv, EditInv
  <2>2. CASE edit'.step = "idle"
    BY <2>2 DEF EditInv
  <2> QED
    BY <2>1, <2>2
<1>4. AloneInv'
  <2> SUFFICES ASSUME alone' PROVE AloneInv'
    BY DEF AloneInv
  <2>1. /\ file # Torn => edit.step # "open" /\ Load(file) = mem
        /\ edit.step \in {"read", "open"} => Load(edit.doc) = edit.next
    BY DEF RegistryInv, AloneInv
  <2>2. Sound(mem)'
    BY DEF RegistryInv, AloneInv, Sound, HasProjects, UniqueIds
  <2>3. CASE edit' = edit
    BY <2>1, <2>2, <2>3 DEF AloneInv
  <2>4. CASE edit'.step = "idle"
    BY <2>1, <2>2, <2>4 DEF AloneInv
  <2> QED
    BY <2>3, <2>4
<1> QED
  BY <1>1, <1>2, <1>3, <1>4 DEF RegistryInv

(* A registry that is fit to be started with stays so: no workflow file is *)
(* written, or one is by a save, with settings that resolve.               *)
LEMMA FineStays ==
  ASSUME NEW reg \in Registries, Fine(reg), workflow \in [Workflows -> Contents \cup {Missing, Invalid}],
         \/ UNCHANGED workflow /\ (saves' = saves \/ saves' > 0)
         \/ /\ saves' > 0
            /\ \E w \in Workflows, c \in Contents : workflow' = [workflow EXCEPT ![w] = c]
  PROVE  /\ \A n \in DOMAIN reg.projects : workflow'[reg.projects[n].workflow] # Missing
         /\ \A n \in Enabled(reg) : workflow'[reg.projects[n].workflow] \in Contents
         /\ saves' = 0 =>
              \/ reg.overlap
              \/ \A n, k \in Enabled(reg) :
                   n < k => <<workflow'[reg.projects[n].workflow],
                              workflow'[reg.projects[k].workflow]>> \notin Overlapping
<1>1. \A n \in DOMAIN reg.projects : reg.projects[n].workflow \in Workflows
  <2>1. \A n \in DOMAIN reg.projects : reg.projects[n] \in Projects
    BY RegistryFields
  <2> QED
    BY <2>1 DEF Projects
<1>2. \A v \in Workflows : workflow'[v] = workflow[v] \/ (saves' > 0 /\ workflow'[v] \in Contents)
  OBVIOUS
<1>3. saves' = 0 => UNCHANGED workflow /\ saves = 0
  OBVIOUS
<1> QED
  BY <1>1, <1>2, <1>3, RegistryAssumption DEF Fine, There, Resolves, KeptApart, Enabled

(* The same of the registries in memory and in the edit.                   *)
LEMMA FineStaysHere ==
  ASSUME RegistryInv, RuntimeType, mem' = mem, edit' = edit \/ edit'.step = "idle",
         \/ UNCHANGED workflow /\ (saves' = saves \/ saves' > 0)
         \/ /\ saves' > 0
            /\ \E w \in Workflows, c \in Contents : workflow' = [workflow EXCEPT ![w] = c],
         alone
  PROVE  Fine(mem)' /\ (edit'.step # "idle" => Fine(edit.next)')
<1>1. /\ workflow \in [Workflows -> Contents \cup {Missing, Invalid}]
      /\ mem \in Registries /\ Fine(mem)
      /\ edit.step # "idle" => edit.next \in Registries /\ Fine(edit.next)
  BY ChangeType DEF RuntimeType, RegistryInv, RegistryType, EditInv, AloneInv
<1>2. Fine(mem)'
  BY <1>1, FineStays DEF Fine, There, Resolves, KeptApart, Enabled
<1>3. ASSUME edit'.step # "idle" PROVE Fine(edit.next)'
  BY <1>1, <1>3, FineStays DEF Fine, There, Resolves, KeptApart, Enabled
<1> QED
  BY <1>2, <1>3

-----------------------------------------------------------------------------
(* The project half.                                                       *)

LEMMA RuntimeInit == Init => RuntimeInv
<1> SUFFICES ASSUME Init PROVE RuntimeInv
  OBVIOUS
<1>1. /\ up \in BOOLEAN /\ workflow \in [Workflows -> Contents \cup {Missing, Invalid}]
      /\ inForce = [i \in Ids |-> Stopped] /\ save = [i \in Ids |-> NoSave]
      /\ watched = {} /\ notices = {} /\ lagging = {}
  BY FilesAssumption DEF Init
<1>2. RuntimeType
  BY <1>1 DEF RuntimeType, Running
<1> QED
  BY <1>1, <1>2 DEF RuntimeInv, SaveInv, ConfigFollowsFile, Running

LEMMA ResolveType ==
  ASSUME NEW reg \in Registries, NEW p \in Projects, NEW content \in Contents
  PROVE  /\ Resolve(reg, p, content) \in [content : Contents, limit : Nat]
         /\ Resolve(reg, p, content).content = content
<1>1. p.limit \in Nat /\ OwnLimit[content] \in Nat /\ reg.default \in Nat
  BY RegistryFields, RegistryAssumption DEF Projects
<1> QED
  BY <1>1 DEF Resolve

(* Every project that is started runs by its file.                         *)
LEMMA StartRuntime == IInv /\ Start => RuntimeInv'
<1> SUFFICES ASSUME IInv, Start PROVE RuntimeInv'
  OBVIOUS
<1> DEFINE reg == Load(file)
<1>1. /\ ~up /\ Loads(file) /\ ValidateProjectIsolation(reg) /\ file \in Documents
      /\ up' = TRUE /\ workflow' = workflow /\ watched' = watched /\ notices' = notices
      /\ save' = save /\ lagging' = lagging
      /\ RuntimeType
  BY DEF Start, IInv, RegistryInv, RegistryType, RuntimeInv, Loads
<1>2. /\ watched = {} /\ notices = {} /\ lagging = {}
      /\ \A i \in Ids : save[i] = NoSave
  BY <1>1 DEF RuntimeType
<1>3. /\ reg \in Registries /\ reg.projects \in Seq(Projects)
      /\ DOMAIN reg.projects \subseteq Nat
      /\ \A n \in DOMAIN reg.projects : reg.projects[n] \in Projects
  BY <1>1, LoadType, RegistryFields
<1>4. PICK started \in SUBSET Enabled(reg) \ {{}} :
        inForce' = [i \in Ids |->
          LET ns == {n \in started : reg.projects[n].id = i} IN
          IF ns = {} THEN Stopped
          ELSE LET p == reg.projects[FirstOf(ns)] IN
               [project |-> p, config |-> Resolve(reg, p, workflow[p.workflow])]]
  BY DEF Start
<1> HIDE DEF reg
<1>5. ASSUME NEW i \in Ids
      PROVE  \/ inForce'[i] = Stopped
             \/ /\ inForce'[i] \in Runtimes
                /\ inForce'[i].config.content = workflow[inForce'[i].project.workflow]
  <2> DEFINE ns == {n \in started : reg.projects[n].id = i}
             p == reg.projects[FirstOf(ns)]
  <2>1. CASE ns = {}
    BY <1>4, <2>1
  <2>2. CASE ns # {}
    <3>1. ns \in SUBSET Nat /\ ns \subseteq Enabled(reg)
      BY <1>3, <1>4 DEF Enabled
    <3>2. inForce'[i] = [project |-> p, config |-> Resolve(reg, p, workflow[p.workflow])]
      BY <1>4, <2>2
    <3> HIDE DEF ns
    <3>3. FirstOf(ns) \in Enabled(reg)
      BY <2>2, <3>1, FirstOfIn
    <3>4. p \in Projects /\ workflow[p.workflow] \in Contents
      BY <1>1, <1>3, <3>3 DEF Enabled, ValidateProjectIsolation, Resolves
    <3> HIDE DEF p
    <3>5. /\ Resolve(reg, p, workflow[p.workflow]) \in [content : Contents, limit : Nat]
          /\ Resolve(reg, p, workflow[p.workflow]).content = workflow[p.workflow]
      BY <1>3, <3>4, ResolveType
    <3> QED
      BY <3>2, <3>4, <3>5 DEF Runtimes
  <2> QED
    BY <2>1, <2>2
<1>6. inForce' \in [Ids -> Runtimes \cup {Stopped}]
  <2>1. DOMAIN inForce' = Ids /\ inForce' = [i \in DOMAIN inForce' |-> inForce'[i]]
    BY <1>4
  <2> QED
    BY <1>5, <2>1
<1>7. RuntimeType'
  BY <1>1, <1>2, <1>6 DEF RuntimeType, Running
<1>8. SaveInv' /\ ConfigFollowsFile'
  BY <1>1, <1>2, <1>5 DEF SaveInv, ConfigFollowsFile, Running, FileOf
<1> QED
  BY <1>7, <1>8 DEF RuntimeInv

LEMMA CrashRuntime == RuntimeInv /\ Crash => RuntimeInv'
<1> SUFFICES ASSUME RuntimeInv, Crash PROVE RuntimeInv'
  OBVIOUS
<1>1. RuntimeType'
  BY DEF Crash, RuntimeInv, RuntimeType, Running
<1> QED
  BY <1>1 DEF Crash, RuntimeInv, SaveInv, ConfigFollowsFile, Running

LEMMA RunningFields ==
  ASSUME RuntimeType, NEW i \in Ids, Running(i)
  PROVE  inForce[i] \in Runtimes /\ FileOf(i) \in Workflows
  BY DEF RuntimeType, Running, FileOf, Runtimes, Projects

(* A configuration is put in force for one project, whose file is the same. *)
LEMMA Applies ==
  ASSUME RuntimeType, mem \in Registries, NEW i \in Ids, Running(i),
         NEW content \in Contents, Apply(i, content)
  PROVE  /\ inForce' \in [Ids -> Runtimes \cup {Stopped}]
         /\ \A j \in Ids : /\ Running(j)' <=> Running(j)
                           /\ Running(j) => FileOf(j)' = FileOf(j)
                           /\ j # i => inForce'[j] = inForce[j]
         /\ inForce'[i].config.content = content
<1>1. inForce[i] \in Runtimes /\ inForce \in [Ids -> Runtimes \cup {Stopped}]
  BY RunningFields DEF RuntimeType
<1> DEFINE config == Resolve(mem, inForce[i].project, content)
<1>2. config \in [content : Contents, limit : Nat] /\ config.content = content
  BY <1>1, ResolveType DEF Runtimes
<1>3. inForce' = [inForce EXCEPT ![i].config = config]
  BY DEF Apply
<1> HIDE DEF config
<1>4. inForce' = [inForce EXCEPT ![i] = [project |-> inForce[i].project, config |-> config]]
  <2>1. inForce' = [inForce EXCEPT ![i] = [inForce[i] EXCEPT !.config = config]]
    BY <1>3, Zenon
  <2>2. [inForce[i] EXCEPT !.config = config] =
          [project |-> inForce[i].project, config |-> config]
    BY <1>1 DEF Runtimes
  <2> QED
    BY <2>1, <2>2
<1>5. [project |-> inForce[i].project, config |-> config] \in Runtimes
  BY <1>1, <1>2 DEF Runtimes
<1> QED
  BY <1>1, <1>2, <1>4, <1>5, NamesAssumption DEF Running, FileOf

LEMMA WatchRuntime == ASSUME RuntimeInv, NEW i \in Ids, Watch(i) PROVE RuntimeInv'
<1>1. RuntimeType'
  BY DEF Watch, RuntimeInv, RuntimeType, Running
<1> QED
  BY <1>1 DEF Watch, RuntimeInv, SaveInv, ConfigFollowsFile, Running, FileOf

LEMMA ReloadRuntime ==
  ASSUME RuntimeInv, mem \in Registries, NEW i \in Ids, Reload(i)
  PROVE  RuntimeInv'
<1>1. /\ RuntimeType /\ i \in notices /\ Running(i) /\ save[i] = NoSave
      /\ notices' = notices \ {i} /\ watched' = watched /\ save' = save
      /\ up' = up /\ workflow' = workflow
  BY DEF Reload, RuntimeInv, RuntimeType
<1>2. CASE /\ workflow[FileOf(i)] \in Contents /\ Apply(i, workflow[FileOf(i)])
           /\ lagging' = lagging \ {i}
  <2>1. /\ inForce' \in [Ids -> Runtimes \cup {Stopped}]
        /\ \A j \in Ids : /\ Running(j)' <=> Running(j)
                          /\ Running(j) => FileOf(j)' = FileOf(j)
                          /\ j # i => inForce'[j] = inForce[j]
        /\ inForce'[i].config.content = workflow[FileOf(i)]
    BY <1>1, <1>2, Applies
  <2>2. RuntimeType'
    BY <1>1, <1>2, <2>1 DEF RuntimeType
  <2>3. ASSUME NEW j \in Ids, save[j] # NoSave
        PROVE  /\ inForce'[j].config.content = save[j].content
               /\ j \notin notices' \cup lagging' => workflow[FileOf(j)'] = save[j].before
    <3>1. j # i /\ Running(j)
      BY <1>1, <2>3 DEF RuntimeType
    <3> QED
      BY <1>1, <1>2, <2>1, <2>3, <3>1 DEF RuntimeInv, SaveInv
  <2>4. SaveInv'
    BY <1>1, <2>3 DEF SaveInv
  <2>5. ASSUME NEW j \in Ids \ (notices' \cup lagging'), Running(j)', save[j] = NoSave,
               workflow[FileOf(j)'] \in Contents
        PROVE  inForce'[j].config.content = workflow[FileOf(j)']
    <3>1. CASE j = i
      BY <1>1, <2>1, <3>1
    <3>2. CASE j # i
      BY <1>1, <1>2, <2>1, <2>5, <3>2 DEF RuntimeInv, ConfigFollowsFile
    <3> QED
      BY <3>1, <3>2
  <2>6. ConfigFollowsFile'
    BY <1>1, <2>5 DEF ConfigFollowsFile
  <2> QED
    BY <2>2, <2>4, <2>6 DEF RuntimeInv
<1>3. CASE lagging' = lagging \cup {i} /\ inForce' = inForce
  <2>1. RuntimeType'
    BY <1>1, <1>3 DEF RuntimeType, Running
  <2> QED
    BY <1>1, <1>3, <2>1 DEF RuntimeInv, SaveInv, ConfigFollowsFile, Running, FileOf
<1> QED
  BY <1>2, <1>3 DEF Reload

LEMMA ApplyRuntime ==
  ASSUME RuntimeInv, mem \in Registries, NEW i \in Ids, NEW content \in Contents,
         ApplySettings(i, content)
  PROVE  RuntimeInv'
<1> DEFINE new == [before |-> workflow[FileOf(i)], content |-> content]
<1>1. /\ RuntimeType /\ Running(i) /\ save[i] = NoSave /\ workflow[FileOf(i)] # Missing
      /\ notices' = notices /\ watched' = watched /\ lagging' = lagging
      /\ save' = [save EXCEPT ![i] = new]
      /\ up' = up /\ workflow' = workflow /\ Apply(i, content)
  BY DEF ApplySettings, RuntimeInv
<1>2. FileOf(i) \in Workflows /\ new \in Saves /\ new # NoSave
  <2>1. FileOf(i) \in Workflows
    BY <1>1, RunningFields
  <2>2. workflow[FileOf(i)] \in Contents \cup {Invalid}
    BY <1>1, <2>1 DEF RuntimeType
  <2>3. new \in Saves
    BY <2>2 DEF Saves
  <2> QED
    BY <2>1, <2>3, NamesAssumption
<1>3. /\ inForce' \in [Ids -> Runtimes \cup {Stopped}]
      /\ \A j \in Ids : /\ Running(j)' <=> Running(j)
                        /\ Running(j) => FileOf(j)' = FileOf(j)
                        /\ j # i => inForce'[j] = inForce[j]
      /\ inForce'[i].config.content = content
  BY <1>1, Applies
<1>4. /\ save' \in [Ids -> Saves \cup {NoSave}]
      /\ save'[i] = new /\ \A j \in Ids : j # i => save'[j] = save[j]
  BY <1>1, <1>2 DEF RuntimeType
<1>5. new.before = workflow[FileOf(i)] /\ new.content = content
  OBVIOUS
<1> HIDE DEF new
<1>6. RuntimeType'
  BY <1>1, <1>3, <1>4 DEF RuntimeType
<1>7. ASSUME NEW j \in Ids, save'[j] # NoSave
      PROVE  /\ inForce'[j].config.content = save'[j].content
             /\ j \notin notices \cup lagging => workflow[FileOf(j)'] = save'[j].before
  <2>1. CASE j = i
    BY <1>1, <1>3, <1>4, <1>5, <2>1
  <2>2. CASE j # i
    <3>1. save[j] # NoSave /\ Running(j)
      BY <1>1, <1>4, <1>7, <2>2 DEF RuntimeType
    <3> QED
      BY <1>3, <1>4, <2>2, <3>1 DEF RuntimeInv, SaveInv
  <2> QED
    BY <2>1, <2>2
<1>8. SaveInv'
  BY <1>1, <1>7 DEF SaveInv
<1>9. ASSUME NEW j \in Ids \ (notices \cup lagging), Running(j)', save'[j] = NoSave,
             workflow[FileOf(j)'] \in Contents
      PROVE  inForce'[j].config.content = workflow[FileOf(j)']
  <2>1. j # i
    BY <1>2, <1>4, <1>9
  <2> QED
    BY <1>3, <1>4, <1>9, <2>1 DEF RuntimeInv, ConfigFollowsFile
<1>10. ConfigFollowsFile'
  BY <1>1, <1>9 DEF ConfigFollowsFile
<1> QED
  BY <1>6, <1>8, <1>10 DEF RuntimeInv

(* A workflow file is written.  Every runtime that reads it has an event,  *)
(* or missed it, except the one whose new settings they are.               *)
LEMMA WrittenRuntime ==
  ASSUME RuntimeInv, NEW w \in Workflows, NEW content \in Contents \cup {Missing, Invalid},
         NEW saver,
         workflow' = [workflow EXCEPT ![w] = content],
         notices' = notices \cup (ReadBy(w) \cap watched),
         lagging' = (lagging \cup (ReadBy(w) \ watched)) \ {saver},
         up' = up, inForce' = inForce, watched' = watched,
         save' \in [Ids -> Saves \cup {NoSave}],
         \A j \in Ids : j # saver => save'[j] = save[j],
         saver \in Ids => /\ Running(saver) /\ save'[saver] = NoSave
                          /\ inForce[saver].config.content = content /\ FileOf(saver) = w
  PROVE  RuntimeInv'
<1>1. \A j \in Ids : (Running(j)' <=> Running(j)) /\ FileOf(j)' = FileOf(j)
  BY DEF Running, FileOf
<1>2. RuntimeType /\ ReadBy(w) \subseteq {j \in Ids : Running(j)}
  BY DEF RuntimeInv, ReadBy
<1>3. RuntimeType'
  <2>1. workflow' \in [Workflows -> Contents \cup {Missing, Invalid}]
    BY <1>2 DEF RuntimeType
  <2>2. \A j \in Ids : save'[j] # NoSave => Running(j)
    BY <1>2 DEF RuntimeType
  <2>3. notices' \subseteq watched' /\ watched' \cup lagging' \subseteq {j \in Ids : Running(j)}
    BY <1>2 DEF RuntimeType
  <2> QED
    BY <1>1, <1>2, <2>1, <2>2, <2>3 DEF RuntimeType
<1>4. \A j \in Ids : Running(j) /\ j # saver /\ j \notin notices' \cup lagging' =>
         /\ j \notin notices \cup lagging
         /\ FileOf(j) # w
         /\ workflow'[FileOf(j)] = workflow[FileOf(j)]
  <2>1. \A j \in Ids : Running(j) => FileOf(j) \in Workflows
    BY <1>2, RunningFields
  <2> QED
    BY <1>2, <2>1 DEF RuntimeType, ReadBy
<1>5. SaveInv'
  <2> SUFFICES ASSUME NEW j \in Ids, save'[j] # NoSave
               PROVE  /\ inForce'[j].config.content = save'[j].content
                      /\ j \notin notices' \cup lagging' => workflow'[FileOf(j)'] = save'[j].before
    BY DEF SaveInv
  <2>1. j # saver /\ save'[j] = save[j] /\ Running(j)
    BY <1>2 DEF RuntimeType
  <2> QED
    BY <1>1, <1>4, <2>1 DEF RuntimeInv, SaveInv
<1>6. ConfigFollowsFile'
  <2> SUFFICES ASSUME NEW j \in Ids \ (notices' \cup lagging'), Running(j), save'[j] = NoSave,
                      workflow'[FileOf(j)] \in Contents
               PROVE  inForce[j].config.content = workflow'[FileOf(j)]
    BY <1>1 DEF ConfigFollowsFile
  <2>1. CASE j = saver
    BY <1>2, <2>1 DEF RuntimeType
  <2>2. CASE j # saver
    BY <1>4, <2>2 DEF RuntimeInv, ConfigFollowsFile
  <2> QED
    BY <2>1, <2>2
<1> QED
  BY <1>3, <1>5, <1>6 DEF RuntimeInv

LEMMA SavedRuntime == ASSUME RuntimeInv, NEW i \in Ids, SettingsSaved(i) PROVE RuntimeInv'
<1>1. /\ save[i] # NoSave /\ Running(i) /\ save[i] \in Saves
      /\ inForce[i].config.content = save[i].content
      /\ RuntimeType /\ FileOf(i) \in Workflows
  BY RunningFields DEF SettingsSaved, RuntimeInv, RuntimeType, SaveInv
<1>2. save[i].content \in Contents \cup {Missing, Invalid}
  BY <1>1 DEF Saves
<1>3. /\ save' \in [Ids -> Saves \cup {NoSave}] /\ save'[i] = NoSave
      /\ \A j \in Ids : j # i => save'[j] = save[j]
  BY <1>1 DEF SettingsSaved, RuntimeType
<1> QED
  BY <1>1, <1>2, <1>3, WrittenRuntime DEF SettingsSaved

LEMMA NotSavedRuntime ==
  ASSUME RuntimeInv, mem \in Registries, NEW i \in Ids, SettingsNotSaved(i)
  PROVE  RuntimeInv'
<1>1. /\ save[i] # NoSave /\ Running(i) /\ RuntimeType
      /\ up' = up /\ workflow' = workflow /\ watched' = watched /\ notices' = notices
  BY DEF SettingsNotSaved, RuntimeInv, RuntimeType
<1>2. /\ save' \in [Ids -> Saves \cup {NoSave}] /\ save'[i] = NoSave
      /\ \A j \in Ids : j # i => save'[j] = save[j]
  BY <1>1 DEF SettingsNotSaved, RuntimeType
<1>3. CASE save[i].before \in Contents /\ Apply(i, save[i].before) /\ lagging' = lagging
  <2>1. /\ inForce' \in [Ids -> Runtimes \cup {Stopped}]
        /\ \A j \in Ids : /\ Running(j)' <=> Running(j)
                          /\ Running(j) => FileOf(j)' = FileOf(j)
                          /\ j # i => inForce'[j] = inForce[j]
        /\ inForce'[i].config.content = save[i].before
    BY <1>1, <1>3, Applies
  <2>2. RuntimeType'
    BY <1>1, <1>2, <1>3, <2>1 DEF RuntimeType
  <2>3. SaveInv'
    BY <1>1, <1>2, <1>3, <2>1 DEF RuntimeInv, RuntimeType, SaveInv
  <2>4. ASSUME NEW j \in Ids \ (notices \cup lagging), Running(j)', save'[j] = NoSave,
               workflow[FileOf(j)'] \in Contents
        PROVE  inForce'[j].config.content = workflow[FileOf(j)']
    <3>1. CASE j = i
      BY <1>1, <2>1, <2>4, <3>1 DEF RuntimeInv, SaveInv
    <3>2. CASE j # i
      BY <1>2, <2>1, <2>4, <3>2 DEF RuntimeInv, ConfigFollowsFile
    <3> QED
      BY <3>1, <3>2
  <2>5. ConfigFollowsFile'
    BY <1>1, <1>3, <2>4 DEF ConfigFollowsFile
  <2> QED
    BY <2>2, <2>3, <2>5 DEF RuntimeInv
<1>4. CASE lagging' = lagging \cup {i} /\ inForce' = inForce
  <2>1. RuntimeType'
    BY <1>1, <1>2, <1>4 DEF RuntimeType, Running
  <2>2. SaveInv'
    BY <1>1, <1>2, <1>4 DEF RuntimeInv, SaveInv, FileOf
  <2>3. ConfigFollowsFile'
    BY <1>1, <1>2, <1>4 DEF RuntimeInv, ConfigFollowsFile, Running, FileOf
  <2> QED
    BY <2>1, <2>2, <2>3 DEF RuntimeInv
<1> QED
  BY <1>3, <1>4 DEF SettingsNotSaved

LEMMA HandRuntime == RuntimeInv /\ HandWorkflow => RuntimeInv'
<1> SUFFICES ASSUME RuntimeInv, HandWorkflow PROVE RuntimeInv'
  OBVIOUS
<1>1. PICK w \in Workflows, c \in Contents \cup {Missing, Invalid} :
        workflow' = [workflow EXCEPT ![w] = c] /\ Notify(w)
  BY DEF HandWorkflow
<1>2. PICK none : none \notin Ids \cup lagging \cup ReadBy(w)
  BY NoSetContainsEverything
<1>3. /\ notices' = notices \cup (ReadBy(w) \cap watched)
      /\ lagging' = (lagging \cup (ReadBy(w) \ watched)) \ {none}
  BY <1>1, <1>2 DEF Notify
<1>4. /\ up' = up /\ inForce' = inForce /\ watched' = watched /\ save' = save
      /\ save' \in [Ids -> Saves \cup {NoSave}]
  BY DEF HandWorkflow, RuntimeInv, RuntimeType
<1> QED
  BY <1>1, <1>2, <1>3, <1>4, WrittenRuntime

LEMMA OtherRuntime ==
  RuntimeInv /\ up' = up /\ workflow' = workflow /\ UNCHANGED following => RuntimeInv'
  BY DEF RuntimeInv, RuntimeType, SaveInv, ConfigFollowsFile, Running, FileOf

-----------------------------------------------------------------------------
(* The steps, and the theorems.                                            *)

LEMMA RegistryNext == IInv /\ [Next]_vars => RegistryInv'
<1> SUFFICES ASSUME IInv, [Next]_vars PROVE RegistryInv'
  OBVIOUS
<1>1. /\ RegistryInv /\ RegistryType /\ RuntimeType
      /\ file \in Documents \cup {Torn} /\ alone \in BOOLEAN
      /\ edits \in 0 .. MaxEdits /\ hands \in 0 .. MaxHands /\ saves \in 0 .. MaxSaves
      /\ save \in [Ids -> Saves \cup {NoSave}]
      /\ \A i \in Ids : save[i] # NoSave => saves > 0
  BY DEF IInv, RegistryInv, RegistryType, RuntimeInv, RuntimeType, SavesInv
<1>2. CASE Start \/ Crash
  BY <1>1, <1>2, StartRegistry, CrashRegistry
<1>3. ASSUME NEW i \in Ids, Watch(i) \/ Reload(i) \/ SettingsNotSaved(i) PROVE RegistryInv'
  <2>1. /\ up' = up /\ mem' = mem /\ file' = file /\ workflow' = workflow /\ edit' = edit
        /\ alone' = alone /\ edits' = edits /\ hands' = hands /\ saves' = saves
        /\ save' = save \/ save' = [save EXCEPT ![i] = NoSave]
    BY <1>3 DEF Watch, Reload, SettingsNotSaved
  <2>2. \A j \in Ids : save'[j] # NoSave => saves' > 0
    BY <1>1, <2>1
  <2> QED
    BY <1>1, <2>1, <2>2, FineStaysHere, OtherRegistry
<1>4. ASSUME NEW i \in Ids, SettingsSaved(i) PROVE RegistryInv'
  <2>1. /\ save[i] \in Saves /\ Running(i) /\ saves > 0
        /\ up' = up /\ mem' = mem /\ file' = file /\ edit' = edit
        /\ alone' = alone /\ edits' = edits /\ hands' = hands /\ saves' = saves
        /\ workflow' = [workflow EXCEPT ![FileOf(i)] = save[i].content]
        /\ save' = [save EXCEPT ![i] = NoSave]
    BY <1>1, <1>4 DEF SettingsSaved, RuntimeType
  <2>2. save[i].content \in Contents /\ FileOf(i) \in Workflows
    BY <1>1, <2>1, RunningFields DEF Saves
  <2>3. \A j \in Ids : save'[j] # NoSave => saves' > 0
    BY <2>1
  <2> QED
    BY <1>1, <2>1, <2>2, <2>3, FineStaysHere, OtherRegistry
<1>5. ASSUME NEW i \in Ids, NEW c \in Contents, ApplySettings(i, c) PROVE RegistryInv'
  <2>1. saves' \in 0 .. MaxSaves /\ saves' > 0
    BY <1>1, <1>5, RegistryAssumption DEF ApplySettings
  <2> QED
    BY <1>1, <1>5, <2>1, FineStaysHere, OtherRegistry DEF ApplySettings
<1>6. CASE Api
  <2>1. CASE ReadFile \/ Truncate \/ Write
    BY <1>1, <2>1, ReadRegistry, TruncateRegistry, WriteRegistry
  <2>2. CASE WriteFails
    <3>1. edit'.step = "idle"
      BY <2>2 DEF WriteFails, Idle
    <3> QED
      BY <1>1, <2>2, <3>1, FineStaysHere, OtherRegistry DEF WriteFails
  <2> QED
    BY <1>1, <1>6, <2>1, <2>2, CreateRegistry, UpdateRegistry, DeleteRegistry,
       SettingsRegistry DEF Api
<1>7. CASE HandEdit
  <2>1. file' \in Documents \cup {Torn} /\ hands' \in 0 .. MaxHands
    BY <1>1, <1>7, FilesAssumption, RegistryAssumption DEF HandEdit
  <2> QED
    BY <1>1, <1>7, <2>1, OtherRegistry DEF HandEdit
<1>8. CASE HandWorkflow
  <2>1. hands' \in 0 .. MaxHands
    BY <1>1, <1>8, RegistryAssumption DEF HandWorkflow
  <2> QED
    BY <1>1, <1>8, <2>1, OtherRegistry DEF HandWorkflow
<1>9. CASE UNCHANGED vars
  BY <1>1, <1>9, FineStaysHere, OtherRegistry DEF vars
<1> QED
  BY <1>2, <1>3, <1>4, <1>5, <1>6, <1>7, <1>8, <1>9 DEF Next, Process

LEMMA RuntimeNext == IInv /\ [Next]_vars => RuntimeInv'
<1> SUFFICES ASSUME IInv, [Next]_vars PROVE RuntimeInv'
  OBVIOUS
<1>1. RuntimeInv /\ mem \in Registries
  BY DEF IInv, RegistryInv, RegistryType
<1>2. CASE Start \/ Crash
  BY <1>1, <1>2, StartRuntime, CrashRuntime
<1>3. ASSUME NEW i \in Ids,
             \/ Watch(i) \/ Reload(i) \/ SettingsSaved(i) \/ SettingsNotSaved(i)
             \/ \E c \in Contents : ApplySettings(i, c)
      PROVE  RuntimeInv'
  BY <1>1, <1>3, WatchRuntime, ReloadRuntime, SavedRuntime, NotSavedRuntime, ApplyRuntime
<1>4. CASE Api
  <2>1. up' = up /\ workflow' = workflow /\ UNCHANGED following
    BY <1>4 DEF Api, CreateProject, UpdateProject, DeleteProject, UpdateSettings, Accept,
         ReadFile, Truncate, Write, WriteFails
  <2> QED
    BY <1>1, <2>1, OtherRuntime
<1>5. CASE HandEdit
  BY <1>1, <1>5, OtherRuntime DEF HandEdit
<1>6. CASE HandWorkflow
  BY <1>1, <1>6, HandRuntime
<1>7. CASE UNCHANGED vars
  BY <1>1, <1>7, OtherRuntime DEF vars
<1> QED
  BY <1>2, <1>3, <1>4, <1>5, <1>6, <1>7 DEF Next, Process

(* In every reachable state an edit under way, the file it will write and   *)
(* the memory it will leave are consistent, and so is every runtime with   *)
(* the workflow file it follows.                                           *)
THEOREM RegistryInvariant == Spec => []IInv
<1>1. Init => IInv
  BY RegistryInit, RuntimeInit DEF IInv
<1>2. IInv /\ [Next]_vars => IInv'
  BY RegistryNext, RuntimeNext DEF IInv
<1> QED
  BY <1>1, <1>2, PTL DEF Spec

(* Every variable keeps its type; a runtime and its watcher exist only while *)
(* the process does.                                                        *)
THEOREM RegistryTypeOK == Spec => []TypeOK
<1>1. IInv => TypeOK
  BY TypeSplit DEF IInv, RegistryInv, RuntimeInv
<1> QED
  BY <1>1, RegistryInvariant, PTL

(* Between edits simphony.yaml says, field by field, what the registry in    *)
(* memory says, whatever the API's edits were, wherever they failed and      *)
(* wherever the process ended, unless the file's writing was cut short: what *)
(* is written, as it is read back, is the change that was accepted.          *)
THEOREM RegistryFileIsMemory == Spec => []FileIsMemory
<1>1. IInv => FileIsMemory
  BY DEF IInv, RegistryInv, AloneInv, FileIsMemory
<1> QED
  BY <1>1, RegistryInvariant, PTL

(* The process could start again with the registry that the API left, three  *)
(* cases apart: a writing that was cut short, a registry whose last enabled  *)
(* project the API disabled or deleted, and workspace roots that came to     *)
(* overlap when a project's settings were saved.                             *)
THEOREM RegistryStartsAgain == Spec => []StartsAgain
<1>1. IInv => StartsAgain
  <2> SUFFICES ASSUME IInv, alone, edit = Idle, file # Torn
               PROVE  /\ Loads(file)
                      /\ Resolves(Load(file))
                      /\ KeptApart(Load(file)) \/ saves > 0
                      /\ Enabled(Load(file)) # {} \/ Enabled(mem) = {}
    BY DEF StartsAgain
  <2>1. /\ file \in Documents /\ file # Torn /\ Load(file) = mem
        /\ There(mem) /\ Sound(mem) /\ Resolves(mem) /\ (saves = 0 => KeptApart(mem))
        /\ saves \in Nat
    BY DEF IInv, RegistryInv, RegistryType, AloneInv, Fine
  <2>2. /\ file.projects \in Seq(Nodes)
        /\ Load(file).projects \in Seq(Projects)
        /\ Len(Load(file).projects) = Len(file.projects)
        /\ DOMAIN Load(file).projects = DOMAIN file.projects
        /\ \A n \in DOMAIN file.projects :
              Load(file).projects[n] = LoadProject(file.projects[n])
    BY <2>1, LoadType, RegistryFields DEF Documents
  <2>3. \A node : LoadProject(node).id = node.id /\ LoadProject(node).workflow = node.workflow
    BY DEF LoadProject
  <2>4. HasProjects(file)
    BY <2>1, <2>2, EmptySeq DEF Sound, HasProjects
  <2>5. UniqueIds(file)
    BY <2>1, <2>2, <2>3 DEF Sound, UniqueIds
  <2>6. \A n \in DOMAIN file.projects : workflow[file.projects[n].workflow] # Missing
    BY <2>1, <2>2, <2>3 DEF There
  <2>7. Loads(file)
    BY <2>1, <2>4, <2>5, <2>6 DEF Loads
  <2> QED
    BY <2>1, <2>7
<1> QED
  BY <1>1, RegistryInvariant, PTL

(* The registry in memory never has two projects of one id nor none at all,  *)
(* whatever people write into the files and wherever the process ends.       *)
THEOREM RegistryMemoryIsSound == Spec => []MemoryIsSound
<1>1. IInv => MemoryIsSound
  BY DEF IInv, RegistryInv
<1> QED
  BY <1>1, RegistryInvariant, PTL

(* A project runs by what its workflow file says, once its runtime has       *)
(* handled the events it got and saved the settings it applied.              *)
THEOREM RegistryConfigFollowsFile == Spec => []ConfigFollowsFile
<1>1. IInv => ConfigFollowsFile
  BY DEF IInv, RuntimeInv
<1> QED
  BY <1>1, RegistryInvariant, PTL
=============================================================================
