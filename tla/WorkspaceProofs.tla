-------------------------- MODULE WorkspaceProofs --------------------------
(***************************************************************************)
(* Proofs about Workspace, for any issues, workspace modes and numbers of  *)
(* commits and pushes.                                                     *)
(***************************************************************************)
EXTENDS Workspace, TLAPS

\* cur only names call.issue.
USE DEF cur

(* Trees and calls, field by field.                                        *)

LEMMA TreeFields ==
  ASSUME NEW tree \in Trees
  PROVE  /\ tree.issues \in Branches /\ tree.people \in 0..MaxPushes
         /\ \A i \in Issues : tree.issues[i] \in 0..MaxCommits
BY DEF Trees, Branches

LEMMA NothingFields ==
  Nothing \in Trees /\ \A i \in Issues : Nothing.issues[i] = 0
BY WorkspaceAssumption DEF Nothing, Trees, Branches

(* One branch of a tree is set, the rest stays.                            *)
LEMMA TreeUpdate ==
  ASSUME NEW tree \in Trees, NEW i \in Issues, NEW n \in 0..MaxCommits
  PROVE  LET new == [tree EXCEPT !.issues[i] = n] IN
         /\ new \in Trees
         /\ new.people = tree.people
         /\ new.issues[i] = n
         /\ \A j \in Issues \ {i} : new.issues[j] = tree.issues[j]
BY DEF Trees, Branches

LEMMA TreePush ==
  ASSUME NEW tree \in Trees, tree.people < MaxPushes
  PROVE  LET new == [tree EXCEPT !.people = @ + 1] IN
         new \in Trees /\ new.issues = tree.issues /\ new.people = tree.people + 1
BY WorkspaceAssumption DEF Trees

LEMMA ContainsItself == \A tree \in Trees : Contains(tree, tree)
BY DEF Contains, Trees, Branches

(* A tree with more of one branch contains what it contained.              *)
LEMMA ContainsMore ==
  ASSUME NEW tree \in Trees, NEW other \in Trees, NEW i \in Issues, NEW n \in 0..MaxCommits,
         Contains(tree, other), n >= other.issues[i]
  PROVE  Contains([tree EXCEPT !.issues[i] = n], other)
BY TreeUpdate DEF Contains

LEMMA CallFields ==
  /\ NoCall \in Calls /\ NoCall.issue = NoIssue /\ NoCall.before = Nothing
  /\ \A i \in Issues : /\ For(i) \in Calls /\ For(i).issue = i /\ For(i).before = Nothing
                       /\ [For(i) EXCEPT !.fresh = TRUE] \in Calls
                       /\ [For(i) EXCEPT !.fresh = TRUE].issue = i
                       /\ [For(i) EXCEPT !.fresh = TRUE].before = Nothing
<1>1. 0 \in 0..MaxCommits
  BY WorkspaceAssumption
<1>2. NoCall \in Calls /\ NoCall.issue = NoIssue /\ NoCall.before = Nothing
  BY <1>1, NothingFields DEF NoCall, Calls
<1>3. ASSUME NEW i \in Issues
      PROVE  For(i) \in Calls /\ For(i).issue = i /\ For(i).before = Nothing
  BY <1>2 DEF For, Calls
<1>4. ASSUME NEW i \in Issues
      PROVE  LET new == [For(i) EXCEPT !.fresh = TRUE] IN
             new \in Calls /\ new.issue = i /\ new.before = Nothing
  BY <1>3 DEF Calls
<1> QED
  BY <1>2, <1>3, <1>4

(* What a removal leaves at a path.                                        *)
SpacesOK ==
    /\ path \in [Issues -> {"absent", "debris", "tree"}]
    /\ dirty \in [Issues -> BOOLEAN]

LEMMA RemoveWorkspaceOK ==
  ASSUME SpacesOK, NEW i, RemoveWorkspace(i)
  PROVE  SpacesOK' /\ \A j \in Issues \ {i} : path'[j] = path[j]
BY DEF SpacesOK, RemoveWorkspace
-----------------------------------------------------------------------------
(* Types.                                                                  *)

Steps == {"idle", "prepared", "ready", "merge", "verify", "push", "verify_branch",
          "push_branch", "checks", "merge_pr", "refresh", "close"}

CallOK ==
    /\ step \in Steps
    /\ call \in Calls
    /\ cur = NoIssue <=> step = "idle"

TreesOK ==
    /\ branch \in Branches /\ base \in Trees /\ origin \in Trees /\ pushed \in Branches
    /\ passed \in Trees /\ excused \in BOOLEAN /\ done \in Branches /\ reused \subseteq Issues

RestOK ==
    /\ mode \in Modes /\ cleanup \in BOOLEAN
    /\ working \subseteq Issues /\ lingering \subseteq Issues

LEMMA TypeParts == TypeOK <=> RestOK /\ SpacesOK /\ CallOK /\ TreesOK
BY DEF TypeOK, RestOK, SpacesOK, CallOK, TreesOK, Steps

LEMMA CurIsIssue ==
  ASSUME CallOK, step # "idle"
  PROVE  cur \in Issues
BY DEF CallOK, Calls

LEMMA MergeCall ==
  ASSUME CallOK, TreesOK, Merge
  PROVE  /\ cur \in Issues /\ call' \in Calls /\ call'.issue = cur
         /\ call'.before = base /\ call'.wanted = branch[cur]
         /\ call'.merged = (base.issues[cur] < branch[cur])
<1> DEFINE behind == base.issues[cur] < branch[cur]
<1>1. cur \in Issues
  BY CurIsIssue DEF Merge
<1>2. branch[cur] \in 0..MaxCommits /\ base \in Trees /\ call \in Calls
  BY <1>1 DEF TreesOK, Branches, CallOK
<1>3. behind \in BOOLEAN
  OBVIOUS
<1>4. call' = [call EXCEPT !.before = base, !.merged = behind, !.wanted = branch[cur]]
  BY DEF Merge
<1> HIDE DEF behind
<1>5. call' \in Calls /\ call'.issue = cur /\ call'.before = base /\ call'.wanted = branch[cur]
  BY <1>2, <1>3, <1>4 DEF Calls
<1>6. call'.merged = behind
  BY <1>2, <1>4 DEF Calls
<1> QED
  BY <1>1, <1>5, <1>6 DEF behind

LEMMA PushBranchCall ==
  ASSUME CallOK, TreesOK, PushBranch
  PROVE  /\ cur \in Issues /\ call' \in Calls /\ call'.issue = cur
         /\ call'.before = call.before /\ call'.wanted = branch[cur]
         /\ call'.request \/ origin.issues[cur] > 0
<1>1. cur \in Issues
  BY CurIsIssue DEF PushBranch
<1>2. branch[cur] \in 0..MaxCommits /\ call \in Calls
  BY <1>1 DEF TreesOK, Branches, CallOK
<1>3. PICK takes \in BOOLEAN :
        /\ takes \/ origin.issues[cur] > 0
        /\ call' = [call EXCEPT !.wanted = branch[cur], !.request = takes]
  BY DEF PushBranch
<1>4. call' \in Calls /\ call'.issue = cur /\ call'.before = call.before
      /\ call'.wanted = branch[cur] /\ call'.request = takes
  BY <1>2, <1>3 DEF Calls
<1> QED
  BY <1>1, <1>3, <1>4

LEMMA CallNext ==
  ASSUME TypeOK, Next
  PROVE  CallOK'
<1>1. CallOK /\ TreesOK
  BY TypeParts
<1>2. CASE Returns
  BY <1>2, CallFields DEF Returns, CallOK, Steps
<1>3. CASE step # "idle" /\ \E next \in Steps \ {"idle"} : Goes(next)
  BY <1>1, <1>3 DEF Goes, CallOK
<1>4. CASE UNCHANGED <<step, call>>
  BY <1>1, <1>4 DEF CallOK
<1>5. ASSUME NEW i \in Issues, OfIssue(i)
      PROVE  CallOK'
  <2>1. CASE Prepare(i)
    <3>1. call' \in {For(i), [For(i) EXCEPT !.fresh = TRUE]} /\ step' = "prepared"
      BY <2>1 DEF Prepare
    <3> QED
      BY <3>1, CallFields, WorkspaceAssumption DEF CallOK, Steps
  <2>2. CASE MergeStarts(i)
    <3>1. call' = For(i) /\ step' \in {"merge", "verify_branch", "close"}
      BY <2>2 DEF MergeStarts
    <3> QED
      BY <3>1, CallFields, WorkspaceAssumption DEF CallOK, Steps
  <2>3. CASE TerminateTerminal(i) \/ TerminateInactive(i) \/ AgentWrites(i) \/ AgentCommits(i)
             \/ SessionEnds(i)
    BY <1>4, <2>3 DEF TerminateTerminal, TerminateInactive, AgentWrites, AgentCommits, SessionEnds
  <2> QED
    BY <1>5, <2>1, <2>2, <2>3 DEF OfIssue
<1>6. CASE DispatchFails \/ AfterCreateFails \/ Launch \/ MergeCallFails \/ VerifyFails
           \/ PushFails \/ Close \/ Restart
  BY <1>2, <1>6 DEF DispatchFails, AfterCreateFails, Launch, MergeCallFails, VerifyFails,
     PushFails, Close, Restart
<1>7. CASE AfterCreate \/ VerifyPasses \/ Push \/ VerifyBranch \/ ChecksPass \/ Refresh
  BY <1>3, <1>7 DEF AfterCreate, VerifyPasses, Push, VerifyBranch, ChecksPass, Refresh, Steps
<1>8. CASE MergePR
  BY <1>2, <1>3, <1>8 DEF MergePR, Steps
<1>9. CASE Merge
  BY <1>1, <1>9, MergeCall, WorkspaceAssumption DEF Merge, CallOK, Steps
<1>10. CASE PushBranch
  BY <1>1, <1>10, PushBranchCall, WorkspaceAssumption DEF PushBranch, CallOK, Steps
<1>11. CASE PeoplePush
  BY <1>4, <1>11 DEF PeoplePush
<1> QED
  BY <1>5, <1>6, <1>7, <1>8, <1>9, <1>10, <1>11 DEF Next

LEMMA SpacesNext ==
  ASSUME TypeOK, Next
  PROVE  SpacesOK'
<1>1. SpacesOK /\ CallOK
  BY TypeParts
<1>2. CASE UNCHANGED spaces
  BY <1>1, <1>2 DEF SpacesOK, spaces
<1>3. CASE \E i : RemoveWorkspace(i)
  BY <1>1, <1>3, RemoveWorkspaceOK
<1>4. ASSUME NEW i \in Issues, OfIssue(i)
      PROVE  SpacesOK'
  <2>1. CASE Prepare(i)
    BY <1>1, <2>1 DEF Prepare, SpacesOK, spaces
  <2>2. CASE TerminateTerminal(i)
    BY <1>3, <2>2 DEF TerminateTerminal
  <2>3. CASE AgentWrites(i)
    BY <1>1, <2>3 DEF AgentWrites, SpacesOK
  <2>4. CASE AgentCommits(i)
    BY <1>1, <2>4 DEF AgentCommits, SpacesOK
  <2>5. CASE TerminateInactive(i) \/ MergeStarts(i) \/ SessionEnds(i)
    BY <1>2, <2>5 DEF TerminateInactive, MergeStarts, SessionEnds
  <2> QED
    BY <1>4, <2>1, <2>2, <2>3, <2>4, <2>5 DEF OfIssue
<1>5. CASE AfterCreateFails \/ Close
  BY <1>3, <1>5 DEF AfterCreateFails, Close
<1>6. CASE Restart
  BY <1>2, <1>3, <1>6 DEF Restart
<1>7. CASE \/ DispatchFails \/ AfterCreate \/ Launch \/ Merge \/ VerifyPasses \/ VerifyFails
           \/ Push \/ PushFails \/ MergeCallFails
  BY <1>2, <1>7 DEF DispatchFails, AfterCreate, Launch, Merge, VerifyPasses, VerifyFails,
     Push, PushFails, MergeCallFails
<1>8. CASE VerifyBranch \/ PushBranch \/ ChecksPass \/ MergePR \/ Refresh \/ PeoplePush
  BY <1>2, <1>8 DEF VerifyBranch, PushBranch, ChecksPass, MergePR, Refresh, PeoplePush
<1> QED
  BY <1>4, <1>5, <1>6, <1>7, <1>8 DEF Next

LEMMA RestNext ==
  ASSUME TypeOK, Next
  PROVE  RestOK'
<1>1. RestOK /\ CallOK
  BY TypeParts
<1> USE DEF RestOK, config, sessions
<1>2. ASSUME NEW i \in Issues, OfIssue(i)
      PROVE  RestOK'
  BY <1>1, <1>2 DEF OfIssue, Prepare, TerminateTerminal, TerminateInactive, MergeStarts,
     AgentWrites, AgentCommits, SessionEnds
<1>3. CASE Launch
  <2>1. cur \in Issues
    BY <1>1, <1>3, CurIsIssue DEF Launch
  <2> QED
    BY <1>1, <1>3, <2>1 DEF Launch
<1>4. CASE \/ DispatchFails \/ AfterCreate \/ AfterCreateFails \/ Merge \/ VerifyPasses
           \/ VerifyFails \/ Push \/ PushFails \/ MergeCallFails
  BY <1>1, <1>4 DEF DispatchFails, AfterCreate, AfterCreateFails, Merge, VerifyPasses,
     VerifyFails, Push, PushFails, MergeCallFails
<1>5. CASE \/ VerifyBranch \/ PushBranch \/ ChecksPass \/ MergePR \/ Refresh
           \/ Close \/ Restart \/ PeoplePush
  BY <1>1, <1>5 DEF VerifyBranch, PushBranch, ChecksPass, MergePR, Refresh, Close, Restart,
     PeoplePush
<1> QED
  BY <1>2, <1>3, <1>4, <1>5 DEF Next

LEMMA TreesNext ==
  ASSUME TypeOK, Next
  PROVE  TreesOK'
<1>1. TreesOK /\ CallOK
  BY TypeParts
<1> USE DEF TreesOK, history
<1>2. CASE UNCHANGED <<branch, base, origin, pushed, passed, excused, done, reused>>
  BY <1>1, <1>2
<1>3. ASSUME NEW i \in Issues, OfIssue(i)
      PROVE  TreesOK'
  <2>1. CASE AgentCommits(i)
    <3>1. branch[i] + 1 \in 0..MaxCommits
      BY <1>1, <2>1, WorkspaceAssumption DEF AgentCommits, Branches
    <3> QED
      BY <1>1, <2>1, <3>1 DEF AgentCommits, Branches
  <2>2. CASE \/ Prepare(i) \/ TerminateTerminal(i) \/ TerminateInactive(i) \/ MergeStarts(i)
             \/ AgentWrites(i) \/ SessionEnds(i)
    BY <1>2, <2>2 DEF Prepare, TerminateTerminal, TerminateInactive, MergeStarts, AgentWrites,
       SessionEnds
  <2> QED
    BY <1>3, <2>1, <2>2 DEF OfIssue
<1>4. CASE DispatchFails \/ AfterCreate \/ AfterCreateFails \/ Launch \/ MergeCallFails
           \/ VerifyBranch \/ ChecksPass
  BY <1>2, <1>4 DEF DispatchFails, AfterCreate, AfterCreateFails, Launch, MergeCallFails,
     VerifyBranch, ChecksPass
<1>5. ASSUME step # "idle"
      PROVE  cur \in Issues /\ branch[cur] \in 0..MaxCommits /\ pushed[cur] \in 0..MaxCommits
  BY <1>1, <1>5, CurIsIssue DEF Branches
<1>6. CASE Merge
  BY <1>1, <1>5, <1>6, TreeUpdate DEF Merge
<1>7. CASE VerifyFails
  <2>1. call.before \in Trees
    BY <1>1 DEF CallOK, Calls
  <2> QED
    BY <1>1, <1>7, <2>1 DEF VerifyFails
<1>8. CASE VerifyPasses \/ Push \/ PushFails \/ Refresh
  BY <1>1, <1>8 DEF VerifyPasses, Push, PushFails, Refresh
<1>9. CASE PushBranch
  BY <1>1, <1>5, <1>9 DEF PushBranch, Branches
<1>10. CASE MergePR
  BY <1>1, <1>5, <1>10, TreeUpdate DEF MergePR
<1>11. CASE Close
  <2>1. call.wanted \in 0..MaxCommits
    BY <1>1 DEF CallOK, Calls
  <2>2. cur \in Issues
    BY <1>5, <1>11 DEF Close
  <2> QED
    BY <1>1, <1>11, <2>1, <2>2 DEF Close, Branches
<1>12. CASE Restart
  BY <1>1, <1>12 DEF Restart
<1>13. CASE PeoplePush
  BY <1>1, <1>13, TreePush DEF PeoplePush
<1> QED
  BY <1>3, <1>4, <1>6, <1>7, <1>8, <1>9, <1>10, <1>11, <1>12, <1>13 DEF Next

(* The state is well typed, and the loop is in a call for an issue exactly *)
(* while it is not idle.                                                   *)
THEOREM WorkspaceTypeOK == Spec => []TypeOK
<1>1. Init => TypeOK
  <2> SUFFICES ASSUME Init
               PROVE  TypeOK
    OBVIOUS
  <2>1. RestOK /\ SpacesOK
    BY DEF Init, RestOK, SpacesOK
  <2>2. CallOK
    BY CallFields DEF Init, CallOK, Steps
  <2>3. TreesOK
    <3>1. [i \in Issues |-> 0] \in Branches
      BY WorkspaceAssumption DEF Branches
    <3> QED
      BY <3>1, NothingFields DEF Init, TreesOK
  <2> QED
    BY <2>1, <2>2, <2>3, TypeParts
<1>2. TypeOK /\ [Next]_vars => TypeOK'
  <2> SUFFICES ASSUME TypeOK, [Next]_vars
               PROVE  TypeOK'
    OBVIOUS
  <2>1. CASE Next
    <3>1. RestOK' /\ SpacesOK' /\ CallOK' /\ TreesOK'
      BY <2>1, RestNext, SpacesNext, CallNext, TreesNext
    <3> QED
      BY <3>1 DEF TypeOK, RestOK, SpacesOK, CallOK, TreesOK, Steps
  <2>2. CASE UNCHANGED vars
    BY <2>2 DEF TypeOK, vars, config, spaces, sessions, history
  <2> QED
    BY <2>1, <2>2
<1> QED
  BY <1>1, <1>2, PTL DEF Spec
-----------------------------------------------------------------------------
(* The flows and the workspaces.                                           *)

(* Each step belongs to the flow of one mode.                              *)
FlowInv ==
    /\ step \in {"merge", "verify", "push"} => mode = "local"
    /\ step \in {"verify_branch", "push_branch", "checks", "merge_pr", "refresh"} =>
         mode = "github"

LEMMA FlowNext ==
  ASSUME FlowInv, [Next]_vars
  PROVE  FlowInv'
<1> USE DEF FlowInv, Goes, Returns, config
<1>1. ASSUME NEW i \in Issues, OfIssue(i)
      PROVE  FlowInv'
  BY <1>1 DEF OfIssue, Prepare, TerminateTerminal, TerminateInactive, MergeStarts, AgentWrites,
     AgentCommits, SessionEnds
<1>2. CASE \/ DispatchFails \/ AfterCreate \/ AfterCreateFails \/ Launch \/ Merge \/ VerifyPasses
           \/ VerifyFails \/ Push \/ PushFails \/ MergeCallFails
  BY <1>2 DEF DispatchFails, AfterCreate, AfterCreateFails, Launch, Merge, VerifyPasses,
     VerifyFails, Push, PushFails, MergeCallFails
<1>3. CASE VerifyBranch \/ PushBranch \/ ChecksPass \/ MergePR \/ Refresh \/ Close \/ Restart
           \/ PeoplePush
  BY <1>3 DEF VerifyBranch, PushBranch, ChecksPass, MergePR, Refresh, Close, Restart, PeoplePush
<1>4. CASE UNCHANGED vars
  BY <1>4 DEF vars
<1> QED
  BY <1>1, <1>2, <1>3, <1>4 DEF Next

(* The issue in the loop's hand has no session, and from PrepareWorkspace  *)
(* to the launch its workspace stays.                                      *)
HasWorkspace(i) == path[i] = "tree" \/ (mode = "directory" /\ path[i] = "debris")

SpaceInv ==
    /\ \A i \in working : HasWorkspace(i)
    /\ step \in {"prepared", "ready"} => HasWorkspace(cur)
    /\ cur \notin working

LEMMA SpaceNext ==
  ASSUME TypeOK, SpaceInv, [Next]_vars
  PROVE  SpaceInv'
<1>1. SpacesOK /\ CallOK /\ RestOK
  BY TypeParts
<1> USE DEF SpaceInv, HasWorkspace, config, spaces, sessions
<1>2. NoIssue \notin working'
  <2>1. CASE Next
    <3>1. RestOK'
      BY <2>1, RestNext
    <3> QED
      BY <3>1, WorkspaceAssumption DEF RestOK
  <2>2. CASE UNCHANGED vars
    BY <1>1, <2>2, WorkspaceAssumption DEF vars, RestOK
  <2> QED
    BY <2>1, <2>2
(* A session has at most ended, and no path was touched. *)
<1>3. CASE /\ UNCHANGED <<mode, path>> /\ working' \subseteq working
           /\ \/ UNCHANGED <<step, call>>
              \/ call'.issue = cur /\ step' \notin {"prepared", "ready"}
              \/ call'.issue = cur /\ step = "prepared" /\ step' = "ready"
              \/ Returns
  BY <1>1, <1>2, <1>3, CallFields DEF Returns
<1>4. ASSUME NEW i \in Issues, OfIssue(i)
      PROVE  SpaceInv'
  <2>1. CASE Prepare(i)
    <3>1. call'.issue = i /\ step' = "prepared" /\ i \notin working /\ UNCHANGED <<working, mode>>
      BY <2>1, CallFields DEF Prepare
    <3>2. path' = path \/ path' = [path EXCEPT ![i] = "tree"]
      BY <2>1 DEF Prepare
    <3>3. HasWorkspace(i)'
      BY <1>1, <2>1 DEF Prepare, SpacesOK
    <3>4. \A j \in working : HasWorkspace(j)'
      BY <1>1, <3>1, <3>2 DEF SpacesOK, RestOK
    <3> QED
      BY <3>1, <3>3, <3>4
  <2>2. CASE MergeStarts(i)
    <3>1. call'.issue = i /\ step' \in {"merge", "verify_branch", "close"} /\ i \notin working
      BY <2>2, CallFields DEF MergeStarts
    <3> QED
      BY <2>2, <3>1 DEF MergeStarts
  <2>3. CASE TerminateTerminal(i)
    <3>1. \A j \in Issues \ {i} : path'[j] = path[j]
      BY <1>1, <2>3, RemoveWorkspaceOK DEF TerminateTerminal
    <3>2. step = "idle" /\ cur = NoIssue /\ UNCHANGED <<step, call, mode>> /\ working' = working \ {i}
      BY <1>1, <2>3 DEF TerminateTerminal, CallOK
    <3> QED
      BY <1>1, <1>2, <3>1, <3>2 DEF RestOK
  <2>4. CASE AgentWrites(i)
    <3>1. \A j \in Issues : path'[j] = path[j] \/ (j = i /\ path[j] # "tree" /\ path'[j] = "debris")
      BY <1>1, <2>4 DEF AgentWrites, SpacesOK
    <3>2. \A j \in Issues : HasWorkspace(j) => HasWorkspace(j)'
      BY <2>4, <3>1 DEF AgentWrites
    <3>3. step # "idle" => cur \in Issues
      BY <1>1, CurIsIssue
    <3> QED
      BY <1>1, <2>4, <3>2, <3>3 DEF AgentWrites, RestOK
  <2>5. CASE AgentCommits(i)
    BY <1>3, <2>5 DEF AgentCommits
  <2>6. CASE TerminateInactive(i) \/ SessionEnds(i)
    BY <1>3, <2>6 DEF TerminateInactive, SessionEnds
  <2> QED
    BY <1>4, <2>1, <2>2, <2>3, <2>4, <2>5, <2>6 DEF OfIssue
<1>5. CASE AfterCreateFails \/ Close
  <2>1. step # "idle" /\ RemoveWorkspace(cur) /\ Returns /\ UNCHANGED <<working, mode>>
    BY <1>5 DEF AfterCreateFails, Close
  <2>2. \A j \in Issues \ {cur} : path'[j] = path[j]
    BY <1>1, <2>1, RemoveWorkspaceOK
  <2> QED
    BY <1>1, <1>2, <2>1, <2>2, CallFields DEF Returns, RestOK
<1>6. CASE Launch
  BY <1>1, <1>2, <1>6, CallFields DEF Launch, Returns
<1>7. CASE Restart
  BY <1>2, <1>7, CallFields DEF Restart, Returns
<1>8. CASE DispatchFails \/ VerifyFails \/ PushFails \/ MergeCallFails
  BY <1>3, <1>8 DEF DispatchFails, VerifyFails, PushFails, MergeCallFails
<1>9. CASE AfterCreate \/ VerifyPasses \/ Push \/ VerifyBranch \/ ChecksPass \/ Refresh
  BY <1>3, <1>9 DEF AfterCreate, VerifyPasses, Push, VerifyBranch, ChecksPass, Refresh, Goes
<1>10. CASE Merge \/ PushBranch
  <2>1. call'.issue = cur /\ step' \in {"verify", "checks"}
    BY <1>1, <1>10, TypeParts, MergeCall, PushBranchCall DEF Merge, PushBranch
  <2> QED
    BY <1>3, <1>10, <2>1 DEF Merge, PushBranch
<1>11. CASE MergePR
  BY <1>3, <1>11 DEF MergePR, Goes
<1>12. CASE PeoplePush
  BY <1>3, <1>12 DEF PeoplePush
<1>13. CASE UNCHANGED vars
  BY <1>3, <1>13 DEF vars
<1> QED
  BY <1>4, <1>5, <1>6, <1>7, <1>8, <1>9, <1>10, <1>11, <1>12, <1>13 DEF Next

(* A session that the loop counts as running has its workspace under it,   *)
(* although the loop removes workspaces while other sessions work.         *)
THEOREM WorkspaceRunsInWorktree == Spec => []RunsInWorktree
<1>1. Init => SpaceInv
  BY WorkspaceAssumption, CallFields DEF Init, SpaceInv
<1>2. TypeOK /\ SpaceInv /\ [Next]_vars => SpaceInv'
  BY SpaceNext
<1>3. SpaceInv => RunsInWorktree
  BY DEF SpaceInv, HasWorkspace, RunsInWorktree
<1> QED
  BY <1>1, <1>2, <1>3, WorkspaceTypeOK, PTL DEF Spec
-----------------------------------------------------------------------------
(* The base branch, here and at origin.                                    *)

(* No tree has more of a branch than there is; in the github flow the base *)
(* branch has only what was pushed.                                        *)
BranchInv ==
    \A i \in Issues :
        /\ base.issues[i] <= branch[i] /\ origin.issues[i] <= branch[i]
        /\ pushed[i] <= branch[i] /\ call.before.issues[i] <= branch[i]
        /\ mode = "github" => base.issues[i] <= pushed[i] /\ origin.issues[i] <= pushed[i]

(* What a merge under way has done and can still undo; otherwise the base  *)
(* branch is behind origin unless something failed.                        *)
MergeInv ==
    /\ step = "verify" =>
        /\ base.issues[cur] = call.wanted
        /\ ~call.merged => base = call.before
        /\ ~excused => Contains(origin, call.before)
    /\ step = "push" => base = passed /\ base.issues[cur] = call.wanted
    /\ step \notin {"verify", "push"} /\ ~excused => Contains(origin, base)

IInv == TypeOK /\ FlowInv /\ BranchInv /\ MergeInv

branches == <<branch, base, origin, pushed>>

(* The steps that touch a branch.                                          *)
LEMMA BranchSteps ==
  ASSUME [Next]_vars
  PROVE  \/ UNCHANGED branches
         \/ \E i \in Issues : AgentCommits(i)
         \/ Merge \/ VerifyFails \/ Push \/ PushBranch \/ MergePR \/ Refresh \/ PeoplePush
<1> USE DEF branches
<1>1. ASSUME NEW i \in Issues, OfIssue(i)
      PROVE  UNCHANGED branches \/ AgentCommits(i)
  BY <1>1 DEF OfIssue, Prepare, TerminateTerminal, TerminateInactive, MergeStarts, AgentWrites,
     SessionEnds
<1>2. CASE \/ DispatchFails \/ AfterCreate \/ AfterCreateFails \/ Launch \/ MergeCallFails
           \/ VerifyPasses \/ PushFails
  BY <1>2 DEF DispatchFails, AfterCreate, AfterCreateFails, Launch, MergeCallFails, VerifyPasses,
     PushFails
<1>3. CASE VerifyBranch \/ ChecksPass \/ Close \/ Restart
  BY <1>3 DEF VerifyBranch, ChecksPass, Close, Restart
<1>4. CASE UNCHANGED vars
  BY <1>4 DEF vars
<1> QED
  BY <1>1, <1>2, <1>3, <1>4 DEF Next

(* Where preMergeSHA comes from.                                           *)
LEMMA BeforeKinds ==
  ASSUME TypeOK, [Next]_vars
  PROVE  call'.before \in {call.before, base, Nothing}
<1>1. CallOK /\ TreesOK
  BY TypeParts
<1> USE CallFields DEF Goes, Returns
<1>2. ASSUME NEW i \in Issues, OfIssue(i)
      PROVE  call'.before \in {call.before, Nothing}
  BY <1>2 DEF OfIssue, Prepare, TerminateTerminal, TerminateInactive, MergeStarts, AgentWrites,
     AgentCommits, SessionEnds
<1>3. CASE Merge \/ PushBranch
  BY <1>1, <1>3, MergeCall, PushBranchCall
<1>4. CASE \/ DispatchFails \/ AfterCreate \/ AfterCreateFails \/ Launch \/ MergeCallFails
           \/ VerifyPasses \/ VerifyFails \/ Push \/ PushFails
  BY <1>4 DEF DispatchFails, AfterCreate, AfterCreateFails, Launch, MergeCallFails, VerifyPasses,
     VerifyFails, Push, PushFails
<1>5. CASE VerifyBranch \/ ChecksPass \/ MergePR \/ Refresh \/ Close \/ Restart \/ PeoplePush
  BY <1>5 DEF VerifyBranch, ChecksPass, MergePR, Refresh, Close, Restart, PeoplePush
<1>6. CASE UNCHANGED vars
  BY <1>6 DEF vars
<1> QED
  BY <1>2, <1>3, <1>4, <1>5, <1>6 DEF Next

LEMMA ModeStays ==
  ASSUME [Next]_vars
  PROVE  UNCHANGED mode
BY DEF Next, OfIssue, Prepare, TerminateTerminal, TerminateInactive, MergeStarts, AgentWrites,
   AgentCommits, SessionEnds, DispatchFails, AfterCreate, AfterCreateFails, Launch, Merge,
   VerifyPasses, VerifyFails, Push, PushFails, MergeCallFails, VerifyBranch, PushBranch, ChecksPass,
   MergePR, Refresh, Close, Restart, PeoplePush, vars, config

LEMMA BranchNext ==
  ASSUME IInv, [Next]_vars
  PROVE  BranchInv'
<1>1. BranchInv /\ FlowInv /\ CallOK /\ TreesOK
  BY TypeParts DEF IInv
<1>2. \A i \in Issues : /\ branch[i] \in Nat /\ pushed[i] \in Nat
                        /\ base.issues[i] \in Nat /\ origin.issues[i] \in Nat
                        /\ call.before.issues[i] \in Nat
  <2>1. call.before \in Trees
    BY <1>1 DEF CallOK, Calls
  <2> QED
    BY <1>1, <2>1, TreeFields DEF TreesOK, Branches
<1>3. \A i \in Issues : call'.before.issues[i] \in Nat /\ call'.before.issues[i] <= branch[i]
  BY <1>1, <1>2, BeforeKinds, NothingFields DEF BranchInv, IInv
<1>4. UNCHANGED mode
  BY ModeStays
<1>5. CASE UNCHANGED branches
  BY <1>1, <1>2, <1>3, <1>4, <1>5 DEF BranchInv, branches
<1>6. ASSUME NEW i \in Issues, AgentCommits(i)
      PROVE  BranchInv'
  <2>1. \A j \in Issues : branch'[j] \in Nat /\ branch[j] <= branch'[j]
    BY <1>1, <1>2, <1>6 DEF AgentCommits, TreesOK, Branches
  <2>2. UNCHANGED <<base, origin, pushed>>
    BY <1>6 DEF AgentCommits
  <2> QED
    BY <1>1, <1>2, <1>3, <1>4, <2>1, <2>2 DEF BranchInv
<1>7. CASE Merge
  <2>1. cur \in Issues /\ branch[cur] \in 0..MaxCommits
    BY <1>1, <1>7, MergeCall DEF TreesOK, Branches
  <2>2. base'.issues[cur] = branch[cur] /\ \A j \in Issues \ {cur} : base'.issues[j] = base.issues[j]
    BY <1>1, <1>7, <2>1, TreeUpdate DEF Merge, TreesOK
  <2>3. mode # "github" /\ UNCHANGED <<branch, origin, pushed>>
    BY <1>1, <1>7 DEF Merge, FlowInv
  <2> QED
    BY <1>1, <1>2, <1>3, <1>4, <2>1, <2>2, <2>3 DEF BranchInv
<1>8. CASE VerifyFails
  <2>1. mode # "github" /\ UNCHANGED <<branch, origin, pushed>> /\ base' \in {base, call.before}
    BY <1>1, <1>8 DEF VerifyFails, FlowInv
  <2> QED
    BY <1>1, <1>2, <1>3, <1>4, <2>1 DEF BranchInv
<1>9. CASE Push
  <2>1. mode # "github" /\ UNCHANGED <<branch, base, pushed>> /\ origin' = base
    BY <1>1, <1>9 DEF Push, FlowInv
  <2> QED
    BY <1>1, <1>2, <1>3, <1>4, <2>1 DEF BranchInv
<1>10. CASE PushBranch
  <2>1. cur \in Issues
    BY <1>1, <1>10, PushBranchCall
  <2>2. pushed'[cur] = branch[cur] /\ \A j \in Issues \ {cur} : pushed'[j] = pushed[j]
    BY <1>1, <1>10, <2>1 DEF PushBranch, TreesOK, Branches
  <2>3. UNCHANGED <<branch, base, origin>>
    BY <1>10 DEF PushBranch
  <2> QED
    BY <1>1, <1>2, <1>3, <1>4, <2>1, <2>2, <2>3 DEF BranchInv
<1>11. CASE MergePR
  <2>1. cur \in Issues /\ pushed[cur] \in 0..MaxCommits
    BY <1>1, <1>11, CurIsIssue DEF MergePR, TreesOK, Branches
  <2>2. \/ UNCHANGED origin
        \/ /\ origin'.issues[cur] = pushed[cur]
           /\ \A j \in Issues \ {cur} : origin'.issues[j] = origin.issues[j]
    BY <1>1, <1>11, <2>1, TreeUpdate DEF MergePR, TreesOK
  <2>3. UNCHANGED <<branch, base, pushed>>
    BY <1>11 DEF MergePR
  <2> QED
    BY <1>1, <1>2, <1>3, <1>4, <2>1, <2>2, <2>3 DEF BranchInv
<1>12. CASE Refresh
  <2>1. UNCHANGED <<branch, origin, pushed>> /\ base' = origin
    BY <1>12 DEF Refresh
  <2> QED
    BY <1>1, <1>2, <1>3, <1>4, <2>1 DEF BranchInv
<1>13. CASE PeoplePush
  <2>1. UNCHANGED <<branch, base, pushed>> /\ origin'.issues = origin.issues
    BY <1>1, <1>13, TreePush DEF PeoplePush, TreesOK
  <2> QED
    BY <1>1, <1>2, <1>3, <1>4, <2>1 DEF BranchInv
<1> QED
  BY <1>5, <1>6, <1>7, <1>8, <1>9, <1>10, <1>11, <1>12, <1>13, BranchSteps

(* The steps that touch neither the base branch nor origin.                *)
LEMMA OtherSteps ==
  ASSUME [Next]_vars, ~Merge, ~VerifyPasses, ~VerifyFails, ~Push, ~PushFails, ~MergePR, ~Refresh,
         ~PeoplePush
  PROVE  /\ UNCHANGED <<base, origin, passed>>
         /\ \/ UNCHANGED <<step, call, excused>>
            \/ step \notin {"verify", "push"} /\ UNCHANGED excused /\ step' \notin {"verify", "push"}
            \/ step' = "idle" /\ excused' = (excused \/ step \in {"verify", "push"})
<1> USE DEF Goes, Returns, history
<1>1. ASSUME NEW i \in Issues, OfIssue(i)
      PROVE  /\ UNCHANGED <<base, origin, passed, excused>>
             /\ \/ UNCHANGED <<step, call>>
                \/ step = "idle" /\ step' \notin {"verify", "push"}
  BY <1>1 DEF OfIssue, Prepare, TerminateTerminal, TerminateInactive, MergeStarts, AgentWrites,
     AgentCommits, SessionEnds
<1>2. CASE DispatchFails \/ AfterCreate \/ AfterCreateFails \/ Launch \/ MergeCallFails
  BY <1>2 DEF DispatchFails, AfterCreate, AfterCreateFails, Launch, MergeCallFails
<1>3. CASE VerifyBranch \/ PushBranch \/ ChecksPass \/ Close \/ Restart
  BY <1>3 DEF VerifyBranch, PushBranch, ChecksPass, Close, Restart
<1>4. CASE UNCHANGED vars
  BY <1>4 DEF vars
<1> QED
  BY <1>1, <1>2, <1>3, <1>4 DEF Next

LEMMA MergeNext ==
  ASSUME IInv, [Next]_vars
  PROVE  MergeInv'
<1>1. BranchInv /\ FlowInv /\ MergeInv /\ CallOK /\ TreesOK
  BY TypeParts DEF IInv
<1>2. excused \in BOOLEAN /\ base \in Trees /\ origin \in Trees /\ call.before \in Trees
  BY <1>1 DEF TreesOK, CallOK, Calls
<1>3. CASE Merge
  <2>1. /\ cur \in Issues /\ call'.issue = cur /\ call'.before = base /\ call'.wanted = branch[cur]
        /\ call'.merged = (base.issues[cur] < branch[cur])
    BY <1>1, <1>3, MergeCall
  <2>2. branch[cur] \in 0..MaxCommits /\ base.issues[cur] \in 0..MaxCommits
        /\ base.issues[cur] <= branch[cur]
    BY <1>1, <1>2, <2>1, TreeFields DEF TreesOK, Branches, BranchInv
  <2>3. base' = [base EXCEPT !.issues[cur] = branch[cur]] /\ step' = "verify"
        /\ UNCHANGED <<origin, excused>> /\ step = "merge"
    BY <1>3 DEF Merge, history
  <2>4. base'.issues[cur] = branch[cur]
    BY <1>2, <2>1, <2>2, <2>3, TreeUpdate
  <2>5. ~call'.merged => base' = base
    <3>1. SUFFICES ASSUME ~call'.merged
                   PROVE  base' = base
      OBVIOUS
    <3>2. ~(base.issues[cur] < branch[cur])
      BY <2>1, <3>1, Zenon
    <3>3. base.issues[cur] = branch[cur]
      BY <2>2, <3>2
    <3> QED
      BY <1>2, <2>3, <3>3 DEF Trees, Branches
  <2> QED
    BY <1>1, <2>1, <2>3, <2>4, <2>5 DEF MergeInv
<1>4. CASE VerifyPasses
  BY <1>1, <1>4 DEF VerifyPasses, Goes, MergeInv
<1>5. CASE VerifyFails
  <2>1. step = "verify" /\ step' = "idle" /\ UNCHANGED origin
    BY <1>5 DEF VerifyFails, Returns
  <2>2. CASE UNCHANGED excused /\ base' = IF call.merged THEN call.before ELSE base
    BY <1>1, <2>1, <2>2 DEF MergeInv
  <2>3. CASE excused' = TRUE
    BY <2>1, <2>3 DEF MergeInv
  <2> QED
    BY <1>5, <2>2, <2>3 DEF VerifyFails
<1>6. CASE Push
  <2>1. origin' = base /\ UNCHANGED <<base, excused>> /\ step' = "close"
    BY <1>6 DEF Push, Goes, history
  <2> QED
    BY <1>2, <2>1, ContainsItself DEF MergeInv
<1>7. CASE PushFails
  BY <1>7 DEF PushFails, Returns, MergeInv
<1>8. CASE MergePR
  <2>1. cur \in Issues /\ pushed[cur] \in 0..MaxCommits /\ mode = "github"
    BY <1>1, <1>8, CurIsIssue DEF MergePR, TreesOK, Branches, FlowInv
  <2>2. pushed[cur] >= base.issues[cur]
    BY <1>1, <1>2, <2>1, TreeFields DEF BranchInv
  <2>3. step = "merge_pr" /\ step' \in {"refresh", "idle"} /\ UNCHANGED <<base, excused>>
    BY <1>8 DEF MergePR, Goes, Returns, history
  <2>4. Contains(origin, base) => Contains(origin', base)
    BY <1>2, <1>8, <2>1, <2>2, ContainsMore DEF MergePR
  <2> QED
    BY <1>1, <2>3, <2>4 DEF MergeInv
<1>9. CASE Refresh
  <2>1. base' = origin /\ UNCHANGED <<origin, excused>> /\ step' = "close"
    BY <1>9 DEF Refresh, Goes, history
  <2> QED
    BY <1>2, <2>1, ContainsItself DEF MergeInv
<1>10. CASE PeoplePush
  <2>1. /\ origin'.issues = origin.issues /\ origin'.people = origin.people + 1
        /\ UNCHANGED <<base, excused, passed, step, call>>
    BY <1>2, <1>10, TreePush DEF PeoplePush, history
  <2>2. \A tree \in Trees : Contains(origin, tree) => Contains(origin', tree)
    BY <1>2, <2>1, TreeFields DEF Contains
  <2> QED
    BY <1>1, <1>2, <2>1, <2>2 DEF MergeInv
<1>11. CASE ~Merge /\ ~VerifyPasses /\ ~VerifyFails /\ ~Push /\ ~PushFails /\ ~MergePR /\ ~Refresh
            /\ ~PeoplePush
  <2>1. UNCHANGED <<base, origin, passed>>
    BY <1>11, OtherSteps
  <2>2. CASE UNCHANGED <<step, call, excused>>
    BY <1>1, <2>1, <2>2 DEF MergeInv
  <2>3. CASE step \notin {"verify", "push"} /\ UNCHANGED excused /\ step' \notin {"verify", "push"}
    BY <1>1, <2>1, <2>3 DEF MergeInv
  <2>4. CASE step' = "idle" /\ excused' = (excused \/ step \in {"verify", "push"})
    BY <1>1, <1>2, <2>1, <2>4 DEF MergeInv
  <2> QED
    BY <1>11, <2>2, <2>3, <2>4, OtherSteps
<1> QED
  BY <1>3, <1>4, <1>5, <1>6, <1>7, <1>8, <1>9, <1>10, <1>11

(* In every reachable state the locals of the merge in progress still fit  *)
(* the repository, although it runs git commands one by one and any of     *)
(* them may fail.                                                          *)
THEOREM WorkspaceInvariant == Spec => []IInv
<1>1. Init => FlowInv /\ BranchInv /\ MergeInv
  BY CallFields, NothingFields, ContainsItself, WorkspaceAssumption
     DEF Init, FlowInv, BranchInv, MergeInv
<1>2. TypeOK /\ FlowInv /\ BranchInv /\ MergeInv /\ [Next]_vars
        => FlowInv' /\ BranchInv' /\ MergeInv'
  BY FlowNext, BranchNext, MergeNext DEF IInv
<1> QED
  BY <1>1, <1>2, WorkspaceTypeOK, PTL DEF Spec, IInv

(* Between merges the repository's base branch has nothing that origin     *)
(* lacks, unless a push or a rollback failed or the process died.          *)
THEOREM WorkspaceNothingLeftBehind == Spec => []NothingLeftBehind
<1>1. IInv => NothingLeftBehind
  BY DEF IInv, MergeInv, NothingLeftBehind
<1> QED
  BY <1>1, WorkspaceInvariant, PTL

(* In the local flow origin takes only a tree that verify passed.          *)
THEOREM WorkspacePushedWasVerified == Spec => PushedWasVerified
<1>1. IInv /\ [Next]_vars =>
        [step = "push" /\ origin' # origin /\ origin'.people = origin.people /\ mode = "local"
           => origin' = passed]_vars
  <2> SUFFICES ASSUME IInv, [Next]_vars, step = "push", origin' # origin,
                      origin'.people = origin.people
               PROVE  origin' = passed
    OBVIOUS
  <2>1. CASE Push
    BY <2>1 DEF Push, IInv, MergeInv
  <2>2. CASE PeoplePush
    <3>1. origin \in Trees
      BY DEF IInv, TypeOK
    <3>2. origin'.people = origin.people + 1 /\ origin.people \in Nat
      BY <2>2, <3>1, TreePush, TreeFields DEF PeoplePush
    <3> QED
      BY <3>2
  <2>3. CASE Merge \/ VerifyFails \/ PushBranch \/ MergePR \/ Refresh
    BY <2>3 DEF Merge, VerifyFails, PushBranch, MergePR, Refresh
  <2>4. ASSUME NEW i \in Issues, AgentCommits(i)
        PROVE  UNCHANGED origin
    BY <2>4 DEF AgentCommits
  <2> QED
    BY <2>1, <2>2, <2>3, <2>4, BranchSteps DEF branches
<1> QED
  BY <1>1, WorkspaceInvariant, PTL DEF Spec, PushedWasVerified
-----------------------------------------------------------------------------
(* What is done is published.                                              *)

(* In directory mode nothing is merged, and nothing is wanted.             *)
DoneInv ==
    /\ DoneIsPublished
    /\ mode = "directory" => \A i \in Issues : done[i] = 0

(* A pull request that takes what is pushed gets the branch as the merge   *)
(* found it, and a merge that is over has it at origin.  One that does not *)
(* has something at origin from before.                                    *)
PublishInv ==
    /\ DoneInv
    /\ step \in {"checks", "merge_pr"} =>
         pushed[cur] = call.wanted /\ (call.request \/ origin.issues[cur] > 0)
    /\ step = "refresh" \/ (step = "close" /\ mode # "directory") =>
         origin.issues[cur] >= call.wanted \/ (~call.request /\ origin.issues[cur] > 0)

LEMMA OriginGrows ==
  ASSUME IInv, [Next]_vars
  PROVE  \A i \in Issues : origin.issues[i] \in Nat /\ origin'.issues[i] \in Nat
                           /\ origin'.issues[i] >= origin.issues[i]
<1>1. BranchInv /\ FlowInv /\ CallOK /\ TreesOK /\ base \in Trees /\ origin \in Trees
  BY TypeParts DEF IInv, TreesOK
<1>2. \A i \in Issues : origin.issues[i] \in Nat /\ base.issues[i] \in Nat
  BY <1>1, TreeFields
<1>3. CASE UNCHANGED origin
  BY <1>2, <1>3
<1>4. CASE Push
  BY <1>2, <1>4 DEF Push, Contains
<1>5. CASE MergePR
  <2>1. cur \in Issues /\ pushed[cur] \in 0..MaxCommits /\ mode = "github"
    BY <1>1, <1>5, CurIsIssue DEF MergePR, TreesOK, Branches, FlowInv
  <2>2. pushed[cur] >= origin.issues[cur]
    BY <1>1, <1>2, <2>1 DEF BranchInv
  <2>3. \/ UNCHANGED origin
        \/ /\ origin'.issues[cur] = pushed[cur]
           /\ \A j \in Issues \ {cur} : origin'.issues[j] = origin.issues[j]
    BY <1>1, <1>5, <2>1, TreeUpdate DEF MergePR
  <2> QED
    BY <1>2, <2>1, <2>2, <2>3
<1>6. CASE PeoplePush
  <2>1. origin'.issues = origin.issues
    BY <1>1, <1>6, TreePush DEF PeoplePush
  <2> QED
    BY <1>2, <2>1
<1>7. CASE (\E i \in Issues : AgentCommits(i)) \/ Merge \/ VerifyFails \/ PushBranch \/ Refresh
  BY <1>3, <1>7 DEF AgentCommits, Merge, VerifyFails, PushBranch, Refresh
<1> QED
  BY <1>3, <1>4, <1>5, <1>6, <1>7, BranchSteps DEF branches

(* How the loop comes to the steps that PublishInv speaks of.              *)
LEMMA PublishSteps ==
  ASSUME TypeOK, [Next]_vars, ~PushBranch, ~MergePR, ~Push
  PROVE  /\ UNCHANGED pushed
         /\ \/ UNCHANGED <<step, call>>
            \/ step = "checks" /\ step' = "merge_pr" /\ UNCHANGED call
            \/ step = "refresh" /\ step' = "close" /\ UNCHANGED call
            \/ step' = "close" /\ mode = "directory"
            \/ step' \notin {"checks", "merge_pr", "refresh", "close"}
<1> USE DEF Goes, Returns
<1>1. mode \in {"directory", "local", "github"}
  BY WorkspaceAssumption DEF TypeOK
<1>2. ASSUME NEW i \in Issues, OfIssue(i)
      PROVE  /\ UNCHANGED pushed
             /\ \/ UNCHANGED <<step, call>>
                \/ step' = "close" /\ mode = "directory"
                \/ step' \notin {"checks", "merge_pr", "refresh", "close"}
  BY <1>1, <1>2 DEF OfIssue, Prepare, TerminateTerminal, TerminateInactive, MergeStarts,
     AgentWrites, AgentCommits, SessionEnds
<1>3. CASE \/ DispatchFails \/ AfterCreate \/ AfterCreateFails \/ Launch \/ MergeCallFails
           \/ Merge \/ VerifyPasses \/ VerifyFails \/ PushFails
  BY <1>3 DEF DispatchFails, AfterCreate, AfterCreateFails, Launch, MergeCallFails, Merge,
     VerifyPasses, VerifyFails, PushFails
<1>4. CASE VerifyBranch \/ ChecksPass \/ Refresh \/ Close \/ Restart \/ PeoplePush
  BY <1>4 DEF VerifyBranch, ChecksPass, Refresh, Close, Restart, PeoplePush
<1>5. CASE UNCHANGED vars
  BY <1>5 DEF vars
<1> QED
  BY <1>2, <1>3, <1>4, <1>5 DEF Next

LEMMA DoneSteps ==
  ASSUME [Next]_vars
  PROVE  \/ UNCHANGED <<done, reused>>
         \/ /\ Close
            /\ done' = IF mode = "directory" THEN done ELSE [done EXCEPT ![cur] = call.wanted]
            /\ reused' = IF call.request THEN reused \ {cur} ELSE reused \cup {cur}
<1> USE DEF history
<1>1. ASSUME NEW i \in Issues, OfIssue(i)
      PROVE  UNCHANGED <<done, reused>>
  BY <1>1 DEF OfIssue, Prepare, TerminateTerminal, TerminateInactive, MergeStarts, AgentWrites,
     AgentCommits, SessionEnds
<1>2. CASE \/ DispatchFails \/ AfterCreate \/ AfterCreateFails \/ Launch \/ MergeCallFails
           \/ Merge \/ VerifyPasses \/ VerifyFails \/ Push \/ PushFails
  BY <1>2 DEF DispatchFails, AfterCreate, AfterCreateFails, Launch, MergeCallFails, Merge,
     VerifyPasses, VerifyFails, Push, PushFails
<1>3. CASE VerifyBranch \/ PushBranch \/ ChecksPass \/ MergePR \/ Refresh \/ Restart \/ PeoplePush
  BY <1>3 DEF VerifyBranch, PushBranch, ChecksPass, MergePR, Refresh, Restart, PeoplePush
<1>4. CASE Close
  BY <1>4 DEF Close
<1>5. CASE UNCHANGED vars
  BY <1>5 DEF vars
<1> QED
  BY <1>1, <1>2, <1>3, <1>4, <1>5 DEF Next

LEMMA PublishNext ==
  ASSUME IInv, PublishInv, [Next]_vars
  PROVE  PublishInv'
<1>1. CallOK /\ TreesOK /\ FlowInv /\ MergeInv
  BY TypeParts DEF IInv
<1>2. call.wanted \in Nat
  BY <1>1 DEF CallOK, Calls
<1>3. \A i \in Issues : done[i] \in Nat
  BY <1>1 DEF TreesOK, Branches
<1>4. UNCHANGED mode
  BY ModeStays
<1>5. DoneInv'
  <2>1. CASE UNCHANGED <<done, reused>>
    BY <1>3, <1>4, <2>1, OriginGrows DEF PublishInv, DoneInv, DoneIsPublished
  <2>2. CASE /\ Close
             /\ done' = IF mode = "directory" THEN done ELSE [done EXCEPT ![cur] = call.wanted]
             /\ reused' = IF call.request THEN reused \ {cur} ELSE reused \cup {cur}
    <3>1. cur \in Issues /\ step = "close" /\ UNCHANGED origin
      BY <1>1, <2>2, CurIsIssue DEF Close
    <3>2. CASE mode = "directory"
      <4>1. \A i \in Issues : done'[i] = 0 /\ origin'.issues[i] \in Nat
        BY <2>2, <3>2, OriginGrows DEF PublishInv, DoneInv
      <4> QED
        BY <4>1 DEF DoneInv, DoneIsPublished
    <3>3. CASE mode # "directory"
      <4>1. origin.issues[cur] >= call.wanted \/ (~call.request /\ origin.issues[cur] > 0)
        BY <3>1, <3>3 DEF PublishInv
      <4>2. done'[cur] = call.wanted /\ \A j \in Issues \ {cur} : done'[j] = done[j]
        BY <1>1, <2>2, <3>1, <3>3 DEF TreesOK, Branches
      <4>3. \A j \in Issues \ {cur} : j \in reused => j \in reused'
        BY <2>2
      <4>4. ~call.request => cur \in reused'
        BY <2>2
      <4> QED
        BY <1>2, <1>3, <1>4, <3>1, <3>3, <4>1, <4>2, <4>3, <4>4
           DEF PublishInv, DoneInv, DoneIsPublished
    <3> QED
      BY <3>2, <3>3
  <2> QED
    BY <2>1, <2>2, DoneSteps
<1>6. CASE PushBranch
  <2>1. /\ cur \in Issues /\ call'.issue = cur /\ call'.wanted = branch[cur]
        /\ call'.request \/ origin.issues[cur] > 0
    BY <1>1, <1>6, PushBranchCall
  <2>2. pushed'[cur] = branch[cur] /\ step' = "checks" /\ UNCHANGED origin
    BY <1>1, <1>6, <2>1 DEF PushBranch, TreesOK, Branches
  <2> QED
    BY <1>5, <2>1, <2>2 DEF PublishInv
<1>7. CASE MergePR
  <2>1. cur \in Issues /\ pushed[cur] \in 0..MaxCommits /\ step = "merge_pr"
    BY <1>1, <1>7, CurIsIssue DEF MergePR, TreesOK, Branches
  <2>2. pushed[cur] = call.wanted /\ (call.request \/ origin.issues[cur] > 0)
    BY <2>1 DEF PublishInv
  <2>3. CASE call.request
    <3>1. origin'.issues[cur] = call.wanted
      BY <1>1, <1>7, <2>1, <2>2, <2>3, TreeUpdate DEF MergePR, TreesOK
    <3>2. step' = "idle" \/ (step' = "refresh" /\ UNCHANGED call)
      BY <1>7 DEF MergePR, Goes, Returns
    <3> QED
      BY <1>2, <1>5, <3>1, <3>2 DEF PublishInv
  <2>4. CASE ~call.request
    <3>1. UNCHANGED origin /\ origin.issues[cur] > 0
      BY <1>7, <2>2, <2>4 DEF MergePR
    <3>2. step' = "idle" \/ (step' = "refresh" /\ UNCHANGED call)
      BY <1>7 DEF MergePR, Goes, Returns
    <3> QED
      BY <1>5, <2>4, <3>1, <3>2 DEF PublishInv
  <2> QED
    BY <2>3, <2>4
<1>8. CASE Push
  <2>1. cur \in Issues /\ origin' = base /\ step = "push" /\ step' = "close" /\ UNCHANGED call
    BY <1>1, <1>8, CurIsIssue DEF Push, Goes
  <2>2. origin'.issues[cur] = call.wanted
    BY <1>1, <2>1 DEF MergeInv
  <2> QED
    BY <1>2, <1>5, <2>1, <2>2 DEF PublishInv
<1>9. CASE ~PushBranch /\ ~MergePR /\ ~Push
  <2>1. UNCHANGED pushed
    BY <1>9, PublishSteps DEF IInv
  <2>2. ASSUME UNCHANGED call, step = "refresh" \/ (step = "close" /\ mode # "directory")
        PROVE  origin'.issues[cur] >= call.wanted \/ (~call.request /\ origin'.issues[cur] > 0)
    <3>1. /\ cur \in Issues
          /\ origin.issues[cur] >= call.wanted \/ (~call.request /\ origin.issues[cur] > 0)
      BY <1>1, <2>2, CurIsIssue DEF PublishInv
    <3> QED
      BY <1>2, <3>1, OriginGrows
  <2>0. ASSUME UNCHANGED call, step \in {"checks", "merge_pr"}
        PROVE  pushed[cur] = call.wanted /\ (call.request \/ origin'.issues[cur] > 0)
    <3>1. /\ cur \in Issues /\ pushed[cur] = call.wanted
          /\ call.request \/ origin.issues[cur] > 0
      BY <1>1, <2>0, CurIsIssue DEF PublishInv
    <3> QED
      BY <3>1, OriginGrows
  <2>3. CASE UNCHANGED <<step, call>>
    BY <1>4, <1>5, <2>0, <2>1, <2>2, <2>3 DEF PublishInv
  <2>4. CASE step = "checks" /\ step' = "merge_pr" /\ UNCHANGED call
    BY <1>5, <2>0, <2>1, <2>4 DEF PublishInv
  <2>5. CASE step = "refresh" /\ step' = "close" /\ UNCHANGED call
    BY <1>5, <2>2, <2>5 DEF PublishInv
  <2>6. CASE step' = "close" /\ mode = "directory"
    BY <1>4, <1>5, <2>6 DEF PublishInv
  <2>7. CASE step' \notin {"checks", "merge_pr", "refresh", "close"}
    BY <1>5, <2>7 DEF PublishInv
  <2> QED
    BY <1>9, <2>3, <2>4, <2>5, <2>6, <2>7, PublishSteps DEF IInv
<1> QED
  BY <1>6, <1>7, <1>8, <1>9

(* What a merge found on an issue's branch is in the base branch at origin *)
(* when the issue is done and stays there, whatever is merged, pushed,     *)
(* rolled back and reset later.  The one exception is an issue whose last  *)
(* merge found a pull request that was merged before: something of the     *)
(* branch is at origin then, and maybe not what was committed since.       *)
THEOREM WorkspaceDoneIsPublished == Spec => []DoneIsPublished
<1>1. Init => PublishInv
  BY NothingFields DEF Init, PublishInv, DoneInv, DoneIsPublished
<1>2. IInv /\ PublishInv /\ [Next]_vars => PublishInv'
  BY PublishNext
<1>3. PublishInv => DoneIsPublished
  BY DEF PublishInv, DoneInv
<1> QED
  BY <1>1, <1>2, <1>3, WorkspaceInvariant, PTL DEF Spec
=============================================================================
