------------------------------ MODULE Tracker ------------------------------
(***************************************************************************)
(* The client of the issue tracker (internal/tracker/linear.go): one call  *)
(* of one project's orchestrator, request by request, at a Linear server   *)
(* whose issues and workflow states people change between the requests.    *)
(*                                                                         *)
(* An issue is its place in the server's order, a workflow state likewise: *)
(* that is the order in which pages list them.  Of an issue only the state *)
(* is kept; names are compared without case, so they are one here.         *)
(***************************************************************************)
EXTENDS Naturals, Sequences, FiniteSets, SequencesExt

CONSTANTS
    NumIssues, NumStates,
    PageSize,       \* what the paged queries ask for: 50 issues, 100 states
    DefaultPage,    \* what the server answers to a query that names no size
    MaxEdits        \* bound: people's edits during one call

ASSUME TrackerAssumption ==
    /\ NumIssues \in Nat \ {0} /\ NumStates \in Nat \ {0}
    /\ PageSize \in Nat \ {0} /\ DefaultPage \in Nat \ {0} /\ MaxEdits \in Nat

Issues == 1..NumIssues
States == 1..NumStates
Preferences == {p \in SeqOf(States, 2) : IsInjective(p)}

VARIABLES
    state,     \* of the issues, at the server
    team,      \* the team's workflow states, at the server
    call,      \* the call in progress
    outcome,   \* how the last call ended
    stayed,    \* history: issues that matched the call all along
    ever,      \* history: issues that matched it at some time
    kept,      \* history: workflow states the team had all along
    been,      \* history: states the call's issue was in
    edits

server == <<state, team>>
history == <<stayed, ever, kept, been, edits>>
vars == <<server, call, outcome, history>>

Idle == [op |-> "idle"]
None == [kind |-> "none"]
Failed == [kind |-> "failed"]
Issued(listed) == [kind |-> "issues", issues |-> listed]
ByID(listed) == [kind |-> "by_ids", issues |-> listed]
Moved == [kind |-> "moved", state |-> call.target, preferred |-> call.preferred]

InStates(wanted) == {i \in Issues : state[i] \in wanted}

\* What a query finds behind the cursor, and the page it answers with: in order, as
\* many as fit.
Rest(found, after) == {x \in found : x > after}
Place(x, set) == Cardinality({y \in set : y <= x})
Page(found, after, size) ==
    LET rest == Rest(found, after)
        length == IF Cardinality(rest) > size THEN size ELSE Cardinality(rest)
    IN [n \in 1..length |-> CHOOSE x \in rest : Place(x, rest) = n]
HasNextPage(found, after, size) == Cardinality(Rest(found, after)) > size

Init ==
    /\ state \in [Issues -> States] /\ team = States
    /\ call = Idle /\ outcome = None
    /\ stayed = {} /\ ever = {} /\ kept = {} /\ been = {} /\ edits = 0
-----------------------------------------------------------------------------
(* A call begins and ends; a history is of one call.                       *)

Begin(c, matching, inStates) ==
    /\ call' = c /\ outcome' = None
    /\ stayed' = matching /\ ever' = matching
    /\ kept' = team /\ been' = inStates /\ edits' = 0
    /\ UNCHANGED server

Return(result) == call' = Idle /\ outcome' = result

\* The call needs no request.
ReturnAtOnce(result) ==
    /\ Return(result)
    /\ stayed' = {} /\ ever' = {} /\ kept' = {} /\ been' = {} /\ edits' = 0
    /\ UNCHANGED server

\* Mutant of RequestFails: a fetch returns the pages it has.
RequestFailsHalfway ==
    /\ call.op \in {"fetch", "by_ids", "find", "find_one", "update"}
    /\ Return(IF call.op = "fetch" THEN Issued(call.got) ELSE Failed)
    /\ UNCHANGED <<server, history>>

\* A request that fails, is refused or answers with what the client cannot read or
\* lacks the cursor of its next page ends the call; it is not sent again.
RequestFails ==
    /\ call.op \in {"fetch", "by_ids", "find", "find_one", "update"}
    /\ Return(Failed)
    /\ UNCHANGED <<server, history>>
-----------------------------------------------------------------------------
(* Fetches.                                                                *)

FetchIssuesByStates(wanted) ==
    /\ call = Idle
    /\ IF wanted = {}
       THEN ReturnAtOnce(Issued(<<>>))
       ELSE Begin([op |-> "fetch", wanted |-> wanted, after |-> 0, got |-> <<>>],
                  InStates(wanted), {})

WithStates(issues) == [n \in DOMAIN issues |-> [id |-> issues[n], state |-> state[issues[n]]]]

\* Mutant of IssuesPage: the cursor is not sent on.
IssuesPageAgain ==
    /\ call.op = "fetch"
    /\ LET found == InStates(call.wanted)
           got == call.got \o WithStates(Page(found, 0, PageSize))
       IN IF HasNextPage(found, call.after, PageSize)
          THEN /\ call' = [call EXCEPT !.got = got,
                                       !.after = Last(Page(found, @, PageSize))]
               /\ UNCHANGED outcome
          ELSE Return(Issued(got))
    /\ UNCHANGED <<server, history>>

IssuesPage ==
    /\ call.op = "fetch"
    /\ LET found == InStates(call.wanted)
           page == Page(found, call.after, PageSize)
           got == call.got \o WithStates(page)
       IN IF HasNextPage(found, call.after, PageSize)
          THEN call' = [call EXCEPT !.got = got, !.after = Last(page)] /\ UNCHANGED outcome
          ELSE Return(Issued(got))
    /\ UNCHANGED <<server, history>>

FetchIssueStatesByIDs(ids) ==
    /\ call = Idle
    /\ IF ids = {}
       THEN ReturnAtOnce(ByID(<<>>))
       ELSE Begin([op |-> "by_ids", ids |-> ids], ids, {})

\* One request, which asks for no page size and reads no next page.
IssuesAnswer ==
    /\ call.op = "by_ids"
    /\ Return(ByID(WithStates(Page(call.ids, 0, DefaultPage))))
    /\ UNCHANGED <<server, history>>
-----------------------------------------------------------------------------
(* Moves.                                                                  *)

MoveIssueToFirstAvailableState(i, preferred) ==
    /\ call = Idle
    /\ IF preferred = <<>>
       THEN ReturnAtOnce(Failed)
       ELSE Begin([op |-> "find", issue |-> i, preferred |-> preferred,
                   after |-> 0, names |-> {}], {}, {state[i]})

\* The first preference among the names, if there is one.
FirstAvailable(preferred, names) ==
    {s \in names : \E n \in DOMAIN preferred :
        /\ preferred[n] = s
        /\ \A k \in 1..(n - 1) : preferred[k] \notin names}

Choose(names, preferred) ==
    IF FirstAvailable(preferred, names) = {}
    THEN Return(Failed)
    ELSE /\ \E s \in FirstAvailable(preferred, names) :
                call' = [op |-> "update", issue |-> call.issue, target |-> s,
                         preferred |-> preferred]
         /\ UNCHANGED outcome

\* Mutant of StatesPage: it stops at the first page that has a preferred state.
StatesPageEager ==
    /\ call.op = "find"
    /\ LET page == Page(team, call.after, PageSize)
           names == call.names \cup ToSet(page)
       IN IF /\ HasNextPage(team, call.after, PageSize)
             /\ FirstAvailable(call.preferred, names) = {}
          THEN call' = [call EXCEPT !.names = names, !.after = Last(page)]
               /\ UNCHANGED outcome
          ELSE Choose(names, call.preferred)
    /\ UNCHANGED <<server, history>>

\* findIssueWorkflowStateID reads every page before it chooses.
StatesPage ==
    /\ call.op = "find"
    /\ LET page == Page(team, call.after, PageSize)
           names == call.names \cup ToSet(page)
       IN IF HasNextPage(team, call.after, PageSize)
          THEN call' = [call EXCEPT !.names = names, !.after = Last(page)]
               /\ UNCHANGED outcome
          ELSE Choose(names, call.preferred)
    /\ UNCHANGED <<server, history>>

\* known is the state of the caller's copy of the issue; the orchestrator calls only
\* for another one.
TransitionIssueState(i, known, s) ==
    /\ call = Idle /\ known # s
    /\ Begin([op |-> "find_one", issue |-> i, preferred |-> <<s>>], {}, {state[i]})

\* findIssueTeamStateID reads one page.
StatesAnswer ==
    /\ call.op = "find_one"
    /\ Choose(ToSet(Page(team, 0, PageSize)), call.preferred)
    /\ UNCHANGED <<server, history>>

\* The server applies issueUpdate, unless the state is gone by now.
UpdateApplied ==
    /\ call.op = "update" /\ call.target \in team
    /\ state' = [state EXCEPT ![call.issue] = call.target]
    /\ been' = been \cup {call.target}
    /\ call' = [op |-> "answer", issue |-> call.issue, target |-> call.target,
                preferred |-> call.preferred]
    /\ UNCHANGED <<team, outcome, stayed, ever, kept, edits>>

AnswerLost ==
    /\ call.op = "answer"
    /\ Return(Failed)
    /\ UNCHANGED <<server, history>>

AnswerReceived ==
    /\ call.op = "answer"
    /\ Return(Moved)
    /\ UNCHANGED <<server, history>>
-----------------------------------------------------------------------------
(* People, between two requests.                                           *)

Edited ==
    /\ call # Idle /\ edits < MaxEdits
    /\ edits' = edits + 1
    /\ UNCHANGED <<call, outcome>>

Matching == IF call.op = "fetch" THEN {i \in Issues : state'[i] \in call.wanted} ELSE stayed

PeopleMove(i, s) ==
    /\ Edited
    /\ s \in team /\ s # state[i]
    /\ state' = [state EXCEPT ![i] = s]
    /\ stayed' = stayed \cap Matching /\ ever' = ever \cup Matching
    /\ been' = IF "issue" \in DOMAIN call /\ call.issue = i THEN been \cup {s} ELSE been
    /\ UNCHANGED <<team, kept>>

PeopleAddState(s) ==
    /\ Edited
    /\ s \notin team /\ team' = team \cup {s}
    /\ UNCHANGED <<state, stayed, ever, kept, been>>

PeopleRemoveState(s) ==
    /\ Edited
    /\ s \in team /\ \A i \in Issues : state[i] # s
    /\ team' = team \ {s} /\ kept' = kept \ {s}
    /\ UNCHANGED <<state, stayed, ever, been>>

Call ==
    \/ \E wanted \in SUBSET States : FetchIssuesByStates(wanted)
    \/ \E ids \in SUBSET Issues : FetchIssueStatesByIDs(ids)
    \/ \E i \in Issues, p \in Preferences : MoveIssueToFirstAvailableState(i, p)
    \/ \E i \in Issues, known, s \in States : TransitionIssueState(i, known, s)

Request ==
    \/ IssuesPage \/ IssuesAnswer
    \/ StatesPage \/ StatesAnswer
    \/ UpdateApplied \/ AnswerLost \/ AnswerReceived
    \/ RequestFails

People ==
    \/ \E i \in Issues, s \in States : PeopleMove(i, s)
    \/ \E s \in States : PeopleAddState(s) \/ PeopleRemoveState(s)

Next == Call \/ Request \/ People

Spec == Init /\ [][Next]_vars
-----------------------------------------------------------------------------
TypeOK ==
    /\ state \in [Issues -> States] /\ team \subseteq States
    /\ \A i \in Issues : state[i] \in team
    /\ call.op \in {"idle", "fetch", "by_ids", "find", "find_one", "update", "answer"}
    /\ outcome.kind \in {"none", "failed", "issues", "by_ids", "moved"}
    /\ call.op = "fetch" =>
        call.after = (IF call.got = <<>> THEN 0 ELSE Last(call.got).id)
    /\ stayed \subseteq ever /\ ever \subseteq Issues
    /\ kept \subseteq team /\ been \subseteq States /\ edits \in 0..MaxEdits

Lists(ids) ==
    LET listed == [n \in DOMAIN outcome.issues |-> outcome.issues[n].id]
    IN IsInjective(listed) /\ ids \subseteq ToSet(listed) /\ ToSet(listed) \subseteq ever

\* However people move issues between its pages, a fetch that succeeds lists every
\* issue that was in a wanted state all along, none twice and none that never was.
\* The orchestrator ends the session of an issue that a fetch by ids leaves out: for
\* that fetch it holds for as many ids as the server puts in one answer.
FetchIsComplete ==
    /\ outcome.kind = "issues" => Lists(stayed)
    /\ outcome.kind = "by_ids" /\ Cardinality(stayed) <= DefaultPage => Lists(stayed)

\* A move that succeeds had the issue in the state it reports, and the team had none
\* of the states preferred to it all through the call.
MoveIsHonest ==
    outcome.kind = "moved" =>
        /\ outcome.state \in been
        /\ \E n \in DOMAIN outcome.preferred :
            /\ outcome.preferred[n] = outcome.state
            /\ \A k \in 1..(n - 1) : outcome.preferred[k] \notin kept
=============================================================================
