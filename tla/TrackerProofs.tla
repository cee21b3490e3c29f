---------------------------- MODULE TrackerProofs ----------------------------
(***************************************************************************)
(* Proofs about Tracker, for any numbers of issues and workflow states and *)
(* any page sizes.                                                         *)
(***************************************************************************)
EXTENDS Tracker, SequenceTheorems, FiniteSetTheorems, TLAPS

(* Pages: the places of a finite set's elements are its first numbers.     *)

LEMMA Places ==
  ASSUME NEW S \in SUBSET Nat, IsFiniteSet(S)
  PROVE  /\ Cardinality(S) \in Nat
         /\ \A x \in S : Place(x, S) \in 1 .. Cardinality(S)
         /\ \A x, y \in S : x < y => Place(x, S) < Place(y, S)
         /\ \A n \in 1 .. Cardinality(S) : \E x \in S : Place(x, S) = n
<1>1. Cardinality(S) \in Nat
  BY FS_CardinalityType
<1>2. ASSUME NEW x \in S PROVE Place(x, S) \in 1 .. Cardinality(S)
  <2> DEFINE below == {y \in S : y <= x}
  <2>1. below \in SUBSET S /\ x \in below
    OBVIOUS
  <2> HIDE DEF below
  <2>2. IsFiniteSet(below) /\ Cardinality(below) <= Cardinality(S)
    BY <2>1, FS_Subset
  <2>3. Cardinality(below) \in Nat /\ Cardinality(below) # 0
    BY <2>1, <2>2, FS_CardinalityType, FS_EmptySet
  <2> QED
    BY <1>1, <2>2, <2>3 DEF Place, below
<1>3. ASSUME NEW x \in S, NEW y \in S, x < y PROVE Place(x, S) < Place(y, S)
  <2> DEFINE low == {z \in S : z <= x}
             high == {z \in S : z <= y}
  <2>0. \A z \in S : z \in Nat
    OBVIOUS
  <2>1. high \in SUBSET S /\ low \in SUBSET high /\ y \in high /\ y \notin low
    <3>1. \A z \in S : z <= x => z <= y
      BY <1>3, <2>0
    <3>2. y <= y /\ ~(y <= x)
      BY <1>3, <2>0
    <3> QED
      BY <3>1, <3>2
  <2> HIDE DEF low, high
  <2>2. IsFiniteSet(high)
    BY <2>1, FS_Subset
  <2>3. Cardinality(low) <= Cardinality(high) /\ Cardinality(low) # Cardinality(high)
    BY <2>1, <2>2, FS_Subset
  <2> QED
    BY <1>2, <2>3 DEF Place, low, high
<1>4. ASSUME NEW n \in 1 .. Cardinality(S) PROVE \E x \in S : Place(x, S) = n
  <2> DEFINE T == 1 .. Cardinality(S)
             f == [x \in S |-> Place(x, S)]
  <2>1. f \in Injection(S, T)
    <3>1. f \in [S -> T]
      BY <1>2
    <3>2. \A x, y \in S : f[x] = f[y] => x = y
      BY <1>2, <1>3
    <3> QED
      BY <3>1, <3>2 DEF Injection, IsInjective
  <2>2. IsFiniteSet(T) /\ Cardinality(T) = Cardinality(S)
    BY <1>1, FS_Interval
  <2>3. f \in Surjection(S, T)
    BY <2>1, <2>2, FS_Injection
  <2>4. PICK x \in S : f[x] = n
    BY <2>3 DEF Surjection
  <2> QED
    BY <2>4
<1> QED
  BY <1>1, <1>2, <1>3, <1>4

(* A page is in order, is of what is behind the cursor, and has all of that *)
(* up to its last element, or all of it if no page follows.                *)
LEMMA Pages ==
  ASSUME NEW found \in SUBSET Nat, IsFiniteSet(found), NEW after \in Nat, NEW size \in Nat \ {0}
  PROVE  LET page == Page(found, after, size) IN
         /\ page \in Seq(Rest(found, after))
         /\ \A j, k \in DOMAIN page : j < k => page[j] < page[k]
         /\ HasNextPage(found, after, size) =>
              /\ page # <<>>
              /\ \A x \in Rest(found, after) : x <= Last(page) => \E k \in DOMAIN page : page[k] = x
         /\ ~HasNextPage(found, after, size) =>
              \A x \in Rest(found, after) : \E k \in DOMAIN page : page[k] = x
<1> DEFINE S == Rest(found, after)
           length == IF Cardinality(S) > size THEN size ELSE Cardinality(S)
           at(n) == CHOOSE x \in S : Place(x, S) = n
           page == Page(found, after, size)
<1>1. S \in SUBSET Nat /\ IsFiniteSet(S)
  BY FS_Subset DEF Rest
<1>2. page = [n \in 1 .. length |-> at(n)]
  BY DEF Page
<1>3. HasNextPage(found, after, size) <=> Cardinality(S) > size
  BY DEF HasNextPage
<1> HIDE DEF S, page
<1>4. /\ Cardinality(S) \in Nat
      /\ \A x \in S : Place(x, S) \in 1 .. Cardinality(S)
      /\ \A x, y \in S : x < y => Place(x, S) < Place(y, S)
      /\ \A n \in 1 .. Cardinality(S) : \E x \in S : Place(x, S) = n
  BY <1>1, Places
<1>5. length \in 0 .. Cardinality(S) /\ length \in Nat
  BY <1>4
<1>6. \A n \in 1 .. Cardinality(S) : at(n) \in S /\ Place(at(n), S) = n
  BY <1>4
<1>7. \A x \in S : at(Place(x, S)) = x
  <2>1. \A x, y \in S : Place(x, S) = Place(y, S) => x = y
    BY <1>1, <1>4
  <2> QED
    BY <1>4, <1>6, <2>1
<1>8. \A j, k \in 1 .. Cardinality(S) : j < k => at(j) < at(k)
  <2> SUFFICES ASSUME NEW j \in 1 .. Cardinality(S), NEW k \in 1 .. Cardinality(S), j < k
               PROVE  at(j) < at(k)
    OBVIOUS
  <2>1. at(j) \in S /\ at(k) \in S /\ Place(at(j), S) = j /\ Place(at(k), S) = k
    BY <1>6
  <2> DEFINE a == at(j)
             b == at(k)
  <2>2. a \in S /\ b \in S /\ Place(a, S) = j /\ Place(b, S) = k
    BY <2>1
  <2> HIDE DEF a, b
  <2>3. a \in Nat /\ b \in Nat
    BY <1>1, <2>2
  <2>4. a # b /\ ~(b < a)
    BY <1>4, <2>2
  <2>5. a < b
    BY <2>3, <2>4
  <2> QED
    BY <2>5 DEF a, b
<1> HIDE DEF at, length
<1>9. /\ DOMAIN page = 1 .. length
      /\ \A n \in 1 .. length : page[n] = at(n) /\ n \in 1 .. Cardinality(S)
  BY <1>2, <1>4, <1>5
<1>10. page \in Seq(S)
  <2>1. page \in [1 .. length -> S]
    BY <1>2, <1>6, <1>9
  <2> QED
    BY <1>5, <2>1, SeqDef
<1>11. \A j, k \in DOMAIN page : j < k => page[j] < page[k]
  BY <1>8, <1>9
<1>12. CASE Cardinality(S) > size
  <2>1. length = size
    BY <1>12 DEF length
  <2>2. Len(page) = size
    <3>1. DOMAIN page = 1 .. Len(page) /\ Len(page) \in Nat
      BY <1>10
    <3> QED
      BY <1>9, <2>1, <3>1
  <2>3. page # <<>> /\ Last(page) = at(size) /\ size \in 1 .. Cardinality(S)
    BY <1>9, <2>1, <2>2, EmptySeq DEF Last
  <2>4. ASSUME NEW x \in S, x <= Last(page) PROVE \E k \in DOMAIN page : page[k] = x
    <3> DEFINE last == at(size)
    <3>1. Place(last, S) = size /\ last \in S /\ x <= last
      BY <1>6, <2>3, <2>4
    <3> HIDE DEF last
    <3>2. Place(x, S) <= size
      <4>0. x \in Nat /\ last \in Nat
        BY <1>1, <3>1
      <4>1. CASE x = last
        BY <3>1, <4>1
      <4>2. CASE x # last
        <5>1. x < last
          BY <3>1, <4>0, <4>2
        <5> QED
          BY <1>4, <3>1, <5>1
      <4> QED
        BY <4>1, <4>2
    <3>3. Place(x, S) \in 1 .. length
      BY <1>4, <2>1, <3>2
    <3> QED
      BY <1>7, <1>9, <3>3
  <2> QED
    BY <1>3, <1>10, <1>11, <1>12, <2>3, <2>4 DEF S, page
<1>13. CASE ~(Cardinality(S) > size)
  <2>1. \A x \in S : Place(x, S) \in 1 .. length
    BY <1>4, <1>13 DEF length
  <2>2. \A x \in S : \E k \in DOMAIN page : page[k] = x
    BY <1>7, <1>9, <2>1
  <2> QED
    BY <1>3, <1>10, <1>11, <1>13, <2>2 DEF S, page
<1> QED
  BY <1>12, <1>13

-----------------------------------------------------------------------------
(***************************************************************************)
(* The inductive invariant: the call has the fields of its operation, and  *)
(* what it has read so far is complete up to its cursor.                   *)
(***************************************************************************)
Listed == [id : Issues, state : States]

CallType ==
    /\ call.op \in {"idle", "fetch", "by_ids", "find", "find_one", "update", "answer"}
    /\ call.op = "idle" => call = Idle
    /\ call.op = "fetch" =>
         /\ call = [op |-> call.op, wanted |-> call.wanted, after |-> call.after, got |-> call.got]
         /\ call.wanted \subseteq States /\ call.after \in Nat /\ call.got \in Seq(Listed)
    /\ call.op = "by_ids" =>
         call = [op |-> call.op, ids |-> call.ids] /\ call.ids \subseteq Issues
    /\ call.op = "find" =>
         /\ call = [op |-> call.op, issue |-> call.issue, preferred |-> call.preferred,
                    after |-> call.after, names |-> call.names]
         /\ call.issue \in Issues /\ call.preferred \in Seq(States)
         /\ call.after \in Nat /\ call.names \subseteq States
    /\ call.op = "find_one" =>
         /\ call = [op |-> call.op, issue |-> call.issue, preferred |-> call.preferred]
         /\ call.issue \in Issues /\ call.preferred \in Seq(States)
    /\ call.op \in {"update", "answer"} =>
         /\ call = [op |-> call.op, issue |-> call.issue, target |-> call.target,
                    preferred |-> call.preferred]
         /\ call.issue \in Issues /\ call.target \in States /\ call.preferred \in Seq(States)

\* Of the issues that have matched since the call began, those up to the cursor are
\* in hand; what is in hand matched at some time and is in order.
FetchInv ==
    /\ call.op = "fetch" =>
         /\ stayed \subseteq InStates(call.wanted) /\ InStates(call.wanted) \subseteq ever
         /\ \A j, k \in DOMAIN call.got : j < k => call.got[j].id < call.got[k].id
         /\ \A k \in DOMAIN call.got : call.got[k].id \in ever /\ call.got[k].id <= call.after
         /\ \A i \in stayed : i <= call.after => \E k \in DOMAIN call.got : call.got[k].id = i
    /\ call.op = "by_ids" => stayed = call.ids /\ ever = call.ids

\* The state is preferred, and the team had none of those before it all along.
FirstChoice(s, preferred) ==
    \E n \in DOMAIN preferred :
        preferred[n] = s /\ \A k \in 1 .. (n - 1) : preferred[k] \notin kept

\* Of the states the team had all along, those up to the cursor are known.
MoveInv ==
    /\ call.op = "find" => \A s \in kept : s <= call.after => s \in call.names
    /\ call.op = "find_one" => Len(call.preferred) = 1
    /\ call.op \in {"update", "answer"} => FirstChoice(call.target, call.preferred)
    /\ call.op = "answer" => call.target \in been

IInv ==
    /\ TypeOK /\ CallType /\ FetchInv /\ MoveInv
    /\ call.op # "idle" => outcome = None
    /\ FetchIsComplete /\ MoveIsHonest

LEMMA InitInv == Init => IInv
<1> SUFFICES ASSUME Init PROVE IInv
  OBVIOUS
<1>1. call.op = "idle" /\ call = Idle /\ outcome.kind = "none"
  BY DEF Init, Idle, None
<1>2. TypeOK
  BY <1>1, TrackerAssumption DEF Init, TypeOK
<1> QED
  BY <1>1, <1>2 DEF IInv, CallType, FetchInv, MoveInv, FetchIsComplete, MoveIsHonest
-----------------------------------------------------------------------------
(* A call begins, or returns.                                              *)

LEMMA ReturnInv ==
  ASSUME IInv, call' = Idle, UNCHANGED <<server, history>>,
         outcome'.kind \in {"none", "failed", "issues", "by_ids", "moved"},
         FetchIsComplete', MoveIsHonest'
  PROVE  IInv'
<1>1. call'.op = "idle"
  BY DEF Idle
<1>2. TypeOK'
  BY <1>1 DEF IInv, TypeOK, server, history
<1>3. CallType' /\ FetchInv' /\ MoveInv'
  BY <1>1 DEF CallType, FetchInv, MoveInv
<1> QED
  BY <1>1, <1>2, <1>3 DEF IInv

LEMMA FailInv == IInv /\ Return(Failed) /\ UNCHANGED <<server, history>> => IInv'
<1> SUFFICES ASSUME IInv, Return(Failed), UNCHANGED <<server, history>> PROVE IInv'
  OBVIOUS
<1>1. call' = Idle /\ outcome'.kind = "failed"
  BY DEF Return, Failed
<1>2. FetchIsComplete' /\ MoveIsHonest'
  BY <1>1 DEF FetchIsComplete, MoveIsHonest
<1> QED
  BY <1>1, <1>2, ReturnInv

(* What is listed in order is listed once.                                 *)
LEMMA ListsInOrder ==
  ASSUME NEW issues, NEW ids, NEW matched, issues \in Seq(Listed),
         \A j, k \in DOMAIN issues : j < k => issues[j].id < issues[k].id,
         \A k \in DOMAIN issues : issues[k].id \in matched,
         \A i \in ids : \E k \in DOMAIN issues : issues[k].id = i
  PROVE  LET listed == [n \in DOMAIN issues |-> issues[n].id]
         IN IsInjective(listed) /\ ids \subseteq ToSet(listed) /\ ToSet(listed) \subseteq matched
<1> DEFINE listed == [n \in DOMAIN issues |-> issues[n].id]
<1>1. \A k \in DOMAIN issues : k \in Nat /\ issues[k].id \in Nat
  <2> SUFFICES ASSUME NEW k \in DOMAIN issues PROVE k \in Nat /\ issues[k].id \in Nat
    OBVIOUS
  <2>1. k \in Nat /\ issues[k] \in Listed
    OBVIOUS
  <2>2. issues[k].id \in 1 .. NumIssues
    BY <2>1 DEF Listed, Issues
  <2> QED
    BY <2>1, <2>2, TrackerAssumption
<1>2. \A j, k \in DOMAIN issues : issues[j].id = issues[k].id => j = k
  BY <1>1
<1>3. IsInjective(listed)
  BY <1>2 DEF IsInjective
<1>4. ids \subseteq ToSet(listed) /\ ToSet(listed) \subseteq matched
  BY DEF ToSet
<1> QED
  BY <1>3, <1>4

LEMMA ReturnAtOnceInv ==
  ASSUME IInv, NEW result, ReturnAtOnce(result),
         result \in {Failed, Issued(<<>>), ByID(<<>>)}
  PROVE  IInv'
<1>1. /\ call' = Idle /\ outcome' = result /\ UNCHANGED <<state, team>>
      /\ stayed' = {} /\ ever' = {} /\ kept' = {} /\ been' = {} /\ edits' = 0
  BY DEF ReturnAtOnce, Return, server
<1>2. call'.op = "idle"
  BY <1>1 DEF Idle
<1>3. /\ outcome'.kind \in {"failed", "issues", "by_ids"}
      /\ outcome'.kind # "failed" => outcome'.issues = <<>>
  BY <1>1 DEF Failed, Issued, ByID
<1>4. TypeOK'
  BY <1>1, <1>2, <1>3, TrackerAssumption DEF IInv, TypeOK
<1>5. CallType' /\ FetchInv' /\ MoveInv'
  BY <1>1, <1>2 DEF CallType, FetchInv, MoveInv
<1>6. outcome'.kind # "failed" => Lists(stayed)'
  <2>1. ASSUME NEW s, s = <<>> PROVE DOMAIN s = {}
    BY <2>1
  <2> QED
    BY <1>1, <1>3, <2>1 DEF Lists, IsInjective, ToSet
<1>7. FetchIsComplete' /\ MoveIsHonest'
  BY <1>3, <1>6 DEF FetchIsComplete, MoveIsHonest
<1> QED
  BY <1>2, <1>4, <1>5, <1>7 DEF IInv

LEMMA BeginInv ==
  ASSUME IInv, NEW c, NEW matching, NEW inStates, Begin(c, matching, inStates),
         c.op \in {"fetch", "by_ids", "find", "find_one"},
         c.op = "fetch" => c.after = 0 /\ c.got = <<>>,
         matching \subseteq Issues, inStates \subseteq States,
         CallType', FetchInv', MoveInv'
  PROVE  IInv'
<1>1. /\ call' = c /\ outcome' = None /\ UNCHANGED <<state, team>>
      /\ stayed' = matching /\ ever' = matching
      /\ kept' = team /\ been' = inStates /\ edits' = 0
  BY DEF Begin, server
<1>2. outcome'.kind = "none"
  BY <1>1 DEF None
<1>3. TypeOK'
  BY <1>1, <1>2, TrackerAssumption DEF IInv, TypeOK
<1> QED
  BY <1>1, <1>2, <1>3 DEF IInv, FetchIsComplete, MoveIsHonest

LEMMA CallInv == IInv /\ Call => IInv'
<1> SUFFICES ASSUME IInv, Call PROVE IInv'
  OBVIOUS
<1>1. ASSUME NEW wanted \in SUBSET States, FetchIssuesByStates(wanted) PROVE IInv'
  <2>1. CASE wanted = {}
    BY <1>1, <2>1, ReturnAtOnceInv DEF FetchIssuesByStates
  <2>2. CASE wanted # {}
    <3> DEFINE c == [op |-> "fetch", wanted |-> wanted, after |-> 0, got |-> <<>>]
    <3>1. Begin(c, InStates(wanted), {})
      BY <1>1, <2>2 DEF FetchIssuesByStates
    <3>2. /\ call' = c /\ state' = state
          /\ stayed' = InStates(wanted) /\ ever' = InStates(wanted)
      BY <3>1 DEF Begin, server
    <3>3. CallType'
      BY <3>2 DEF CallType
    <3>4. FetchInv'
      <4>1. InStates(wanted)' = InStates(wanted) /\ \A i \in InStates(wanted) : ~(i <= 0)
        BY <3>2 DEF InStates, Issues
      <4>2. \A k : k \notin DOMAIN c.got
        OBVIOUS
      <4>3. c.op = "fetch" /\ c.wanted = wanted /\ c.after = 0
        OBVIOUS
      <4> HIDE DEF c
      <4> QED
        BY <3>2, <4>1, <4>2, <4>3 DEF FetchInv
    <3>5. MoveInv'
      BY <3>2 DEF MoveInv
    <3>6. InStates(wanted) \subseteq Issues
      BY DEF InStates
    <3> QED
      BY <3>1, <3>3, <3>4, <3>5, <3>6, BeginInv
  <2> QED
    BY <2>1, <2>2
<1>2. ASSUME NEW ids \in SUBSET Issues, FetchIssueStatesByIDs(ids) PROVE IInv'
  <2>1. CASE ids = {}
    BY <1>2, <2>1, ReturnAtOnceInv DEF FetchIssueStatesByIDs
  <2>2. CASE ids # {}
    <3> DEFINE c == [op |-> "by_ids", ids |-> ids]
    <3>1. Begin(c, ids, {})
      BY <1>2, <2>2 DEF FetchIssueStatesByIDs
    <3>2. call' = c /\ stayed' = ids /\ ever' = ids
      BY <3>1 DEF Begin
    <3>3. CallType' /\ FetchInv' /\ MoveInv'
      BY <3>2 DEF CallType, FetchInv, MoveInv
    <3> QED
      BY <3>1, <3>3, BeginInv
  <2> QED
    BY <2>1, <2>2
<1>3. ASSUME NEW i \in Issues, NEW p \in Preferences, MoveIssueToFirstAvailableState(i, p)
      PROVE  IInv'
  <2>0. p \in Seq(States) /\ state[i] \in States
    <3>1. PICK m \in 0 .. 2 : p \in [1 .. m -> States]
      BY DEF Preferences, SeqOf
    <3>2. p \in Seq(States)
      BY <3>1, SeqDef
    <3> QED
      BY <3>2 DEF IInv, TypeOK
  <2>1. CASE p = <<>>
    BY <1>3, <2>1, ReturnAtOnceInv DEF MoveIssueToFirstAvailableState
  <2>2. CASE p # <<>>
    <3> DEFINE c == [op |-> "find", issue |-> i, preferred |-> p, after |-> 0, names |-> {}]
    <3>1. Begin(c, {}, {state[i]})
      BY <1>3, <2>2 DEF MoveIssueToFirstAvailableState
    <3>2. call' = c /\ stayed' = {} /\ ever' = {} /\ kept' = team
      BY <3>1 DEF Begin
    <3>3. CallType' /\ FetchInv'
      BY <2>0, <3>2 DEF CallType, FetchInv
    <3>4. \A s \in team : ~(s <= 0)
      BY DEF IInv, TypeOK, States
    <3>5. MoveInv'
      BY <3>2, <3>4 DEF MoveInv
    <3> QED
      BY <2>0, <3>1, <3>3, <3>5, BeginInv
  <2> QED
    BY <2>1, <2>2
<1>4. ASSUME NEW i \in Issues, NEW known \in States, NEW s \in States,
             TransitionIssueState(i, known, s)
      PROVE  IInv'
  <2> DEFINE c == [op |-> "find_one", issue |-> i, preferred |-> <<s>>]
  <2>1. Begin(c, {}, {state[i]}) /\ state[i] \in States
    BY <1>4 DEF TransitionIssueState, IInv, TypeOK
  <2>2. call' = c /\ <<s>> \in Seq(States) /\ Len(<<s>>) = 1
    BY <2>1 DEF Begin
  <2>3. CallType' /\ FetchInv' /\ MoveInv'
    BY <2>2 DEF CallType, FetchInv, MoveInv
  <2> QED
    BY <2>1, <2>3, BeginInv
<1> QED
  BY <1>1, <1>2, <1>3, <1>4 DEF Call

-----------------------------------------------------------------------------
(* Fetches.                                                                *)

LEMMA FoundIsFinite ==
  /\ \A S \in SUBSET Issues : S \in SUBSET Nat /\ IsFiniteSet(S)
  /\ \A S \in SUBSET States : S \in SUBSET Nat /\ IsFiniteSet(S)
<1>1. /\ Issues \subseteq Nat /\ IsFiniteSet(Issues)
      /\ States \subseteq Nat /\ IsFiniteSet(States)
  BY TrackerAssumption, FS_Interval DEF Issues, States
<1> QED
  BY <1>1, FS_Subset

LEMMA WithStatesSeq ==
  ASSUME TypeOK, NEW page \in Seq(Issues)
  PROVE  /\ WithStates(page) \in Seq(Listed)
         /\ Len(WithStates(page)) = Len(page) /\ DOMAIN WithStates(page) = DOMAIN page
         /\ \A n \in DOMAIN page : WithStates(page)[n].id = page[n]
<1>1. DOMAIN page = 1 .. Len(page) /\ Len(page) \in Nat
  OBVIOUS
<1>2. \A n \in DOMAIN page : [id |-> page[n], state |-> state[page[n]]] \in Listed
  BY DEF TypeOK, Listed
<1>3. /\ DOMAIN WithStates(page) = DOMAIN page
      /\ \A n \in DOMAIN page : WithStates(page)[n] = [id |-> page[n], state |-> state[page[n]]]
  BY DEF WithStates
<1>4. WithStates(page) \in [1 .. Len(page) -> Listed]
  BY <1>1, <1>2 DEF WithStates
<1>5. WithStates(page) \in Seq(Listed)
  BY <1>1, <1>4, SeqDef
<1>6. Len(WithStates(page)) = Len(page)
  <2> DEFINE s == WithStates(page)
             l == Len(s)
             m == Len(page)
  <2>1. 1 .. l = 1 .. m /\ l \in Nat /\ m \in Nat
    <3> HIDE DEF s
    <3>1. s \in Seq(Listed) /\ DOMAIN s = DOMAIN page
      BY <1>3, <1>5 DEF s
    <3> QED
      BY <1>1, <3>1
  <2> HIDE DEF l, m
  <2>2. l = m
    BY <2>1
  <2> QED
    BY <2>2 DEF l, m
<1> QED
  BY <1>3, <1>5, <1>6

LEMMA ListedIds == \A s \in Seq(Listed) : \A k \in DOMAIN s : s[k].id \in Nat
<1> SUFFICES ASSUME NEW s \in Seq(Listed), NEW k \in DOMAIN s PROVE s[k].id \in Nat
  OBVIOUS
<1>1. s[k] \in Listed
  OBVIOUS
<1> QED
  BY <1>1, TrackerAssumption DEF Listed, Issues

(* A page is appended: it lists what is behind the cursor.                 *)
LEMMA Joined ==
  ASSUME NEW a \in Seq(Listed), NEW b \in Seq(Listed), NEW after \in Nat,
         \A j, k \in DOMAIN a : j < k => a[j].id < a[k].id,
         \A j, k \in DOMAIN b : j < k => b[j].id < b[k].id,
         \A k \in DOMAIN a : a[k].id <= after,
         \A k \in DOMAIN b : b[k].id > after
  PROVE  /\ a \o b \in Seq(Listed)
         /\ \A j, k \in DOMAIN (a \o b) : j < k => (a \o b)[j].id < (a \o b)[k].id
         /\ \A k \in DOMAIN (a \o b) : \/ \E j \in DOMAIN a : (a \o b)[k] = a[j]
                                       \/ \E j \in DOMAIN b : (a \o b)[k] = b[j]
         /\ \A j \in DOMAIN a : \E k \in DOMAIN (a \o b) : (a \o b)[k] = a[j]
         /\ \A j \in DOMAIN b : \E k \in DOMAIN (a \o b) : (a \o b)[k] = b[j]
         /\ b # <<>> => a \o b # <<>> /\ Last(a \o b) = Last(b)
<1> DEFINE ab == a \o b
           l == Len(a)
           m == Len(b)
<1>1. /\ l \in Nat /\ m \in Nat
      /\ DOMAIN a = 1 .. l /\ DOMAIN b = 1 .. m
      /\ ab \in Seq(Listed) /\ Len(ab) = l + m /\ DOMAIN ab = 1 .. (l + m)
      /\ \A k \in 1 .. (l + m) : ab[k] = IF k <= l THEN a[k] ELSE b[k - l]
  BY ConcatProperties
<1>2. /\ \A k \in DOMAIN a : a[k].id \in Nat
      /\ \A k \in DOMAIN b : b[k].id \in Nat
  BY ListedIds
<1> HIDE DEF ab, l, m
<1>3. \A j \in DOMAIN a : j \in DOMAIN ab /\ ab[j] = a[j]
  BY <1>1
<1>4. \A j \in DOMAIN b : l + j \in DOMAIN ab /\ ab[l + j] = b[j]
  <2> SUFFICES ASSUME NEW j \in DOMAIN b PROVE l + j \in DOMAIN ab /\ ab[l + j] = b[j]
    OBVIOUS
  <2>1. l + j \in 1 .. (l + m) /\ ~(l + j <= l) /\ (l + j) - l = j
    BY <1>1
  <2> QED
    BY <1>1, <2>1
<1>5. \A k \in DOMAIN ab : \/ k \in DOMAIN a /\ ab[k] = a[k]
                           \/ ~(k <= l) /\ k - l \in DOMAIN b /\ ab[k] = b[k - l]
  BY <1>1
<1>6. ASSUME NEW j \in DOMAIN ab, NEW k \in DOMAIN ab, j < k PROVE ab[j].id < ab[k].id
  <2>0. j \in Nat /\ k \in Nat
    BY <1>1
  <2>1. CASE j \in DOMAIN a /\ k \in DOMAIN a
    BY <1>3, <1>6, <2>1
  <2>2. CASE j \in DOMAIN a /\ k \notin DOMAIN a
    <3>1. ab[j] = a[j] /\ k - l \in DOMAIN b /\ ab[k] = b[k - l]
      BY <1>3, <1>5, <2>2
    <3> QED
      BY <1>2, <2>2, <3>1
  <2>3. CASE j \notin DOMAIN a
    <3>1. j - l \in DOMAIN b /\ ab[j] = b[j - l] /\ ~(j <= l)
      BY <1>5, <2>3
    <3>2. k \notin DOMAIN a
      BY <1>1, <1>6, <2>0, <3>1
    <3>3. k - l \in DOMAIN b /\ ab[k] = b[k - l] /\ j - l < k - l
      BY <1>1, <1>5, <1>6, <2>0, <3>2
    <3> QED
      BY <3>1, <3>3
  <2> QED
    BY <2>1, <2>2, <2>3
<1>7. b # <<>> => ab # <<>> /\ Last(ab) = Last(b)
  <2> SUFFICES ASSUME b # <<>> PROVE ab # <<>> /\ Last(ab) = Last(b)
    OBVIOUS
  <2>1. m # 0
    BY <1>1, EmptySeq DEF m
  <2>2. l + m \in 1 .. (l + m) /\ ~(l + m <= l) /\ (l + m) - l = m
    BY <1>1, <2>1
  <2>3. ab[l + m] = b[m]
    BY <1>1, <2>2
  <2>4. ab # <<>>
    BY <1>1, <2>1, EmptySeq
  <2> QED
    BY <1>1, <2>3, <2>4 DEF Last, m
<1> QED
  BY <1>1, <1>3, <1>4, <1>5, <1>6, <1>7 DEF ab

(* A page moves the cursor, and what is in hand stays complete up to it.    *)
LEMMA IssuesPageInv == IInv /\ IssuesPage => IInv'
<1> SUFFICES ASSUME IInv, IssuesPage PROVE IInv'
  OBVIOUS
<1> DEFINE found == InStates(call.wanted)
           page == Page(found, call.after, PageSize)
           items == WithStates(page)
           got == call.got \o items
<1>1. /\ call.op = "fetch" /\ TypeOK /\ CallType
      /\ call = [op |-> call.op, wanted |-> call.wanted, after |-> call.after, got |-> call.got]
      /\ call.wanted \subseteq States /\ call.after \in Nat /\ call.got \in Seq(Listed)
      /\ stayed \subseteq found /\ found \subseteq ever
      /\ \A j, k \in DOMAIN call.got : j < k => call.got[j].id < call.got[k].id
      /\ \A k \in DOMAIN call.got : call.got[k].id \in ever /\ call.got[k].id <= call.after
      /\ \A i \in stayed : i <= call.after => \E k \in DOMAIN call.got : call.got[k].id = i
  BY DEF IssuesPage, IInv, CallType, FetchInv
<1>2. found \in SUBSET Issues /\ found \in SUBSET Nat /\ IsFiniteSet(found)
  BY FoundIsFinite DEF InStates
<1>3. /\ page \in Seq(Rest(found, call.after))
      /\ \A j, k \in DOMAIN page : j < k => page[j] < page[k]
      /\ HasNextPage(found, call.after, PageSize) =>
           /\ page # <<>>
           /\ \A x \in Rest(found, call.after) :
                x <= Last(page) => \E k \in DOMAIN page : page[k] = x
      /\ ~HasNextPage(found, call.after, PageSize) =>
           \A x \in Rest(found, call.after) : \E k \in DOMAIN page : page[k] = x
  <2> HIDE DEF found
  <2>1. PageSize \in Nat \ {0}
    BY TrackerAssumption
  <2> QED
    BY <1>1, <1>2, <2>1, Pages
<1> HIDE DEF page
<1>4. /\ page \in Seq(Issues)
      /\ \A k \in DOMAIN page : page[k] \in found /\ page[k] > call.after
  BY <1>2, <1>3 DEF Rest
<1>5. /\ items \in Seq(Listed) /\ Len(items) = Len(page) /\ DOMAIN items = DOMAIN page
      /\ \A n \in DOMAIN page : items[n].id = page[n]
  BY <1>1, <1>4, WithStatesSeq
<1> HIDE DEF items
<1>6. /\ got \in Seq(Listed)
      /\ \A j, k \in DOMAIN got : j < k => got[j].id < got[k].id
      /\ \A k \in DOMAIN got : \/ \E j \in DOMAIN call.got : got[k] = call.got[j]
                               \/ \E j \in DOMAIN items : got[k] = items[j]
      /\ \A j \in DOMAIN call.got : \E k \in DOMAIN got : got[k] = call.got[j]
      /\ \A j \in DOMAIN items : \E k \in DOMAIN got : got[k] = items[j]
      /\ items # <<>> => got # <<>> /\ Last(got) = Last(items)
  <2>1. \A j, k \in DOMAIN items : j < k => items[j].id < items[k].id
    BY <1>3, <1>5
  <2>2. \A k \in DOMAIN items : items[k].id > call.after
    BY <1>4, <1>5
  <2>3. \A k \in DOMAIN call.got : call.got[k].id <= call.after
    BY <1>1
  <2> QED
    BY <1>1, <1>5, <2>1, <2>2, <2>3, Joined
<1> HIDE DEF got, found
<1>7. \A k \in DOMAIN got : got[k].id \in ever
  BY <1>1, <1>4, <1>5, <1>6
<1>8. ASSUME NEW i \in stayed PROVE i <= call.after \/ i \in Rest(found, call.after)
  BY <1>1, <1>2, <1>8 DEF Rest
<1>9. ASSUME NEW i \in stayed, i <= call.after \/ \E k \in DOMAIN page : page[k] = i
      PROVE  \E k \in DOMAIN got : got[k].id = i
  <2>1. CASE i <= call.after
    <3>1. PICK j \in DOMAIN call.got : call.got[j].id = i
      BY <1>1, <2>1
    <3> QED
      BY <1>6, <3>1
  <2>2. CASE \E k \in DOMAIN page : page[k] = i
    <3>1. PICK j \in DOMAIN items : items[j].id = i
      BY <1>5, <2>2
    <3> QED
      BY <1>6, <3>1
  <2> QED
    BY <1>9, <2>1, <2>2
<1>10. CASE HasNextPage(found, call.after, PageSize)
  <2> DEFINE new == Last(page)
  <2>1. /\ call' = [call EXCEPT !.got = got, !.after = new] /\ outcome' = outcome
        /\ UNCHANGED <<server, history>>
    BY <1>10 DEF IssuesPage, found, got, items, page
  <2>2. /\ page # <<>> /\ Len(page) \in DOMAIN page /\ new = page[Len(page)]
        /\ DOMAIN page = 1 .. Len(page) /\ Len(page) \in Nat
    BY <1>3, <1>4, <1>10, EmptySeq DEF Last
  <2>3. new \in Nat /\ new > call.after
    BY <1>2, <1>4, <2>2
  <2>4. items # <<>> /\ Last(items).id = new
    <3>1. Len(items) # 0
      BY <1>5, <2>2, EmptySeq
    <3>2. Last(items) = items[Len(page)]
      BY <1>5 DEF Last
    <3> QED
      BY <1>5, <2>2, <3>1, <3>2, EmptySeq
  <2>5. got # <<>> /\ Last(got).id = new
    BY <1>6, <2>4
  <2>6. \A k \in DOMAIN page : page[k] <= new
    <3>1. \A k \in DOMAIN page : page[k] \in Nat
      BY <1>2, <1>4
    <3>2. \A k \in DOMAIN page : k < Len(page) \/ k = Len(page)
      BY <2>2
    <3> HIDE DEF new
    <3>3. ASSUME NEW k \in DOMAIN page PROVE page[k] <= new
      <4>1. CASE k = Len(page)
        BY <2>2, <2>3, <4>1
      <4>2. CASE k < Len(page)
        <5>1. page[k] < new /\ page[k] \in Nat
          BY <1>3, <2>2, <3>1, <4>2
        <5> QED
          BY <2>3, <5>1
      <4> QED
        BY <3>2, <4>1, <4>2
    <3> QED
      BY <3>3
  <2>7. \A k \in DOMAIN got : got[k].id <= new
    <3>1. \A j \in DOMAIN call.got : call.got[j].id <= new
      <4>1. \A j \in DOMAIN call.got : call.got[j].id \in Nat
        BY <1>1, ListedIds
      <4> QED
        BY <1>1, <2>3, <4>1
    <3> QED
      BY <1>5, <1>6, <2>6, <3>1
  <2>8. \A i \in stayed : i <= new => \E k \in DOMAIN got : got[k].id = i
    BY <1>3, <1>8, <1>9, <1>10
  <2>9. call' = [op |-> "fetch", wanted |-> call.wanted, after |-> new, got |-> got]
    <3> HIDE DEF new
    <3>1. call' = [[op |-> "fetch", wanted |-> call.wanted, after |-> call.after,
                    got |-> call.got] EXCEPT !.got = got, !.after = new]
      BY <1>1, <2>1
    <3> QED
      BY <3>1
  <2> HIDE DEF new
  <2>10. /\ call'.op = "fetch" /\ call'.wanted = call.wanted
         /\ call'.after = new /\ call'.got = got
    BY <2>9
  <2>11. TypeOK'
    BY <1>1, <2>1, <2>5, <2>10 DEF TypeOK, server, history
  <2>12. CallType'
    BY <1>1, <1>6, <2>3, <2>9, <2>10 DEF CallType
  <2>13. FetchInv'
    <3>1. found = InStates(call.wanted)'
      BY <2>1, <2>10 DEF found, InStates, server
    <3> QED
      BY <1>1, <1>6, <1>7, <2>1, <2>7, <2>8, <2>10, <3>1 DEF FetchInv, history
  <2>14. MoveInv'
    BY <2>10 DEF MoveInv
  <2>15. outcome' = None /\ FetchIsComplete' /\ MoveIsHonest'
    BY <1>1, <2>1 DEF IInv, FetchIsComplete, MoveIsHonest, None
  <2> QED
    BY <2>11, <2>12, <2>13, <2>14, <2>15 DEF IInv
<1>11. CASE ~HasNextPage(found, call.after, PageSize)
  <2>1. Return(Issued(got)) /\ UNCHANGED <<server, history>>
    BY <1>11 DEF IssuesPage, found, got, items, page
  <2>2. call' = Idle /\ outcome'.kind = "issues" /\ outcome'.issues = got
    BY <2>1 DEF Return, Issued
  <2>3. \A i \in stayed : \E k \in DOMAIN got : got[k].id = i
    BY <1>3, <1>8, <1>9, <1>11
  <2>4. Lists(stayed)'
    <3>1. LET listed == [n \in DOMAIN got |-> got[n].id]
          IN /\ IsInjective(listed) /\ stayed \subseteq ToSet(listed)
             /\ ToSet(listed) \subseteq ever
      BY <1>6, <1>7, <2>3, ListsInOrder
    <3> QED
      BY <2>1, <2>2, <3>1 DEF Lists, history
  <2>5. FetchIsComplete' /\ MoveIsHonest'
    BY <2>2, <2>4 DEF FetchIsComplete, MoveIsHonest
  <2> QED
    BY <2>1, <2>2, <2>5, ReturnInv
<1> QED
  BY <1>10, <1>11

(* A fetch by ids is complete if one answer has room for all of them.      *)
LEMMA IssuesAnswerInv == IInv /\ IssuesAnswer => IInv'
<1> SUFFICES ASSUME IInv, IssuesAnswer PROVE IInv'
  OBVIOUS
<1> DEFINE page == Page(call.ids, 0, DefaultPage)
           items == WithStates(page)
<1>1. /\ call.ids \subseteq Issues /\ stayed = call.ids /\ ever = call.ids /\ TypeOK
      /\ Return(ByID(items)) /\ UNCHANGED <<server, history>>
  BY DEF IssuesAnswer, IInv, CallType, FetchInv
<1>2. call.ids \in SUBSET Nat /\ IsFiniteSet(call.ids)
  BY <1>1, FoundIsFinite
<1>3. Rest(call.ids, 0) = call.ids
  BY <1>1, TrackerAssumption DEF Rest, Issues
<1>4. /\ page \in Seq(call.ids)
      /\ \A j, k \in DOMAIN page : j < k => page[j] < page[k]
      /\ ~HasNextPage(call.ids, 0, DefaultPage) =>
           \A x \in call.ids : \E k \in DOMAIN page : page[k] = x
  <2>1. DefaultPage \in Nat \ {0} /\ 0 \in Nat
    BY TrackerAssumption
  <2>2. /\ page \in Seq(Rest(call.ids, 0))
        /\ \A j, k \in DOMAIN page : j < k => page[j] < page[k]
        /\ ~HasNextPage(call.ids, 0, DefaultPage) =>
             \A x \in Rest(call.ids, 0) : \E k \in DOMAIN page : page[k] = x
    BY <1>2, <2>1, Pages
  <2> HIDE DEF page
  <2> QED
    BY <1>3, <2>2
<1> HIDE DEF page
<1>5. page \in Seq(Issues) /\ \A k \in DOMAIN page : page[k] \in call.ids
  BY <1>1, <1>4
<1>6. /\ items \in Seq(Listed) /\ DOMAIN items = DOMAIN page
      /\ \A n \in DOMAIN page : items[n].id = page[n]
  BY <1>1, <1>5, WithStatesSeq
<1> HIDE DEF items
<1>7. call' = Idle /\ outcome'.kind = "by_ids" /\ outcome'.issues = items
  BY <1>1 DEF Return, ByID
<1>8. Cardinality(stayed) <= DefaultPage => Lists(stayed)'
  <2> SUFFICES ASSUME Cardinality(stayed) <= DefaultPage PROVE Lists(stayed)'
    OBVIOUS
  <2>1. ~HasNextPage(call.ids, 0, DefaultPage)
    BY <1>1, <1>2, <1>3, FS_CardinalityType, TrackerAssumption DEF HasNextPage
  <2>2. LET listed == [n \in DOMAIN items |-> items[n].id]
        IN /\ IsInjective(listed) /\ stayed \subseteq ToSet(listed)
           /\ ToSet(listed) \subseteq ever
    <3>1. \A j, k \in DOMAIN items : j < k => items[j].id < items[k].id
      BY <1>4, <1>6
    <3>2. \A k \in DOMAIN items : items[k].id \in ever
      BY <1>1, <1>5, <1>6
    <3>3. \A i \in stayed : \E k \in DOMAIN items : items[k].id = i
      BY <1>1, <1>4, <1>6, <2>1
    <3> QED
      BY <1>6, <3>1, <3>2, <3>3, ListsInOrder
  <2> QED
    BY <1>1, <1>7, <2>2 DEF Lists, history
<1>9. FetchIsComplete' /\ MoveIsHonest'
  BY <1>1, <1>7, <1>8 DEF FetchIsComplete, MoveIsHonest, history
<1> QED
  BY <1>1, <1>7, <1>9, ReturnInv

-----------------------------------------------------------------------------
(* Moves.                                                                  *)

LEMMA ChooseInv ==
  ASSUME IInv, call.op \in {"find", "find_one"}, NEW names \in SUBSET States,
         Choose(names, call.preferred), UNCHANGED <<server, history>>,
         \A s \in FirstAvailable(call.preferred, names) : FirstChoice(s, call.preferred)
  PROVE  IInv'
<1>1. CASE FirstAvailable(call.preferred, names) = {}
  BY <1>1, FailInv DEF Choose
<1>2. CASE FirstAvailable(call.preferred, names) # {}
  <2>1. PICK s \in FirstAvailable(call.preferred, names) :
          call' = [op |-> "update", issue |-> call.issue, target |-> s,
                   preferred |-> call.preferred]
    BY <1>2 DEF Choose
  <2>2. s \in States /\ FirstChoice(s, call.preferred)
    BY DEF FirstAvailable
  <2>3. outcome' = outcome /\ outcome = None
    BY <1>2 DEF Choose, IInv
  <2>4. call.issue \in Issues /\ call.preferred \in Seq(States)
    BY DEF IInv, CallType
  <2>5. /\ call'.op = "update" /\ call'.issue = call.issue /\ call'.target = s
        /\ call'.preferred = call.preferred
    BY <2>1
  <2>6. TypeOK'
    BY <2>3, <2>5 DEF IInv, TypeOK, server, history
  <2>7. CallType'
    BY <2>1, <2>2, <2>4, <2>5 DEF CallType
  <2>8. FirstChoice(call.target, call.preferred)'
    BY <2>2, <2>5 DEF FirstChoice, history
  <2>9. FetchInv' /\ MoveInv'
    BY <2>5, <2>8 DEF FetchInv, MoveInv
  <2>10. FetchIsComplete' /\ MoveIsHonest'
    BY <2>3 DEF FetchIsComplete, MoveIsHonest, None
  <2> QED
    BY <2>3, <2>6, <2>7, <2>9, <2>10 DEF IInv
<1> QED
  BY <1>1, <1>2

(* Every page is read before a state is chosen, so no state that the team   *)
(* had all along is overlooked.                                            *)
LEMMA StatesPageInv == IInv /\ StatesPage => IInv'
<1> SUFFICES ASSUME IInv, StatesPage PROVE IInv'
  OBVIOUS
<1> DEFINE page == Page(team, call.after, PageSize)
           names == call.names \cup ToSet(page)
<1>1. /\ call.op = "find" /\ TypeOK
      /\ call = [op |-> call.op, issue |-> call.issue, preferred |-> call.preferred,
                 after |-> call.after, names |-> call.names]
      /\ call.issue \in Issues /\ call.preferred \in Seq(States)
      /\ call.after \in Nat /\ call.names \subseteq States
      /\ \A s \in kept : s <= call.after => s \in call.names
      /\ UNCHANGED <<server, history>>
      /\ team \subseteq States /\ kept \subseteq team /\ outcome = None
  BY DEF StatesPage, IInv, TypeOK, CallType, MoveInv
<1>2. team \in SUBSET Nat /\ IsFiniteSet(team)
  BY <1>1, FoundIsFinite
<1>3. /\ page \in Seq(Rest(team, call.after))
      /\ HasNextPage(team, call.after, PageSize) =>
           /\ page # <<>>
           /\ \A x \in Rest(team, call.after) :
                x <= Last(page) => \E k \in DOMAIN page : page[k] = x
      /\ ~HasNextPage(team, call.after, PageSize) =>
           \A x \in Rest(team, call.after) : \E k \in DOMAIN page : page[k] = x
  <2>1. PageSize \in Nat \ {0}
    BY TrackerAssumption
  <2> QED
    BY <1>1, <1>2, <2>1, Pages
<1> HIDE DEF page
<1>4. page \in Seq(team) /\ names \subseteq States
  BY <1>1, <1>3 DEF Rest, ToSet
<1>5. ASSUME NEW s \in kept PROVE s <= call.after \/ s \in Rest(team, call.after)
  BY <1>1, <1>2, <1>5 DEF Rest
<1>6. \A s \in kept : s <= call.after \/ (\E k \in DOMAIN page : page[k] = s) => s \in names
  BY <1>1 DEF ToSet
<1> HIDE DEF names
<1>7. CASE HasNextPage(team, call.after, PageSize)
  <2> DEFINE new == Last(page)
  <2>1. call' = [call EXCEPT !.names = names, !.after = new] /\ outcome' = outcome
    BY <1>7 DEF StatesPage, page, names
  <2>2. new \in Nat
    <3>1. page # <<>> /\ page \in Seq(Nat)
      BY <1>2, <1>3, <1>4, <1>7, SeqMonotonic
    <3>2. Len(page) \in DOMAIN page
      BY <3>1, EmptySeq
    <3> QED
      BY <3>1, <3>2 DEF Last
  <2>3. \A s \in kept : s <= new => s \in names
    BY <1>3, <1>5, <1>6, <1>7
  <2> HIDE DEF new
  <2>4. call' = [op |-> "find", issue |-> call.issue, preferred |-> call.preferred,
                 after |-> new, names |-> names]
    BY <1>1, <2>1
  <2>5. /\ call'.op = "find" /\ call'.issue = call.issue /\ call'.preferred = call.preferred
        /\ call'.after = new /\ call'.names = names
    BY <2>4
  <2>6. TypeOK'
    BY <1>1, <2>1, <2>5 DEF TypeOK, server, history
  <2>7. CallType'
    BY <1>1, <1>4, <2>2, <2>4, <2>5 DEF CallType
  <2>8. FetchInv' /\ MoveInv'
    BY <1>1, <2>3, <2>5 DEF FetchInv, MoveInv, history
  <2>9. FetchIsComplete' /\ MoveIsHonest'
    BY <1>1, <2>1 DEF FetchIsComplete, MoveIsHonest, None
  <2> QED
    BY <1>1, <2>1, <2>6, <2>7, <2>8, <2>9 DEF IInv
<1>8. CASE ~HasNextPage(team, call.after, PageSize)
  <2>1. Choose(names, call.preferred)
    BY <1>8 DEF StatesPage, page, names
  <2>2. kept \subseteq names
    BY <1>3, <1>5, <1>6, <1>8
  <2>3. ASSUME NEW s \in FirstAvailable(call.preferred, names)
        PROVE  FirstChoice(s, call.preferred)
    BY <2>2 DEF FirstAvailable, FirstChoice
  <2> QED
    BY <1>1, <1>4, <2>1, <2>3, ChooseInv
<1> QED
  BY <1>7, <1>8

LEMMA StatesAnswerInv == IInv /\ StatesAnswer => IInv'
<1> SUFFICES ASSUME IInv, StatesAnswer PROVE IInv'
  OBVIOUS
<1> DEFINE page == Page(team, 0, PageSize)
<1>1. /\ call.op = "find_one" /\ call.preferred \in Seq(States) /\ Len(call.preferred) = 1
      /\ Choose(ToSet(page), call.preferred) /\ UNCHANGED <<server, history>>
      /\ team \in SUBSET Nat /\ IsFiniteSet(team) /\ team \subseteq States
  BY FoundIsFinite DEF StatesAnswer, IInv, TypeOK, CallType, MoveInv
<1>2. page \in Seq(Rest(team, 0))
  <2>1. PageSize \in Nat \ {0} /\ 0 \in Nat
    BY TrackerAssumption
  <2> QED
    BY <1>1, <2>1, Pages
<1> HIDE DEF page
<1>3. ToSet(page) \in SUBSET States
  <2>1. page \in Seq(States)
    BY <1>1, <1>2, SeqMonotonic DEF Rest
  <2> QED
    BY <2>1 DEF ToSet
<1>4. ASSUME NEW s \in FirstAvailable(call.preferred, ToSet(page))
      PROVE  FirstChoice(s, call.preferred)
  <2>1. PICK n \in DOMAIN call.preferred : call.preferred[n] = s
    BY DEF FirstAvailable
  <2>2. n = 1
    BY <1>1
  <2> QED
    BY <2>1, <2>2 DEF FirstChoice
<1> QED
  BY <1>1, <1>3, <1>4, ChooseInv

LEMMA UpdateInv == IInv /\ UpdateApplied => IInv'
<1> SUFFICES ASSUME IInv, UpdateApplied PROVE IInv'
  OBVIOUS
<1>1. /\ TypeOK /\ call.op = "update" /\ call.target \in team /\ call.issue \in Issues
      /\ call.target \in States /\ call.preferred \in Seq(States)
      /\ FirstChoice(call.target, call.preferred) /\ outcome = None
      /\ state' = [state EXCEPT ![call.issue] = call.target]
      /\ been' = been \cup {call.target}
      /\ call' = [op |-> "answer", issue |-> call.issue, target |-> call.target,
                  preferred |-> call.preferred]
      /\ UNCHANGED <<team, outcome, stayed, ever, kept, edits>>
  BY DEF UpdateApplied, IInv, CallType, MoveInv
<1>2. /\ call'.op = "answer" /\ call'.issue = call.issue /\ call'.target = call.target
      /\ call'.preferred = call.preferred
  BY <1>1
<1>3. TypeOK'
  BY <1>1, <1>2 DEF TypeOK
<1>4. CallType'
  BY <1>1, <1>2 DEF CallType
<1>5. FirstChoice(call.target, call.preferred)'
  BY <1>1, <1>2 DEF FirstChoice
<1>6. FetchInv' /\ MoveInv'
  BY <1>1, <1>2, <1>5 DEF FetchInv, MoveInv
<1>7. FetchIsComplete' /\ MoveIsHonest'
  BY <1>1 DEF FetchIsComplete, MoveIsHonest, None
<1> QED
  BY <1>1, <1>3, <1>4, <1>6, <1>7 DEF IInv

LEMMA ReceivedInv == IInv /\ AnswerReceived => IInv'
<1> SUFFICES ASSUME IInv, AnswerReceived PROVE IInv'
  OBVIOUS
<1>1. /\ FirstChoice(call.target, call.preferred) /\ call.target \in been
      /\ call' = Idle /\ outcome' = Moved /\ UNCHANGED <<server, history>>
  BY DEF AnswerReceived, Return, IInv, MoveInv
<1>2. /\ outcome'.kind = "moved" /\ outcome'.state = call.target
      /\ outcome'.preferred = call.preferred
  BY <1>1 DEF Moved
<1>3. FetchIsComplete' /\ MoveIsHonest'
  BY <1>1, <1>2 DEF FetchIsComplete, MoveIsHonest, FirstChoice, history
<1> QED
  BY <1>1, <1>2, <1>3, ReturnInv
-----------------------------------------------------------------------------
(* People change the server while a call is in progress.                   *)

LEMMA MoveByPeople ==
  ASSUME IInv, NEW i \in Issues, NEW s \in States, PeopleMove(i, s)
  PROVE  IInv'
<1>1. /\ TypeOK /\ call' = call /\ outcome' = outcome /\ team' = team /\ kept' = kept
      /\ s \in team /\ state' = [state EXCEPT ![i] = s]
      /\ stayed' = stayed \cap Matching /\ ever' = ever \cup Matching
      /\ been' \in {been, been \cup {s}}
      /\ edits' \in 0 .. MaxEdits /\ outcome = None
  <2>1. call.op # "idle"
    BY DEF PeopleMove, Edited, IInv, CallType
  <2>2. edits' \in 0 .. MaxEdits
    BY TrackerAssumption DEF PeopleMove, Edited, IInv, TypeOK
  <2>3. been' \in {been, been \cup {s}}
    BY Zenon DEF PeopleMove
  <2> QED
    BY <2>1, <2>2, <2>3 DEF PeopleMove, Edited, IInv
<1>2. /\ call.op = "fetch" => Matching = InStates(call.wanted)'
      /\ call.op # "fetch" => Matching = stayed
      /\ Matching \subseteq Issues
  BY <1>1 DEF Matching, InStates, TypeOK
<1>3. TypeOK'
  BY <1>1, <1>2 DEF TypeOK
<1>4. CallType' /\ MoveInv'
  BY <1>1 DEF IInv, CallType, MoveInv, FirstChoice
<1>5. FetchInv'
  <2>1. CASE call.op = "fetch"
    BY <1>1, <1>2, <2>1 DEF IInv, FetchInv
  <2>2. CASE call.op = "by_ids"
    <3>1. stayed' = stayed /\ ever' = ever
      BY <1>1, <1>2, <2>2 DEF IInv, FetchInv
    <3> QED
      BY <1>1, <2>2, <3>1 DEF IInv, FetchInv
  <2> QED
    BY <1>1, <2>1, <2>2 DEF FetchInv
<1>6. FetchIsComplete' /\ MoveIsHonest'
  BY <1>1 DEF FetchIsComplete, MoveIsHonest, None
<1> QED
  BY <1>1, <1>3, <1>4, <1>5, <1>6 DEF IInv

LEMMA StatesByPeople ==
  ASSUME IInv, NEW s \in States, PeopleAddState(s) \/ PeopleRemoveState(s)
  PROVE  IInv'
<1>1. /\ TypeOK /\ call' = call /\ outcome' = outcome /\ state' = state
      /\ team' \subseteq States /\ kept' \subseteq kept /\ kept' \subseteq team'
      /\ \A i \in Issues : state[i] \in team'
      /\ stayed' = stayed /\ ever' = ever /\ been' = been
      /\ edits' \in 0 .. MaxEdits /\ outcome = None
  <2>1. call.op # "idle"
    BY DEF PeopleAddState, PeopleRemoveState, Edited, IInv, CallType
  <2>2. edits' \in 0 .. MaxEdits
    BY TrackerAssumption DEF PeopleAddState, PeopleRemoveState, Edited, IInv, TypeOK
  <2> QED
    BY <2>1, <2>2 DEF PeopleAddState, PeopleRemoveState, Edited, IInv, TypeOK
<1>2. TypeOK'
  BY <1>1 DEF TypeOK
<1>3. CallType' /\ FetchInv'
  BY <1>1 DEF IInv, CallType, FetchInv, InStates
<1>4. MoveInv'
  BY <1>1 DEF IInv, MoveInv, FirstChoice
<1>5. FetchIsComplete' /\ MoveIsHonest'
  BY <1>1 DEF FetchIsComplete, MoveIsHonest, None
<1> QED
  BY <1>1, <1>2, <1>3, <1>4, <1>5 DEF IInv
-----------------------------------------------------------------------------
(* The theorems.                                                           *)

(* In every reachable state what the call in progress has read is complete  *)
(* up to its cursor, and what the last call returned keeps its promise.     *)
THEOREM TrackerInvariant == Spec => []IInv
<1>1. IInv /\ [Next]_vars => IInv'
  <2> SUFFICES ASSUME IInv, [Next]_vars PROVE IInv'
    OBVIOUS
  <2>1. CASE Call
    BY <2>1, CallInv
  <2>2. CASE Request
    <3>1. CASE AnswerLost \/ RequestFails
      BY <3>1, FailInv DEF AnswerLost, RequestFails
    <3> QED
      BY <2>2, <3>1, IssuesPageInv, IssuesAnswerInv, StatesPageInv, StatesAnswerInv,
         UpdateInv, ReceivedInv DEF Request
  <2>3. CASE People
    BY <2>3, MoveByPeople, StatesByPeople DEF People
  <2>4. CASE UNCHANGED vars
    <3>1. TypeOK' /\ FetchIsComplete' /\ MoveIsHonest'
      BY <2>4 DEF IInv, TypeOK, FetchIsComplete, MoveIsHonest, Lists, vars, server, history
    <3>2. CallType' /\ FetchInv' /\ MoveInv'
      BY <2>4 DEF IInv, CallType, FetchInv, MoveInv, FirstChoice, InStates, vars, server, history
    <3> QED
      BY <2>4, <3>1, <3>2 DEF IInv, vars
  <2> QED
    BY <2>1, <2>2, <2>3, <2>4 DEF Next
<1> QED
  BY <1>1, InitInv, PTL DEF Spec

(* Every variable keeps its type, and a fetch's cursor is the last issue it *)
(* has in hand.                                                             *)
THEOREM TrackerTypeOK == Spec => []TypeOK
<1>1. IInv => TypeOK
  BY DEF IInv
<1> QED
  BY <1>1, TrackerInvariant, PTL

(* A fetch that succeeds lists every issue that matched all along, none     *)
(* twice and none that never matched, whatever the size of the pages and    *)
(* however people move issues between them.                                 *)
THEOREM TrackerFetchIsComplete == Spec => []FetchIsComplete
<1>1. IInv => FetchIsComplete
  BY DEF IInv
<1> QED
  BY <1>1, TrackerInvariant, PTL

(* A move that succeeds had the issue in the state it reports, and the team *)
(* had none of the states preferred to it all along.                        *)
THEOREM TrackerMoveIsHonest == Spec => []MoveIsHonest
<1>1. IInv => MoveIsHonest
  BY DEF IInv
<1> QED
  BY <1>1, TrackerInvariant, PTL
=============================================================================
