------------------------- MODULE AgentSessionProofs -------------------------
(***************************************************************************)
(* Proofs about AgentSession, for any number of turns and any sizes of the *)
(* channel and the pipe: that Run keeps to the abstract Session, that it   *)
(* leaves no agent process behind, that it asks for one turn at a time and *)
(* reports only turns that the agent completed, ends without an id apart.  *)
(***************************************************************************)
EXTENDS AgentSession, SequenceTheorems, TLAPS

LEMMA WaitsDomain ==
  DOMAIN Waits = {"initialize", "skills", "thread", "turn_start"}
BY DEF Waits

(* Where Run is.  Only a Claude session comes back to its start.           *)
RunInv ==
    /\ provider \in {"codex", "claude"}
    /\ pc \in {"initialize", "skills", "thread", "turn_start", "start", "in_turn", "input",
               "decide", "claude_read", "claude_exit", "done"}
    /\ pc \in {"claude_read", "claude_exit"} => provider = "claude"
    /\ turn \in Turns
    /\ provider = "codex" /\ pc = "start" => turn = 1
    /\ pc # "done" => outcome = "none"

LEMMA RunInvInit == Init => RunInv
BY SessionAssumption DEF Init, RunInv, Turns

(* Everybody else leaves alone what Run has.                               *)
LEMMA OthersKeepRunVars ==
  ASSUME Agent \/ Reader \/ Cancel \/ ContextKills \/ DeadlinePasses
  PROVE  UNCHANGED runVars
BY DEF Agent, AgentReads, AgentAnswers, AgentCompletes, AgentEndsUnnamed, AgentSays,
       WriteUnasked, AgentExits, AgentForks, ChildrenExit, othersVars,
       Reader, ReaderSends, ReaderEnds, Cancel, ContextKills, DeadlinePasses

(* What a step of Run does to the place where Run is.                      *)
Stays == UNCHANGED <<pc, turn, outcome>>

Ends ==
    /\ pc # "done" /\ pc' = "done"
    /\ UNCHANGED turn
    /\ \/ outcome' \in {"failed", "cancelled"}
       \/ pc = "decide" /\ turn < MaxTurns /\ outcome' = "success"
       \/ pc = "decide" /\ turn = MaxTurns /\ outcome' = "max_turns"

Prepares ==
    /\ \/ provider = "codex" /\ pc = "start" /\ pc' = "initialize"
       \/ pc = "initialize" /\ pc' \in {"skills", "thread"}
       \/ pc = "skills" /\ pc' = "thread"
    /\ UNCHANGED <<turn, outcome>>

Begins ==
    /\ \/ pc = "thread" /\ pc' = "turn_start"
       \/ provider = "claude" /\ pc = "start" /\ pc' = "claude_read"
    /\ UNCHANGED <<turn, outcome>>

Works ==
    /\ \/ pc = "turn_start" /\ pc' = "in_turn"
       \/ pc = "in_turn" /\ pc' = "input"
       \/ pc = "claude_read" /\ pc' = "claude_exit"
    /\ UNCHANGED <<turn, outcome>>

Completes ==
    /\ pc \in {"in_turn", "claude_exit"} /\ pc' = "decide"
    /\ UNCHANGED <<turn, outcome>>

GoesOn ==
    /\ pc = "decide" /\ turn # MaxTurns /\ turn' = turn + 1
    /\ pc' = IF provider = "codex" THEN "turn_start" ELSE "start"
    /\ UNCHANGED outcome

LEMMA RunStepKinds ==
  ASSUME RunInv, RunStep
  PROVE  /\ UNCHANGED provider
         /\ Stays \/ Ends \/ Prepares \/ Begins \/ Works \/ Completes \/ GoesOn
<1> USE DEF RunInv, Ask, Finish, runVars, outputVars, agentVars, limitVars
<1>1. CASE StartCodex
  BY <1>1 DEF StartCodex, Ends, Prepares
<1>2. CASE RequestLine
  <2>1. CASE Proceed
    BY <1>2, <2>1 DEF RequestLine, Proceed, Prepares, Begins, Works
  <2>2. CASE GiveUp("failed")
    BY <1>2, <2>2, WaitsDomain DEF RequestLine, GiveUp, Waiting, Prepares, Ends
  <2>3. CASE Stays
    BY <1>2, <2>3 DEF RequestLine
  <2> QED
    BY <1>2, <2>1, <2>2, <2>3 DEF RequestLine, Stays
<1>3. CASE RequestTimeout
  BY <1>3, WaitsDomain DEF RequestTimeout, GiveUp, Waiting, Prepares, Ends
<1>4. CASE OutputCloses
  BY <1>4, WaitsDomain DEF OutputCloses, GiveUp, Waiting, InTurn, Prepares, Ends
<1>5. CASE CancelSeen
  BY <1>5, WaitsDomain DEF CancelSeen, GiveUp, Waiting, InTurn, Prepares, Ends
<1>6. CASE TurnLine
  <2>1. \/ Finish("failed")
        \/ pc' \in {"decide", "input"} /\ UNCHANGED <<turn, outcome>>
        \/ Stays
    BY <1>6 DEF TurnLine, Stays
  <2> QED
    BY <1>6, <2>1 DEF TurnLine, InTurn, Ends, Completes, Works
<1>7. CASE TurnTimeout
  BY <1>7 DEF TurnTimeout, InTurn, Ends
<1>8. CASE Decide
  BY <1>8, SessionAssumption DEF Decide, Ends, GoesOn, Turns
<1>9. CASE StartClaude
  BY <1>9 DEF StartClaude, Ends, Begins
<1>10. CASE ClaudeLine
  BY <1>10 DEF ClaudeLine, Ends, Stays
<1>11. CASE ClaudeOutputEnds
  BY <1>11 DEF ClaudeOutputEnds, Works
<1>12. CASE ClaudeExit
  BY <1>12 DEF ClaudeExit, Ends, Completes
<1>13. CASE WriteFails
  BY <1>13, WaitsDomain DEF WriteFails, GiveUp, Prepares, Ends, Stays
<1>14. CASE InputRejected
  BY <1>14 DEF InputRejected, Ends
<1> QED
  BY <1>1, <1>2, <1>3, <1>4, <1>5, <1>6, <1>7, <1>8, <1>9, <1>10, <1>11, <1>12, <1>13, <1>14
     DEF RunStep

LEMMA NextKinds ==
  ASSUME RunInv, [Next]_vars
  PROVE  /\ UNCHANGED provider
         /\ Stays \/ Ends \/ Prepares \/ Begins \/ Works \/ Completes \/ GoesOn
<1>1. CASE RunStep
  BY <1>1, RunStepKinds
<1>2. CASE UNCHANGED runVars
  BY <1>2 DEF runVars, Stays
<1>3. CASE UNCHANGED vars
  BY <1>2, <1>3 DEF vars
<1> QED
  BY <1>1, <1>2, <1>3, OthersKeepRunVars DEF Next

LEMMA RunInvNext ==
  ASSUME RunInv, [Next]_vars
  PROVE  RunInv'
BY NextKinds, SessionAssumption
   DEF RunInv, Stays, Ends, Prepares, Begins, Works, Completes, GoesOn, Turns

(* Every step of Run is a step of the abstract session, or none of its.    *)
LEMMA SessionStep ==
  ASSUME RunInv, [Next]_vars
  PROVE  [Sess!Next]_(Sess!vars)
<1> USE DEF RunInv, Phase, Working
<1>1. CASE Stays
  BY <1>1 DEF Stays, Sess!vars
<1>2. CASE Ends
  <2>1. Sess!End
    BY <1>2 DEF Ends, Sess!End
  <2> QED
    BY <2>1 DEF Sess!Next
<1>3. CASE Prepares \/ Works
  BY <1>3, NextKinds, SessionAssumption DEF Prepares, Works, Sess!vars, Turns
<1>4. CASE Begins
  BY <1>4, NextKinds DEF Begins, Sess!vars, Sess!Next, Sess!BeginTurn, Turns
<1>5. CASE Completes
  <2>1. Sess!TurnOver
    BY <1>5 DEF Completes, Sess!TurnOver
  <2> QED
    BY <2>1 DEF Sess!Next
<1>6. CASE GoesOn
  <2>1. turn < MaxTurns /\ turn + 1 > 1
    BY <1>6, SessionAssumption DEF GoesOn, Turns
  <2>2. Sess!NextTurn
    BY <1>6, <2>1 DEF GoesOn, Sess!NextTurn
  <2> QED
    BY <2>2 DEF Sess!Next
<1> QED
  BY <1>1, <1>2, <1>3, <1>4, <1>5, <1>6, NextKinds

(* Run implements the abstract session, whatever the agent, the reader and *)
(* the clock do: turns one after the other, at most max_turns of them, and *)
(* one result, which fits how far they came.                               *)
THEOREM SessionImplemented == Spec => Sess!Spec
<1>1. Init => Sess!Init
  BY DEF Init, Sess!Init, Phase, Working
<1>2. RunInv /\ [Next]_vars => RunInv'
  BY RunInvNext
<1>3. RunInv /\ [Next]_vars => [Sess!Next]_(Sess!vars)
  BY SessionStep
<1> QED
  BY <1>1, <1>2, <1>3, RunInvInit, PTL DEF Spec, Sess!Spec

(* A step of Run that returns kills the process, and Run takes no step     *)
(* after it has returned.                                                  *)
LEMMA RunStepKills ==
  ASSUME RunStep
  PROVE  pc # "done" /\ (pc' = "done" => process' # "alive")
<1> USE DEF Ask, Finish
<1>1. CASE StartCodex
  BY <1>1 DEF StartCodex
<1>2. CASE RequestLine
  <2>1. pc # "done"
    BY <1>2, WaitsDomain DEF RequestLine, Waiting
  <2>2. CASE Proceed
    BY <2>1, <2>2 DEF Proceed
  <2>3. CASE GiveUp("failed")
    BY <2>1, <2>3 DEF GiveUp
  <2>4. CASE Stays
    BY <2>1, <2>4 DEF Stays
  <2> QED
    BY <1>2, <2>2, <2>3, <2>4 DEF RequestLine, Stays
<1>3. CASE RequestTimeout
  BY <1>3, WaitsDomain DEF RequestTimeout, GiveUp, Waiting
<1>4. CASE OutputCloses
  BY <1>4, WaitsDomain DEF OutputCloses, GiveUp, Waiting, InTurn
<1>5. CASE CancelSeen
  BY <1>5, WaitsDomain DEF CancelSeen, GiveUp, Waiting, InTurn
<1>6. CASE TurnLine
  <2>1. pc = "in_turn" /\ (Finish("failed") \/ pc' \in {pc, "decide", "input"})
    BY <1>6 DEF TurnLine, InTurn
  <2> QED
    BY <2>1
<1>7. CASE TurnTimeout
  BY <1>7 DEF TurnTimeout, InTurn
<1>8. CASE Decide
  BY <1>8 DEF Decide
<1>9. CASE StartClaude
  BY <1>9 DEF StartClaude
<1>10. CASE ClaudeLine
  BY <1>10 DEF ClaudeLine
<1>11. CASE ClaudeOutputEnds
  BY <1>11 DEF ClaudeOutputEnds
<1>12. CASE ClaudeExit
  BY <1>12 DEF ClaudeExit
<1>13. CASE WriteFails
  BY <1>13, WaitsDomain DEF WriteFails, GiveUp
<1>14. CASE InputRejected
  BY <1>14 DEF InputRejected
<1> QED
  BY <1>1, <1>2, <1>3, <1>4, <1>5, <1>6, <1>7, <1>8, <1>9, <1>10, <1>11, <1>12, <1>13, <1>14
     DEF RunStep

(* Nobody but Run starts a process.                                        *)
LEMMA OthersStartNone ==
  ASSUME Agent \/ Reader \/ Cancel \/ ContextKills \/ DeadlinePasses
  PROVE  process' = process \/ process' \in {"exited", "crashed"}
BY DEF Agent, AgentReads, AgentAnswers, AgentCompletes, AgentEndsUnnamed, AgentSays,
       WriteUnasked, AgentExits, AgentForks, ChildrenExit, othersVars,
       Reader, ReaderSends, ReaderEnds, Cancel, ContextKills, DeadlinePasses

(* No agent process is left when Run has returned: every early return of   *)
(* Run and of runClaudeTurn kills it, and nothing starts another.          *)
THEOREM SessionNoOrphan == Spec => []NoOrphan
<1>1. Init => NoOrphan
  BY DEF Init, NoOrphan
<1>2. NoOrphan /\ [Next]_vars => NoOrphan'
  <2> SUFFICES ASSUME NoOrphan, [Next]_vars
               PROVE  NoOrphan'
    OBVIOUS
  <2>1. CASE RunStep
    BY <2>1, RunStepKills DEF NoOrphan
  <2>2. CASE Agent \/ Reader \/ Cancel \/ ContextKills \/ DeadlinePasses
    BY <2>2, OthersKeepRunVars, OthersStartNone DEF NoOrphan, runVars
  <2>3. CASE UNCHANGED vars
    BY <2>3 DEF NoOrphan, vars, runVars
  <2> QED
    BY <2>1, <2>2, <2>3 DEF Next
<1> QED
  BY <1>1, <1>2, PTL DEF Spec
-----------------------------------------------------------------------------
(* Types.                                                                  *)

LEMMA PointsAre ==
  Points = {"initialize", "skills", "thread", "turn_start", "start", "in_turn", "input",
            "decide", "claude_read", "claude_exit", "done"}
BY DEF Points, Waits

LEMMA WaitsRange ==
  \A name \in DOMAIN Waits : name \in Points /\ Waits[name] \in Requests
BY DEF Waits, Points, Requests

LEMMA LinesOf ==
  /\ \A r \in Requests : <<"reply", r>> \in Lines /\ <<"refuse", r>> \in Lines
  /\ \A t \in Turns \cup {0} : <<"completed", t>> \in Lines /\ <<"broken", t>> \in Lines
  /\ \A kind \in {"note", "tool", "input", "fatal"} : <<kind, 0>> \in Lines
BY DEF Lines

(* The types of what the agent, the reader and the context have a hand in, *)
(* and of what Run changes by Ask and Finish.                              *)
OutputOK ==
    /\ pipe \in Seq(Lines) /\ Len(pipe) <= PipeSize
    /\ msgCh \in Seq(Lines) /\ Len(msgCh) <= ChanSize

LEMMA WriteOK ==
  ASSUME pipe \in Seq(Lines), NEW line \in Lines, Write(line)
  PROVE  pipe' \in Seq(Lines) /\ Len(pipe') <= PipeSize
BY SessionAssumption DEF Write

LEMMA UnaskedOK ==
  ASSUME AgentEndsUnnamed \/ AgentSays
  PROVE  /\ \E line \in Lines :
               /\ Write(line)
               /\ line[1] = "completed" => provider = "codex" /\ line[2] = 0
         /\ UNCHANGED msgCh
<1>1. \A kind \in {"completed", "broken", "note", "fatal", "tool", "input"} : <<kind, 0>> \in Lines
  BY LinesOf
<1>2. CASE AgentEndsUnnamed
  BY <1>1, <1>2 DEF AgentEndsUnnamed, WriteUnasked
<1>3. CASE AgentSays
  BY <1>1, <1>3 DEF AgentSays, WriteUnasked
<1> QED
  BY <1>2, <1>3

LEMMA CompletesOK ==
  ASSUME TypeOK, AgentCompletes
  PROVE  /\ \E line \in Lines :
               /\ Write(line)
               /\ line[1] = "completed" => line[2] \in ended' \cap open
         /\ UNCHANGED msgCh
<1>1. PICK t \in open : \/ Write(<<"completed", t>>) /\ ended' = ended \cup {t}
                        \/ Write(<<"broken", t>>)
  BY DEF AgentCompletes
<1>2. <<"completed", t>> \in Lines /\ <<"broken", t>> \in Lines
  BY LinesOf DEF TypeOK
<1>3. CASE Write(<<"completed", t>>) /\ ended' = ended \cup {t}
  <2>1. <<"completed", t>>[2] \in ended' \cap open
    BY <1>3
  <2> QED
    BY <1>2, <1>3, <2>1 DEF AgentCompletes
<1>4. CASE Write(<<"broken", t>>)
  <2>1. <<"broken", t>>[1] # "completed"
    OBVIOUS
  <2> QED
    BY <1>2, <1>4, <2>1 DEF AgentCompletes
<1> QED
  BY <1>1, <1>3, <1>4

LEMMA TailOK ==
  ASSUME NEW q \in Seq(Lines), q # <<>>
  PROVE  Tail(q) \in Seq(Lines) /\ Len(Tail(q)) = Len(q) - 1 /\ Head(q) \in Lines
OBVIOUS

LEMMA EmptyOK == <<>> \in Seq(Lines) /\ Len(<<>>) = 0
OBVIOUS

RunTypes ==
    /\ pc \in Points
    /\ turn \in Turns
    /\ outcome \in Outcomes \cup {"none"}
    /\ process \in {"none", "alive", "exited", "crashed"}
    /\ writing \in BOOLEAN
    /\ todo \in SUBSET Requests
    /\ open \in SUBSET Turns

LEMMA FinishOK ==
  ASSUME RunTypes, NEW result \in Outcomes, Finish(result)
  PROVE  RunTypes'
BY PointsAre DEF RunTypes, Finish

LEMMA AskOK ==
  ASSUME RunTypes, NEW name \in DOMAIN Waits, turn' \in Turns, Ask(name)
  PROVE  RunTypes'
BY WaitsRange DEF RunTypes, Ask

LEMMA ProceedOK ==
  ASSUME RunTypes, Proceed
  PROVE  RunTypes'
<1>1. turn' \in Turns
  BY DEF Proceed, RunTypes
<1>2. CASE \E name \in DOMAIN Waits : Ask(name)
  BY <1>1, <1>2, AskOK
<1>3. CASE pc' = "in_turn" /\ UNCHANGED <<turn, outcome, process, writing, todo, open>>
  BY <1>3, PointsAre DEF RunTypes
<1> QED
  BY <1>2, <1>3, WaitsDomain DEF Proceed

LEMMA GiveUpOK ==
  ASSUME RunTypes, NEW result \in Outcomes, GiveUp(result)
  PROVE  RunTypes'
<1>1. CASE Finish(result)
  BY <1>1, FinishOK
<1>2. CASE Ask("thread") /\ UNCHANGED turn
  <2>1. turn' \in Turns
    BY <1>2 DEF RunTypes
  <2> QED
    BY <1>2, <2>1, AskOK, WaitsDomain
<1> QED
  BY <1>1, <1>2 DEF GiveUp

LEMMA RunTypesNext ==
  ASSUME TypeOK, RunStep
  PROVE  RunTypes'
<1>1. RunTypes
  BY DEF TypeOK, RunTypes
<1> USE <1>1
<1>2. {"success", "max_turns", "failed", "cancelled"} = Outcomes
  BY DEF Outcomes
<1>3. CASE StartCodex
  <2>1. CASE Finish("failed")
    BY <1>2, <2>1, FinishOK
  <2>2. CASE /\ pc' = "initialize" /\ process' = "alive" /\ writing' = TRUE
             /\ UNCHANGED <<turn, outcome, todo, open>>
    BY <2>2, PointsAre DEF RunTypes
  <2> QED
    BY <1>3, <2>1, <2>2 DEF StartCodex
<1>4. CASE RequestLine
  <2>1. \/ Proceed \/ GiveUp("failed")
        \/ UNCHANGED <<pc, turn, outcome, process, writing, todo, open>>
    BY <1>4 DEF RequestLine
  <2> QED
    BY <1>2, <2>1, ProceedOK, GiveUpOK DEF RunTypes
<1>5. CASE RequestTimeout \/ OutputCloses \/ CancelSeen
  BY <1>2, <1>5, GiveUpOK DEF RequestTimeout, OutputCloses, CancelSeen
<1>6. CASE TurnLine
  <2>1. \/ Finish("failed")
        \/ /\ pc' \in {pc, "decide", "input"} /\ writing' \in {TRUE, writing}
           /\ UNCHANGED <<turn, outcome, process, todo, open>>
    BY <1>6 DEF TurnLine
  <2> QED
    BY <1>2, <2>1, FinishOK, PointsAre DEF RunTypes
<1>7. CASE TurnTimeout
  BY <1>2, <1>7, FinishOK DEF TurnTimeout
<1>8. CASE Decide
  <2>1. CASE \E result \in Outcomes : Finish(result)
    BY <2>1, FinishOK
  <2>2. CASE /\ turn # MaxTurns /\ turn' = turn + 1
             /\ IF provider = "codex" THEN Ask("turn_start")
                ELSE pc' = "start" /\ UNCHANGED <<outcome, process, writing, todo, open>>
    <3>1. turn' \in Turns
      BY <2>2, SessionAssumption DEF RunTypes, Turns
    <3> QED
      BY <2>2, <3>1, AskOK, WaitsDomain, PointsAre DEF RunTypes
  <2> QED
    BY <1>2, <1>8, <2>1, <2>2 DEF Decide
<1>9. CASE StartClaude
  <2>1. CASE Finish("failed")
    BY <1>2, <2>1, FinishOK
  <2>2. CASE /\ pc' = "claude_read" /\ process' = "alive" /\ open' = {turn}
             /\ UNCHANGED <<turn, outcome, writing, todo>>
    BY <2>2, PointsAre DEF RunTypes
  <2> QED
    BY <1>9, <2>1, <2>2 DEF StartClaude
<1>10. CASE ClaudeLine
  <2>1. Finish("failed") \/ UNCHANGED <<pc, turn, outcome, process, writing, todo, open>>
    BY <1>10 DEF ClaudeLine
  <2> QED
    BY <1>2, <2>1, FinishOK DEF RunTypes
<1>11. CASE ClaudeOutputEnds
  BY <1>11, PointsAre DEF ClaudeOutputEnds, RunTypes, agentVars
<1>12. CASE ClaudeExit
  <2>1. \/ Finish("failed") \/ Finish("cancelled")
        \/ pc' = "decide" /\ UNCHANGED <<turn, outcome, process, writing, todo, open>>
    BY <1>12 DEF ClaudeExit
  <2> QED
    BY <1>2, <2>1, FinishOK, PointsAre DEF RunTypes
<1>13. CASE WriteFails
  <2>1. CASE writing' = FALSE /\ UNCHANGED <<pc, turn, outcome, process, todo, open>>
    BY <2>1 DEF RunTypes
  <2> QED
    BY <1>2, <1>13, <2>1, GiveUpOK, FinishOK DEF WriteFails
<1>14. CASE InputRejected
  BY <1>2, <1>14, FinishOK DEF InputRejected
<1> QED
  BY <1>3, <1>4, <1>5, <1>6, <1>7, <1>8, <1>9, <1>10, <1>11, <1>12, <1>13, <1>14 DEF RunStep

RestTypes ==
    /\ provider \in {"codex", "claude"}
    /\ children \in BOOLEAN
    /\ reader \in {"off", "reading", "ended", "broken"}
    /\ ctxDone \in BOOLEAN /\ deadline \in BOOLEAN /\ completed \in BOOLEAN
    /\ ended \in SUBSET Turns
    /\ unnamed \in SUBSET Turns

LEMMA OthersTypesNext ==
  ASSUME TypeOK, Agent \/ Reader \/ Cancel \/ ContextKills \/ DeadlinePasses
  PROVE  RunTypes'
<1>1. UNCHANGED runVars /\ process' \in {"none", "alive", "exited", "crashed"}
  BY OthersKeepRunVars, OthersStartNone DEF TypeOK
<1>2. CASE AgentReads
  <2>1. turn \in Turns /\ \A name \in {pc} \cap DOMAIN Waits : Waits[name] \in Requests
    BY WaitsRange DEF TypeOK
  <2> QED
    BY <1>1, <1>2, <2>1 DEF AgentReads, TypeOK, RunTypes, runVars
<1>3. CASE ~AgentReads
  <2>1. todo' \subseteq todo /\ open' \subseteq open /\ UNCHANGED writing
    BY <1>3 DEF Agent, AgentAnswers, AgentCompletes, AgentEndsUnnamed, AgentSays,
       WriteUnasked, AgentExits, AgentForks, ChildrenExit,
       Reader, ReaderSends, ReaderEnds, Cancel, ContextKills, DeadlinePasses, agentVars
  <2> QED
    BY <1>1, <2>1 DEF TypeOK, RunTypes, runVars
<1> QED
  BY <1>2, <1>3

LEMMA RestTypesNext ==
  ASSUME TypeOK, Next
  PROVE  RestTypes'
<1> USE DEF TypeOK, RestTypes, runVars, outputVars, agentVars, limitVars
<1>1. CASE Agent
  BY <1>1 DEF Agent, AgentReads, AgentAnswers, AgentCompletes, AgentEndsUnnamed,
       AgentSays, WriteUnasked, AgentExits, AgentForks, ChildrenExit, othersVars
<1>2. CASE Reader \/ Cancel \/ ContextKills \/ DeadlinePasses
  BY <1>2 DEF othersVars, Reader, ReaderSends, ReaderEnds, Cancel, ContextKills, DeadlinePasses
<1>3. CASE \/ StartCodex \/ WriteFails \/ RequestLine \/ RequestTimeout
           \/ TurnLine \/ InputRejected \/ TurnTimeout
  BY <1>3 DEF StartCodex, WriteFails, RequestLine, RequestTimeout, TurnLine, InputRejected,
     TurnTimeout
<1>4. CASE OutputCloses \/ CancelSeen \/ Decide
  BY <1>4 DEF OutputCloses, CancelSeen, Decide
<1>5. CASE StartClaude \/ ClaudeLine \/ ClaudeOutputEnds \/ ClaudeExit
  BY <1>5 DEF StartClaude, ClaudeLine, ClaudeOutputEnds, ClaudeExit
<1> QED
  BY <1>1, <1>2, <1>3, <1>4, <1>5 DEF Next, RunStep

LEMMA OutputNext ==
  ASSUME TypeOK, Next
  PROVE  OutputOK'
<1>1. OutputOK
  BY DEF TypeOK, OutputOK
<1>2. CASE UNCHANGED <<pipe, msgCh>>
  BY <1>1, <1>2 DEF OutputOK
<1>3. CASE \E line \in Lines : Write(line) /\ UNCHANGED msgCh
  BY <1>1, <1>3, WriteOK DEF OutputOK
<1>4. CASE Agent
  <2>1. CASE \E r \in Requests : AgentAnswers(r)
    BY <1>3, <2>1, LinesOf DEF AgentAnswers
  <2>2. CASE AgentCompletes
    BY <1>3, <2>2, CompletesOK
  <2>3. CASE AgentEndsUnnamed \/ AgentSays
    BY <1>3, <2>3, UnaskedOK
  <2>4. CASE AgentReads \/ AgentExits \/ AgentForks \/ ChildrenExit
    BY <1>2, <2>4 DEF AgentReads, AgentExits, AgentForks, ChildrenExit, outputVars
  <2> QED
    BY <1>4, <2>1, <2>2, <2>3, <2>4 DEF Agent
<1>5. CASE ReaderSends
  <2>1. pipe' \in Seq(Lines) /\ Len(pipe') = Len(pipe) - 1 /\ Head(pipe) \in Lines
    BY <1>1, <1>5, TailOK DEF ReaderSends, OutputOK
  <2>2. msgCh' \in Seq(Lines) /\ Len(msgCh') = Len(msgCh) + 1 /\ Len(msgCh) < ChanSize
    BY <1>1, <1>5, <2>1 DEF ReaderSends, OutputOK
  <2> QED
    BY <1>1, <2>1, <2>2, SessionAssumption DEF OutputOK
<1>6. CASE RequestLine \/ TurnLine
  <2>1. msgCh # <<>> /\ msgCh' = Tail(msgCh) /\ UNCHANGED pipe
    BY <1>6 DEF RequestLine, TurnLine
  <2>2. msgCh' \in Seq(Lines) /\ Len(msgCh') = Len(msgCh) - 1
    BY <1>1, <2>1, TailOK DEF OutputOK
  <2> QED
    BY <1>1, <2>1, <2>2, SessionAssumption DEF OutputOK
<1>7. CASE ClaudeLine
  <2>1. pipe # <<>> /\ pipe' = Tail(pipe) /\ UNCHANGED msgCh
    BY <1>7 DEF ClaudeLine
  <2>2. pipe' \in Seq(Lines) /\ Len(pipe') = Len(pipe) - 1
    BY <1>1, <2>1, TailOK DEF OutputOK
  <2> QED
    BY <1>1, <2>1, <2>2, SessionAssumption DEF OutputOK
<1>8. CASE StartClaude \/ ReaderEnds
  <2>1. (pipe' = <<>> \/ UNCHANGED pipe) /\ UNCHANGED msgCh
    BY <1>8 DEF StartClaude, ReaderEnds
  <2>2. CASE pipe' = <<>>
    <3>1. pipe' \in Seq(Lines) /\ Len(pipe') = 0
      BY <2>2, EmptyOK, Zenon
    <3> QED
      BY <1>1, <2>1, <3>1, SessionAssumption DEF OutputOK
  <2> QED
    BY <1>2, <2>1, <2>2
<1>9. CASE Cancel \/ ContextKills \/ DeadlinePasses
  BY <1>2, <1>9 DEF Cancel, ContextKills, DeadlinePasses, outputVars
<1>10. CASE \/ StartCodex \/ WriteFails \/ RequestTimeout \/ InputRejected \/ TurnTimeout
            \/ OutputCloses \/ CancelSeen \/ Decide \/ ClaudeOutputEnds \/ ClaudeExit
  BY <1>2, <1>10 DEF StartCodex, WriteFails, RequestTimeout, InputRejected, TurnTimeout,
     OutputCloses, CancelSeen, Decide, ClaudeOutputEnds, ClaudeExit, outputVars
<1> QED
  BY <1>4, <1>5, <1>6, <1>7, <1>8, <1>9, <1>10 DEF Next, Reader, RunStep

(* Run's state is well typed: neither turn nor the channels ever leave     *)
(* their bounds.                                                           *)
THEOREM SessionTypeOK == Spec => []TypeOK
<1>1. Init => TypeOK
  <2> SUFFICES ASSUME Init
               PROVE  TypeOK
    OBVIOUS
  <2>1. pipe \in Seq(Lines) /\ msgCh \in Seq(Lines) /\ Len(pipe) = 0 /\ Len(msgCh) = 0
    BY EmptyOK, Zenon DEF Init
  <2>2. OutputOK
    BY <2>1, SessionAssumption DEF OutputOK
  <2>3. RunTypes
    <3>1. turn \in Turns
      BY SessionAssumption DEF Init, Turns
    <3>2. todo \in SUBSET Requests /\ open \in SUBSET Turns
      BY DEF Init
    <3> QED
      BY <3>1, <3>2, PointsAre DEF Init, RunTypes
  <2>4. RestTypes
    BY DEF Init, RestTypes
  <2> QED
    BY <2>2, <2>3, <2>4 DEF TypeOK, OutputOK, RunTypes, RestTypes
<1>2. TypeOK /\ [Next]_vars => TypeOK'
  <2> SUFFICES ASSUME TypeOK, [Next]_vars
               PROVE  TypeOK'
    OBVIOUS
  <2>1. CASE Next
    <3>1. RunTypes'
      BY <2>1, RunTypesNext, OthersTypesNext DEF Next
    <3>2. RestTypes' /\ OutputOK'
      BY <2>1, RestTypesNext, OutputNext
    <3> QED
      BY <3>1, <3>2 DEF TypeOK, RunTypes, RestTypes, OutputOK
  <2>2. CASE UNCHANGED vars
    BY <2>2 DEF TypeOK, vars, runVars, outputVars, agentVars, limitVars
  <2> QED
    BY <2>1, <2>2
<1> QED
  BY <1>1, <1>2, PTL DEF Spec
-----------------------------------------------------------------------------
(* Turns and the lines that end them.                                      *)

(* Every line of these that ends a turn as completed ends one of these.    *)
EndsIn(lines, turns) ==
    \A n \in 1..Len(lines) : lines[n][1] = "completed" => lines[n][2] \in turns

LEMMA EndsInEmpty == \A turns : EndsIn(<<>>, turns)
BY EmptyOK DEF EndsIn

LEMMA EndsInMore ==
  ASSUME NEW lines, NEW some, NEW more, some \subseteq more, EndsIn(lines, some)
  PROVE  EndsIn(lines, more)
BY DEF EndsIn

LEMMA EndsInTail ==
  ASSUME NEW lines \in Seq(Lines), lines # <<>>, NEW turns, EndsIn(lines, turns)
  PROVE  /\ EndsIn(Tail(lines), turns)
         /\ Head(lines)[1] = "completed" => Head(lines)[2] \in turns
<1>1. Len(lines) \in Nat \ {0} /\ Head(lines) = lines[1]
  OBVIOUS
<1>2. \A n \in 1..Len(Tail(lines)) : n + 1 \in 1..Len(lines) /\ Tail(lines)[n] = lines[n + 1]
  OBVIOUS
<1> QED
  BY <1>1, <1>2 DEF EndsIn

LEMMA EndsInAppend ==
  ASSUME NEW lines \in Seq(Lines), NEW line \in Lines, NEW turns, EndsIn(lines, turns),
         line[1] = "completed" => line[2] \in turns
  PROVE  EndsIn(Append(lines, line), turns)
<1>1. \A n \in 1..Len(Append(lines, line)) :
         \/ n \in 1..Len(lines) /\ Append(lines, line)[n] = lines[n]
         \/ Append(lines, line)[n] = line
  OBVIOUS
<1> QED
  BY <1>1 DEF EndsIn

(* The request for the current turn has not reached the agent.             *)
Fresh == pc \in {"start", "initialize", "skills", "thread"} \/ (pc = "turn_start" /\ writing)

(* The agent is busy with no turn but this and those that Run took for     *)
(* over by a line that names none, and not with one that it has completed; *)
(* a turn that Run counts as over has been completed, or is one of those.  *)
TurnInv ==
    /\ open \subseteq {turn} \cup unnamed
    /\ open \cap ended = {}
    /\ ended \subseteq 1..turn /\ unnamed \subseteq 1..turn
    /\ Fresh => turn \notin ended \cup open
    /\ pc = "decide" \/ outcome \in {"success", "max_turns"} => turn \in ended \cup unnamed

(* No line tells of a completion that has not happened, but those that     *)
(* name no turn; a Claude process tells of its own turn only.              *)
LineInv ==
    /\ EndsIn(pipe, ended \cup {0}) /\ EndsIn(msgCh, ended \cup {0})
    /\ pc = "claude_read" => EndsIn(pipe, {turn})
    /\ pc = "claude_read" => EndsIn(pipe, ended)
    /\ pc \in {"claude_read", "claude_exit"} /\ completed => turn \in ended

(* Claude's turns are not waited for in waitForTurn.                       *)
ClaudeInv ==
    provider = "claude" =>
        /\ pc \in {"start", "claude_read", "claude_exit", "decide", "done"}
        /\ unnamed = {}

IInv == TypeOK /\ RunInv /\ ClaudeInv /\ TurnInv /\ LineInv

(* What a step of Run does to the turns that the agent knows.              *)
LEMMA RunStepTurns ==
  ASSUME RunInv, RunStep
  PROVE  /\ UNCHANGED ended
         /\ \/ UNCHANGED open
            \/ pc = "start" /\ pc' = "claude_read" /\ open' = {turn}
         /\ UNCHANGED unnamed \/ (pc = "in_turn" /\ unnamed' = unnamed \cup {turn})
         /\ Fresh' /\ UNCHANGED turn => Fresh
<1> USE DEF Ask, Finish, agentVars
<1> DEFINE Calm == UNCHANGED <<open, ended, unnamed>>
           Still == Fresh' /\ UNCHANGED turn => Fresh
<1>1. ASSUME NEW result, GiveUp(result)
      PROVE  UNCHANGED open /\ (pc \in DOMAIN Waits \cup {"in_turn"} => Still)
  BY <1>1, WaitsDomain DEF GiveUp, Fresh
<1>2. ASSUME Proceed
      PROVE  UNCHANGED open /\ Still
  BY <1>2 DEF Proceed, Fresh
<1>3. CASE RequestLine
  <2>1. /\ UNCHANGED <<ended, unnamed>> /\ pc \in DOMAIN Waits
        /\ Proceed \/ GiveUp("failed") \/ UNCHANGED <<pc, writing, open>>
    BY <1>3 DEF RequestLine, Waiting
  <2> QED
    BY <1>1, <1>2, <2>1 DEF Fresh
<1>4. CASE RequestTimeout \/ OutputCloses \/ CancelSeen
  <2>1. /\ UNCHANGED <<ended, unnamed>> /\ pc \in DOMAIN Waits \cup {"in_turn"}
        /\ \E result \in Outcomes : GiveUp(result)
    BY <1>4 DEF RequestTimeout, OutputCloses, CancelSeen, Waiting, InTurn, Outcomes
  <2> QED
    BY <1>1, <2>1
<1>5. CASE \/ StartCodex \/ TurnTimeout \/ InputRejected
           \/ ClaudeLine \/ ClaudeOutputEnds \/ ClaudeExit
  BY <1>5 DEF StartCodex, TurnTimeout, InputRejected, ClaudeLine, ClaudeOutputEnds, ClaudeExit,
     Fresh
<1>6. CASE TurnLine
  <2>1. /\ UNCHANGED ended /\ pc = "in_turn"
        /\ Finish("failed") \/ (pc' \in {pc, "decide", "input"} /\ UNCHANGED open)
    BY <1>6 DEF TurnLine, InTurn
  <2>2. UNCHANGED unnamed \/ unnamed' = unnamed \cup {turn}
    <3>1. \/ UNCHANGED unnamed
          \/ unnamed' = unnamed \cup {t \in {turn} : Head(msgCh)[2] = 0}
      BY <1>6 DEF TurnLine
    <3> QED
      BY <3>1
  <2> QED
    BY <2>1, <2>2 DEF Fresh
<1>7. CASE Decide
  BY <1>7, SessionAssumption DEF Decide, Fresh, RunInv, Turns
<1>8. CASE StartClaude
  BY <1>8 DEF StartClaude, Fresh
<1>9. CASE WriteFails
  <2>1. CASE pc \in DOMAIN Waits /\ GiveUp("failed")
    BY <1>1, <1>9, <2>1 DEF WriteFails
  <2>2. CASE pc \in {"input", "in_turn"} /\ UNCHANGED open /\ pc' \in {"done", "in_turn"}
    BY <1>9, <2>2 DEF WriteFails, Fresh
  <2> QED
    BY <1>9, <2>1, <2>2 DEF WriteFails
<1> QED
  BY <1>3, <1>4, <1>5, <1>6, <1>7, <1>8, <1>9 DEF RunStep

(* Run takes a turn for over only for a line or an exit that tells so, or  *)
(* for a line that names no turn.                                          *)
LEMMA OverIsEnded ==
  ASSUME IInv, RunStep, pc # "decide", pc' = "decide"
  PROVE  turn \in ended \cup unnamed'
<1> USE DEF Ask, Finish
<1>1. CASE TurnLine
  <2>1. /\ msgCh # <<>> /\ Head(msgCh)[1] = "completed"
        /\ Head(msgCh)[2] \in {turn, 0}
        /\ unnamed' = unnamed \cup {t \in {turn} : Head(msgCh)[2] = 0}
    BY <1>1 DEF TurnLine, InTurn
  <2>2. msgCh \in Seq(Lines) /\ EndsIn(msgCh, ended \cup {0}) /\ turn \in Turns
    BY DEF IInv, TypeOK, LineInv
  <2>3. Head(msgCh)[2] \in ended \cup {0}
    BY <2>1, <2>2, EndsInTail
  <2> QED
    BY <2>1, <2>2, <2>3, SessionAssumption DEF Turns
<1>2. CASE ClaudeExit
  BY <1>2 DEF ClaudeExit, IInv, LineInv
<1>3. CASE RequestLine
  <2>1. Proceed \/ GiveUp("failed") \/ UNCHANGED pc
    BY <1>3 DEF RequestLine
  <2> QED
    BY <2>1 DEF Proceed, GiveUp
<1>4. CASE RequestTimeout \/ OutputCloses \/ CancelSeen \/ WriteFails
  BY <1>4 DEF RequestTimeout, OutputCloses, CancelSeen, WriteFails, GiveUp
<1>5. CASE \/ StartCodex \/ TurnTimeout \/ InputRejected \/ Decide
           \/ StartClaude \/ ClaudeLine \/ ClaudeOutputEnds
  BY <1>5 DEF StartCodex, TurnTimeout, InputRejected, Decide, StartClaude, ClaudeLine,
     ClaudeOutputEnds
<1> QED
  BY <1>1, <1>2, <1>3, <1>4, <1>5 DEF RunStep

(* What everybody else does to them: a turn may come to its end, and the   *)
(* request for the current one may arrive.                                 *)
LEMMA OthersTurns ==
  ASSUME TypeOK, Agent \/ Reader \/ Cancel \/ ContextKills \/ DeadlinePasses
  PROVE  /\ UNCHANGED <<pc, turn, outcome, unnamed>>
         /\ \/ UNCHANGED <<open, ended, writing>>
            \/ /\ \E t \in open : open' = open \ {t} /\ (ended' = ended \/ ended' = ended \cup {t})
               /\ UNCHANGED writing
            \/ ~Fresh' /\ UNCHANGED <<open, ended>>
            \/ Fresh /\ ~Fresh' /\ open' = open \cup {turn} /\ UNCHANGED ended
            \/ UNCHANGED <<pc, open, ended>> /\ pc # "turn_start"
<1>1. CASE AgentReads
  <2>1. /\ writing /\ writing' = FALSE /\ UNCHANGED <<pc, turn, outcome, unnamed, ended>>
        /\ open' = open \cup {t \in {turn} : pc = "turn_start"}
    BY <1>1 DEF AgentReads, othersVars, runVars
  <2>2. CASE pc = "turn_start"
    BY <2>1, <2>2 DEF Fresh
  <2>3. CASE pc # "turn_start"
    <3>1. UNCHANGED open
      BY <2>1, <2>3 DEF TypeOK
    <3> QED
      BY <2>1, <2>3, <3>1
  <2> QED
    BY <2>2, <2>3
<1>2. CASE ~AgentReads
  BY <1>2 DEF Agent, AgentAnswers, AgentCompletes, AgentEndsUnnamed, AgentSays,
     WriteUnasked, AgentExits, AgentForks, ChildrenExit, othersVars,
     Reader, ReaderSends, ReaderEnds, Cancel, ContextKills, DeadlinePasses, agentVars, runVars
<1> QED
  BY <1>1, <1>2

LEMMA ClaudeNext ==
  ASSUME IInv, [Next]_vars
  PROVE  ClaudeInv'
<1>1. RunInv /\ ClaudeInv /\ TypeOK
  BY DEF IInv
<1>2. UNCHANGED unnamed \/ pc = "in_turn"
  <2>1. CASE RunStep
    BY <1>1, <2>1, RunStepTurns
  <2>2. CASE UNCHANGED vars
    BY <2>2 DEF vars
  <2> QED
    BY <1>1, <2>1, <2>2, OthersTurns DEF Next
<1> QED
  BY <1>1, <1>2, NextKinds
     DEF ClaudeInv, RunInv, Stays, Ends, Prepares, Begins, Works, Completes, GoesOn

LEMMA TurnNext ==
  ASSUME IInv, [Next]_vars
  PROVE  TurnInv'
<1>1. TypeOK /\ TurnInv /\ RunInv /\ turn \in Nat /\ turn \in 1..turn
  BY SessionAssumption DEF IInv, RunInv, Turns
<1>2. CASE RunStep
  <2>1. UNCHANGED ended
    BY <1>1, <1>2, RunStepTurns
  <2>2. CASE Stays \/ Ends
    <3>1. UNCHANGED <<open, turn>> /\ (Fresh' => Fresh)
      BY <1>1, <1>2, <2>2, RunStepTurns DEF Stays, Ends
    <3>2. UNCHANGED unnamed \/ unnamed' = unnamed \cup {turn}
      BY <1>1, <1>2, RunStepTurns
    <3> QED
      BY <1>1, <2>1, <2>2, <3>1, <3>2 DEF TurnInv, Stays, Ends, RunInv
  <2>3. CASE Prepares \/ Works \/ Completes
    <3>1. UNCHANGED open /\ UNCHANGED <<turn, outcome>> /\ (Fresh' => Fresh)
      BY <1>1, <1>2, <2>3, RunStepTurns DEF Prepares, Works, Completes
    <3>2. pc' = "decide" => turn \in ended \cup unnamed'
      BY <1>2, <2>3, OverIsEnded DEF Prepares, Works, Completes
    <3>3. UNCHANGED unnamed \/ unnamed' = unnamed \cup {turn}
      BY <1>1, <1>2, RunStepTurns
    <3> QED
      BY <1>1, <2>1, <2>3, <3>1, <3>2, <3>3 DEF TurnInv, Prepares, Works, Completes
  <2>4. CASE Begins
    <3>1. /\ UNCHANGED open \/ open' = {turn}
          /\ UNCHANGED <<turn, unnamed, outcome>> /\ (Fresh' => Fresh)
          /\ pc' # "decide"
      BY <1>1, <1>2, <2>4, RunStepTurns DEF Begins
    <3>2. turn \notin ended \cup open
      BY <1>1, <2>4 DEF TurnInv, Begins, Fresh
    <3>3. Fresh' => UNCHANGED open
      BY <1>1, <1>2, <2>4, RunStepTurns DEF Begins, Fresh
    <3> QED
      BY <1>1, <2>1, <3>1, <3>2, <3>3 DEF TurnInv
  <2>5. CASE GoesOn
    <3>1. pc = "decide" /\ pc' \in {"turn_start", "start"} /\ turn' = turn + 1
      BY <2>5 DEF GoesOn
    <3>2. UNCHANGED <<open, unnamed>>
      BY <1>1, <1>2, <3>1, RunStepTurns
    <3>3. open \subseteq unnamed /\ unnamed \subseteq 1..turn /\ ended \subseteq 1..turn
      BY <1>1, <3>1 DEF TurnInv
    <3>4. 1..turn \subseteq 1..turn' /\ turn' \notin 1..turn
      BY <1>1, <3>1
    <3>5. outcome' = "none"
      BY <1>1, <2>5 DEF GoesOn, RunInv
    <3>6. turn' \notin (ended \cup open)' /\ (open \cap ended = {})'
      BY <1>1, <2>1, <3>2, <3>3, <3>4 DEF TurnInv
    <3> QED
      BY <2>1, <3>1, <3>2, <3>3, <3>4, <3>5, <3>6 DEF TurnInv
  <2> QED
    BY <1>1, <1>2, <2>2, <2>3, <2>4, <2>5, RunStepKinds
<1>3. CASE Agent \/ Reader \/ Cancel \/ ContextKills \/ DeadlinePasses
  <2>1. UNCHANGED <<pc, turn, outcome, unnamed>>
    BY <1>1, <1>3, OthersTurns
  <2>2. CASE UNCHANGED <<open, ended>> /\ (Fresh' => Fresh)
    BY <1>1, <2>1, <2>2 DEF TurnInv
  <2>3. CASE /\ \E t \in open : open' = open \ {t} /\ (ended' = ended \/ ended' = ended \cup {t})
             /\ UNCHANGED writing
    <3>1. PICK t \in open : open' = open \ {t} /\ (ended' = ended \/ ended' = ended \cup {t})
      BY <2>3
    <3>2. t \in 1..turn /\ (Fresh => t # turn) /\ (Fresh' => Fresh)
      BY <1>1, <2>1, <2>3 DEF TurnInv, Fresh
    <3> QED
      BY <1>1, <2>1, <3>1, <3>2 DEF TurnInv
  <2>4. CASE Fresh /\ ~Fresh' /\ open' = open \cup {turn} /\ UNCHANGED ended
    BY <1>1, <2>1, <2>4 DEF TurnInv
  <2>5. ASSUME UNCHANGED <<pc, writing>> \/ pc # "turn_start"
        PROVE  Fresh' => Fresh
    BY <2>1, <2>5 DEF Fresh
  <2> QED
    BY <1>1, <1>3, <2>1, <2>2, <2>3, <2>4, <2>5, OthersTurns
<1>4. CASE UNCHANGED vars
  BY <1>1, <1>4 DEF TurnInv, Fresh, vars, runVars, agentVars
<1> QED
  BY <1>2, <1>3, <1>4 DEF Next

(* What a step does to a channel's lines, apart from taking the first.     *)
LEMMA PipeKinds ==
  ASSUME IInv, [Next]_vars
  PROVE  \/ UNCHANGED pipe
         \/ pipe # <<>> /\ pipe' = Tail(pipe)
         \/ pipe' = <<>>
         \/ \E line \in Lines :
              /\ pipe' = Append(pipe, line)
              /\ line[1] = "completed" =>
                   line[2] \in ended' \cap open \/ (provider = "codex" /\ line[2] = 0)
<1> USE DEF outputVars, runVars
<1>1. CASE Agent
  <2>1. CASE \E r \in Requests : AgentAnswers(r)
    BY <2>1, LinesOf DEF AgentAnswers, Write
  <2>2. CASE AgentCompletes
    <3>1. PICK line \in Lines :
            /\ Write(line)
            /\ line[1] = "completed" => line[2] \in ended' \cap open
      BY <2>2, CompletesOK DEF IInv
    <3>2. UNCHANGED pipe \/ pipe' = Append(pipe, line)
      BY <3>1 DEF Write
    <3> QED
      BY <3>1, <3>2
  <2>3. CASE AgentEndsUnnamed \/ AgentSays
    <3>1. PICK line \in Lines :
            /\ Write(line)
            /\ line[1] = "completed" => provider = "codex" /\ line[2] = 0
      BY <2>3, UnaskedOK
    <3> QED
      BY <3>1 DEF Write
  <2>4. CASE AgentReads \/ AgentExits \/ AgentForks \/ ChildrenExit
    BY <2>4 DEF AgentReads, AgentExits, AgentForks, ChildrenExit
  <2> QED
    BY <1>1, <2>1, <2>2, <2>3, <2>4 DEF Agent
<1>2. CASE Reader \/ Cancel \/ ContextKills \/ DeadlinePasses
  BY <1>2 DEF othersVars, Reader, ReaderSends, ReaderEnds, Cancel, ContextKills, DeadlinePasses
<1>3. CASE RunStep
  BY <1>3 DEF RunStep, StartCodex, WriteFails, RequestLine, RequestTimeout, TurnLine,
     InputRejected, TurnTimeout, OutputCloses, CancelSeen, Decide, StartClaude, ClaudeLine,
     ClaudeOutputEnds, ClaudeExit
<1>4. CASE UNCHANGED vars
  BY <1>4 DEF vars
<1> QED
  BY <1>1, <1>2, <1>3, <1>4 DEF Next

LEMMA MsgChKinds ==
  ASSUME [Next]_vars
  PROVE  \/ UNCHANGED msgCh
         \/ msgCh # <<>> /\ msgCh' = Tail(msgCh)
         \/ pipe # <<>> /\ msgCh' = Append(msgCh, Head(pipe))
<1> USE DEF outputVars
<1>1. CASE Agent
  BY <1>1 DEF Agent, AgentReads, AgentAnswers, AgentCompletes, AgentEndsUnnamed,
       AgentSays, WriteUnasked, AgentExits, AgentForks, ChildrenExit, othersVars
<1>2. CASE Reader \/ Cancel \/ ContextKills \/ DeadlinePasses
  BY <1>2 DEF othersVars, Reader, ReaderSends, ReaderEnds, Cancel, ContextKills, DeadlinePasses
<1>3. CASE RunStep
  BY <1>3 DEF RunStep, StartCodex, WriteFails, RequestLine, RequestTimeout, TurnLine,
     InputRejected, TurnTimeout, OutputCloses, CancelSeen, Decide, StartClaude, ClaudeLine,
     ClaudeOutputEnds, ClaudeExit
<1>4. CASE UNCHANGED vars
  BY <1>4 DEF vars
<1> QED
  BY <1>1, <1>2, <1>3, <1>4 DEF Next

(* How a Claude turn's note of its completion comes about.                 *)
LEMMA CompletedKinds ==
  ASSUME IInv, [Next]_vars, pc' \in {"claude_read", "claude_exit"}
  PROVE  \/ completed' = FALSE /\ pipe' = <<>>
         \/ /\ pc \in {"claude_read", "claude_exit"} /\ UNCHANGED turn
            /\ pc' = "claude_read" => pc = "claude_read"
            /\ \/ UNCHANGED completed
               \/ pc = "claude_read" /\ pipe # <<>> /\ Head(pipe)[1] = "completed"
<1> USE DEF Finish, Ask
<1>1. CASE RunStep
  <2>1. CASE StartClaude
    BY <2>1 DEF StartClaude
  <2>2. CASE ClaudeLine
    <3>1. pc' = pc /\ pc = "claude_read" /\ pipe # <<>> /\ UNCHANGED turn
      BY <2>2 DEF ClaudeLine
    <3>2. completed' = (completed \/ Head(pipe)[1] = "completed")
      BY <2>2, <3>1 DEF ClaudeLine
    <3>3. completed \in BOOLEAN
      BY DEF IInv, TypeOK
    <3> QED
      BY <3>1, <3>2, <3>3
  <2>3. CASE ClaudeOutputEnds
    BY <2>3 DEF ClaudeOutputEnds
  <2>4. CASE ClaudeExit
    BY <2>4 DEF ClaudeExit
  <2>5. CASE RequestLine
    <3>1. (Proceed \/ GiveUp("failed") \/ UNCHANGED pc) /\ Waiting
      BY <2>5 DEF RequestLine
    <3> QED
      BY <3>1, WaitsDomain DEF Proceed, GiveUp, Waiting
  <2>6. CASE RequestTimeout \/ OutputCloses \/ CancelSeen \/ WriteFails
    BY <2>6, WaitsDomain
       DEF RequestTimeout, OutputCloses, CancelSeen, WriteFails, GiveUp, Waiting, InTurn
  <2>7. CASE TurnLine
    <3>1. pc = "in_turn" /\ (Finish("failed") \/ pc' \in {pc, "decide", "input"})
      BY <2>7 DEF TurnLine, InTurn
    <3> QED
      BY <3>1
  <2>8. CASE StartCodex \/ TurnTimeout \/ InputRejected \/ Decide
    BY <2>8 DEF StartCodex, TurnTimeout, InputRejected, Decide, InTurn
  <2> QED
    BY <1>1, <2>1, <2>2, <2>3, <2>4, <2>5, <2>6, <2>7, <2>8 DEF RunStep
<1>2. CASE Agent \/ Reader \/ Cancel \/ ContextKills \/ DeadlinePasses
  <2>1. UNCHANGED runVars /\ UNCHANGED completed
    BY <1>2, OthersKeepRunVars
       DEF Agent, AgentReads, AgentAnswers, AgentCompletes, AgentEndsUnnamed, AgentSays,
       WriteUnasked, AgentExits, AgentForks, ChildrenExit, othersVars,
       Reader, ReaderSends, ReaderEnds, Cancel, ContextKills, DeadlinePasses
  <2> QED
    BY <2>1 DEF runVars
<1>3. CASE UNCHANGED vars
  BY <1>3 DEF vars, runVars
<1> QED
  BY <1>1, <1>2, <1>3 DEF Next

LEMMA EndedGrows ==
  ASSUME IInv, [Next]_vars
  PROVE  ended \subseteq ended'
<1>1. RunInv /\ TypeOK
  BY DEF IInv
<1> QED
  BY <1>1, RunStepTurns, OthersTurns DEF Next, vars, agentVars

LEMMA LineNext ==
  ASSUME IInv, [Next]_vars
  PROVE  LineInv'
<1>1. /\ pipe \in Seq(Lines) /\ msgCh \in Seq(Lines)
      /\ EndsIn(pipe, (ended \cup {0})') /\ EndsIn(msgCh, (ended \cup {0})')
  BY EndedGrows, EndsInMore DEF IInv, TypeOK, LineInv
<1>2. EndsIn(pipe', (ended \cup {0})')
  <2>1. CASE UNCHANGED pipe
    BY <1>1, <2>1
  <2>2. CASE pipe # <<>> /\ pipe' = Tail(pipe)
    BY <1>1, <2>2, EndsInTail
  <2>3. CASE pipe' = <<>>
    BY <2>3, EndsInEmpty, Zenon
  <2>4. ASSUME NEW line \in Lines, pipe' = Append(pipe, line),
               line[1] = "completed" => line[2] \in (ended \cup {0})'
        PROVE  EndsIn(pipe', (ended \cup {0})')
    BY <1>1, <2>4, EndsInAppend
  <2> QED
    BY <2>1, <2>2, <2>3, <2>4, PipeKinds
<1>3. EndsIn(msgCh', (ended \cup {0})')
  <2>1. pipe # <<>> => /\ Head(pipe) \in Lines
                       /\ Head(pipe)[1] = "completed" => Head(pipe)[2] \in (ended \cup {0})'
    BY <1>1, TailOK, EndsInTail
  <2>2. CASE UNCHANGED msgCh
    BY <1>1, <2>2
  <2>3. CASE msgCh # <<>> /\ msgCh' = Tail(msgCh)
    BY <1>1, <2>3, EndsInTail
  <2>4. CASE pipe # <<>> /\ msgCh' = Append(msgCh, Head(pipe))
    BY <1>1, <2>1, <2>4, EndsInAppend
  <2> QED
    BY <2>2, <2>3, <2>4, MsgChKinds
<1>4. ASSUME pc' = "claude_read"
      PROVE  EndsIn(pipe', {turn'}) /\ EndsIn(pipe', ended')
  <2>1. pipe' = <<>> \/ (pc = "claude_read" /\ UNCHANGED turn)
    BY <1>4, CompletedKinds
  <2>2. CASE pc = "claude_read" /\ UNCHANGED turn
    <3>1. /\ EndsIn(pipe, {turn} \cap ended') /\ open \subseteq {turn} \cup unnamed
          /\ provider = "claude" /\ unnamed = {}
      BY <2>2, EndedGrows DEF IInv, LineInv, TurnInv, RunInv, ClaudeInv, EndsIn
    <3>2. EndsIn(pipe', {turn} \cap ended')
      <4>1. CASE UNCHANGED pipe
        BY <3>1, <4>1
      <4>2. CASE pipe # <<>> /\ pipe' = Tail(pipe)
        BY <1>1, <3>1, <4>2, EndsInTail
      <4>3. CASE pipe' = <<>>
        BY <4>3, EndsInEmpty, Zenon
      <4>4. ASSUME NEW line \in Lines, pipe' = Append(pipe, line),
                   line[1] = "completed" => line[2] \in ended' \cap open
            PROVE  EndsIn(pipe', {turn} \cap ended')
        BY <1>1, <3>1, <4>4, EndsInAppend
      <4> QED
        BY <3>1, <4>1, <4>2, <4>3, <4>4, PipeKinds
    <3>3. {turn} \cap ended' \subseteq {turn'} /\ {turn} \cap ended' \subseteq ended'
      BY <2>2
    <3> QED
      BY <3>2, <3>3, EndsInMore
  <2>3. CASE pipe' = <<>>
    BY <2>3, EndsInEmpty, Zenon
  <2> QED
    BY <2>1, <2>2, <2>3
<1>5. ASSUME pc' \in {"claude_read", "claude_exit"}, completed'
      PROVE  turn' \in ended'
  <2>1. /\ pc \in {"claude_read", "claude_exit"} /\ UNCHANGED turn
        /\ UNCHANGED completed \/ (pc = "claude_read" /\ pipe # <<>> /\ Head(pipe)[1] = "completed")
    BY <1>5, CompletedKinds
  <2>2. CASE UNCHANGED completed
    BY <1>5, <2>1, <2>2, EndedGrows DEF IInv, LineInv
  <2>3. CASE pc = "claude_read" /\ pipe # <<>> /\ Head(pipe)[1] = "completed"
    <3>1. EndsIn(pipe, {turn}) /\ EndsIn(pipe, ended)
      BY <2>3 DEF IInv, LineInv
    <3>2. Head(pipe)[2] \in {turn} /\ Head(pipe)[2] \in ended
      BY <1>1, <2>3, <3>1, EndsInTail
    <3> QED
      BY <2>1, <3>2, EndedGrows
  <2> QED
    BY <2>1, <2>2, <2>3
<1> QED
  BY <1>2, <1>3, <1>4, <1>5 DEF LineInv

(* In every reachable state the agent works on no turn but Run's current   *)
(* one and those that an end without an id closed, and no line that is on  *)
(* its way names a turn as completed that is not.                          *)
THEOREM SessionInvariant == Spec => []IInv
<1>1. Init => RunInv /\ ClaudeInv /\ TurnInv /\ LineInv
  BY RunInvInit, EndsInEmpty DEF Init, ClaudeInv, TurnInv, LineInv
<1>2. IInv /\ [Next]_vars => (RunInv /\ ClaudeInv /\ TurnInv /\ LineInv)'
  BY RunInvNext, ClaudeNext, TurnNext, LineNext DEF IInv
<1> QED
  BY <1>1, <1>2, SessionTypeOK, PTL DEF Spec, IInv

(* Run reports a finished turn only if the agent completed that very turn, *)
(* or wrote the end of a turn without its id: nothing else that an agent   *)
(* may say or do, no exit and no stale line that names its turn is taken   *)
(* for it.                                                                 *)
THEOREM SessionSuccessEarned == Spec => []SuccessEarned
<1>1. IInv => SuccessEarned
  BY DEF IInv, TurnInv, SuccessEarned
<1> QED
  BY <1>1, SessionInvariant, PTL

(* The agent is never asked for a turn while it is busy with another, but  *)
(* for those that Run took for over by the end of a turn without an id.    *)
THEOREM SessionOneTurnAtATime == Spec => []OneTurnAtATime
<1>1. IInv => OneTurnAtATime
  BY DEF IInv, TurnInv, OneTurnAtATime
<1> QED
  BY <1>1, SessionInvariant, PTL
=============================================================================
