---------------------------- MODULE AgentSession ----------------------------
(***************************************************************************)
(* One call of Runner.Run (internal/agent/runner.go): the agent's process, *)
(* the goroutine that reads its output, the requests of the Codex protocol *)
(* with their time limits, the wait for a turn, the question whether to go *)
(* on, and the Claude variant, which starts a process for every turn.      *)
(*                                                                         *)
(* A line of output is reduced to what Run tells apart.  A malformed       *)
(* answer and an error answer are both a refusal.  Prompts, skills and     *)
(* token counts are left out.  Time is a choice: a limit may be reached at *)
(* any step of the wait that it limits.                                    *)
(***************************************************************************)
EXTENDS Naturals, Sequences, FiniteSets

CONSTANTS
    MaxTurns,     \* agent.max_turns
    ChanSize,     \* room in msgCh, 64 in the code
    PipeSize,     \* bound: lines of output that wait in the pipe
    MaxUnasked    \* bound: lines among those that wait which nothing asked for

ASSUME SessionAssumption ==
    /\ MaxTurns \in Nat \ {0}
    /\ ChanSize \in Nat \ {0}
    /\ PipeSize \in Nat \ {0}
    /\ MaxUnasked \in Nat

Turns == 1..MaxTurns
Requests == {"initialize", "skills", "thread", "turn"}
Lines == ({"reply", "refuse"} \X Requests)
         \cup ({"completed", "broken"} \X (Turns \cup {0}))   \* 0: it names no turn
         \cup ({"note", "tool", "input", "fatal"} \X {0})
Outcomes == {"success", "max_turns", "failed", "cancelled"}

\* Run has sent the request of this name and waits for its answer.
Waits == [initialize |-> "initialize", skills |-> "skills",
          thread |-> "thread", turn_start |-> "turn"]
Points == DOMAIN Waits \cup {"start", "in_turn", "input", "decide", "claude_read",
                             "claude_exit", "done"}

VARIABLES
    provider,     \* cfg.Provider after the stage's overrides
    pc,           \* where Run is
    turn,         \* turnCount
    outcome,      \* what Run returned
    process,      \* the agent's process
    children,     \* processes it started hold its output open
    writing,      \* Run writes to the agent, which has not read it
    pipe,         \* lines written and not handed over, the one in the reader's hand too
    reader,       \* the reader goroutine
    msgCh,        \* lines that the reader has handed over
    ctxDone,      \* the session's context is cancelled
    deadline,     \* the Claude turn's own context has run out
    completed,    \* the Claude turn reported its completion
    \* What the agent knows, external:
    todo,         \* requests it has received and may still answer
    open,         \* turns it has begun and not ended
    ended,        \* turns it has completed
    unnamed       \* history: turns that Run took for over by a line that names none

runVars == <<provider, pc, turn, outcome>>
outputVars == <<pipe, reader, msgCh>>
agentVars == <<todo, open, ended>>
limitVars == <<ctxDone, deadline>>
vars == <<runVars, process, children, writing, outputVars, limitVars, completed, agentVars,
          unnamed>>
othersVars == <<runVars, limitVars, completed, unnamed>>

TypeOK ==
    /\ provider \in {"codex", "claude"}
    /\ pc \in Points
    /\ turn \in Turns
    /\ outcome \in Outcomes \cup {"none"}
    /\ process \in {"none", "alive", "exited", "crashed"}
    /\ children \in BOOLEAN /\ writing \in BOOLEAN
    /\ pipe \in Seq(Lines) /\ Len(pipe) <= PipeSize
    /\ reader \in {"off", "reading", "ended", "broken"}
    /\ msgCh \in Seq(Lines) /\ Len(msgCh) <= ChanSize
    /\ ctxDone \in BOOLEAN /\ deadline \in BOOLEAN /\ completed \in BOOLEAN
    /\ todo \in SUBSET Requests
    /\ open \in SUBSET Turns
    /\ ended \in SUBSET Turns
    /\ unnamed \in SUBSET Turns

Init ==
    /\ provider \in {"codex", "claude"}
    /\ pc = "start"
    /\ turn = 1
    /\ outcome = "none"
    /\ process = "none"
    /\ children = FALSE /\ writing = FALSE
    /\ pipe = <<>> /\ msgCh = <<>>
    /\ reader = "off"
    /\ ctxDone = FALSE /\ deadline = FALSE /\ completed = FALSE
    /\ todo = {} /\ open = {} /\ ended = {} /\ unnamed = {}
-----------------------------------------------------------------------------
(* The agent, external: what a process that speaks the protocol may do.    *)

\* Lines that nobody will read are not kept.
Write(line) ==
    /\ process = "alive"
    /\ Len(pipe) < PipeSize
    /\ pipe' = IF reader \in {"ended", "broken"} THEN pipe ELSE Append(pipe, line)

\* A line that names no request and no turn, and that an agent of any of the
\* providers may write at any time.
WriteUnasked(line, providers) ==
    /\ provider \in providers
    /\ LET lines   == msgCh \o pipe
           unasked == {n \in 1..Len(lines) :
                         lines[n][1] \notin {"reply", "refuse"} /\ lines[n][2] = 0}
       IN  Cardinality(unasked) < MaxUnasked
    /\ Write(line)
    /\ UNCHANGED <<othersVars, process, children, writing, reader, msgCh, agentVars>>

\* It reads what Run writes: a request, which may ask for a turn, or an answer.
AgentReads ==
    /\ writing
    /\ process = "alive"
    /\ writing' = FALSE
    /\ todo' = todo \cup {Waits[name] : name \in {pc} \cap DOMAIN Waits}
    /\ open' = open \cup {t \in {turn} : pc = "turn_start"}
    /\ UNCHANGED <<othersVars, process, children, outputVars, ended>>

\* It answers a request, in any order, and begins the turn that it accepts.
\* A turn may even be over before the answer that accepts it is written.
AgentAnswers(r) ==
    /\ r \in todo
    /\ todo' = todo \ {r}
    /\ Write(<<"reply", r>>) \/ Write(<<"refuse", r>>)
    /\ UNCHANGED <<othersVars, process, children, writing, reader, msgCh, open, ended>>

AgentCompletes ==
    /\ \E t \in open :
         /\ open' = open \ {t}
         /\ \/ Write(<<"completed", t>>) /\ ended' = ended \cup {t}
            \/ Write(<<"broken", t>>) /\ UNCHANGED ended
    /\ UNCHANGED <<othersVars, process, children, writing, reader, msgCh, todo>>

\* The end of a turn without its id: it may be a turn of another thread, or an
\* older one.
AgentEndsUnnamed == \E kind \in {"completed", "broken"} : WriteUnasked(<<kind, 0>>, {"codex"})

\* A notification of no concern, an error that the agent will not retry, a call of a
\* tool that Run does not have, a question to the user.
AgentSays ==
    \/ \E kind \in {"note", "fatal"} : WriteUnasked(<<kind, 0>>, {"codex", "claude"})
    \/ \E kind \in {"tool", "input"} : WriteUnasked(<<kind, 0>>, {"codex"})

\* How a Codex process exits is not looked at.
AgentExits ==
    /\ process = "alive"
    /\ process' = "crashed" \/ (provider = "claude" /\ process' = "exited")
    /\ todo' = {}
    /\ UNCHANGED <<othersVars, children, writing, outputVars, open, ended>>

\* A Codex process whose children hold its output is, to Run, one that is silent.
AgentForks ==
    /\ provider = "claude"
    /\ process = "alive"
    /\ children' = TRUE
    /\ UNCHANGED <<othersVars, process, writing, outputVars, agentVars>>

\* Nothing in Run ends them: it kills the agent's process only.
ChildrenExit ==
    /\ children
    /\ children' = FALSE
    /\ UNCHANGED <<othersVars, process, writing, outputVars, agentVars>>
-----------------------------------------------------------------------------
(* The reader goroutine and the context.                                   *)

\* The output ends when every process that holds it is gone, or when Run closed it.
OutputEnded == pipe = <<>> /\ (pc = "done" \/ (process # "alive" /\ ~children))

ReaderSends ==
    /\ reader = "reading"
    /\ pipe # <<>> /\ Len(msgCh) < ChanSize
    /\ msgCh' = Append(msgCh, Head(pipe))
    /\ pipe' = Tail(pipe)
    /\ UNCHANGED <<othersVars, process, children, writing, reader, agentVars>>

\* Mutant of ReaderEnds: the context is not looked at.
ReaderEndsWithOutput ==
    /\ reader = "reading"
    /\ \/ OutputEnded /\ reader' = "ended"
       \/ pipe # <<>> /\ pc # "done" /\ reader' = "broken"
    /\ pipe' = <<>>
    /\ UNCHANGED <<othersVars, process, children, writing, msgCh, agentVars>>

\* It ends with the output, drops its line and ends when the context is done, and
\* breaks on a line that is too long.  What it has read when Run returns it still
\* has to hand over; here that is all that waits in the pipe.  Its end closes msgCh.
ReaderEnds ==
    /\ reader = "reading"
    /\ \/ OutputEnded /\ reader' = "ended"
       \/ pipe # <<>> /\ ctxDone /\ reader' = "ended"
       \/ pipe # <<>> /\ pc # "done" /\ reader' = "broken"
    /\ pipe' = <<>>
    /\ UNCHANGED <<othersVars, process, children, writing, msgCh, agentVars>>

\* The orchestrator cancels the session: it stalls, its issue moves, or a shutdown.
Cancel ==
    /\ ~ctxDone
    /\ pc # "done"
    /\ ctxDone' = TRUE
    /\ UNCHANGED <<runVars, process, children, writing, outputVars, deadline, completed,
                   agentVars, unnamed>>

\* exec.CommandContext kills the process when its context is done.
ContextKills ==
    /\ ctxDone \/ deadline
    /\ process = "alive"
    /\ process' = "crashed"
    /\ todo' = {}
    /\ UNCHANGED <<othersVars, children, writing, outputVars, open, ended>>
-----------------------------------------------------------------------------
(* Run.                                                                    *)

\* Mutant of Finish: nothing is killed.
FinishOnly(result) ==
    /\ pc' = "done"
    /\ outcome' = result
    /\ writing' = FALSE
    /\ UNCHANGED <<process, turn, todo, open>>

\* Run returns; its deferred calls kill the process and wait for it.
Finish(result) ==
    /\ pc' = "done"
    /\ outcome' = result
    /\ process' = IF process = "alive" THEN "crashed" ELSE process
    /\ todo' = {}
    /\ writing' = FALSE
    /\ UNCHANGED <<turn, open>>

\* sendRequest begins to write the request of this name.
Ask(name) ==
    /\ pc' = name
    /\ writing' = TRUE
    /\ UNCHANGED <<outcome, process, todo, open>>

\* Run looks at nothing else while it writes.
Waiting == pc \in DOMAIN Waits /\ ~writing
InTurn == pc = "in_turn" /\ ~writing

StartCodex ==
    /\ pc = "start" /\ provider = "codex"
    /\ \/ /\ pc' = "initialize"
          /\ process' = "alive"
          /\ reader' = "reading"
          /\ writing' = TRUE
          /\ UNCHANGED <<turn, outcome, todo, open>>
       \/ Finish("failed") /\ UNCHANGED reader
    /\ UNCHANGED <<provider, children, pipe, msgCh, limitVars, completed, ended, unnamed>>

\* The next step after a request that went well.  resolveConfiguredSkills asks for
\* the list of skills only if one is configured by name.
Proceed ==
    /\ UNCHANGED turn
    /\ \/ pc = "initialize" /\ (Ask("skills") \/ Ask("thread"))
       \/ pc = "skills" /\ Ask("thread")
       \/ pc = "thread" /\ Ask("turn_start")
       \/ pc = "turn_start" /\ pc' = "in_turn"
          /\ UNCHANGED <<outcome, process, writing, todo, open>>

\* A request that went wrong ends Run, except for the list of skills.
GiveUp(result) ==
    IF pc = "skills" THEN Ask("thread") /\ UNCHANGED turn ELSE Finish(result)

\* The write fails: nobody is left who could read it.  The error of an answer is
\* ignored.
WriteFails ==
    /\ writing
    /\ process # "alive"
    /\ \/ pc \in DOMAIN Waits /\ GiveUp("failed")
       \/ pc = "input" /\ Finish("failed")
       \/ /\ pc = "in_turn"
          /\ writing' = FALSE
          /\ UNCHANGED <<pc, turn, outcome, process, todo, open>>
    /\ UNCHANGED <<provider, children, outputVars, limitVars, completed, ended, unnamed>>

\* What sendRequest does with a line.  It compares ids only: a request of the
\* agent that happens to have the same id is taken for an answer without result,
\* which is good enough for initialize.  All other lines are reported and dropped.
RequestLine ==
    /\ Waiting
    /\ msgCh # <<>>
    /\ msgCh' = Tail(msgCh)
    /\ LET line == Head(msgCh) IN
       \/ line = <<"reply", Waits[pc]>> /\ Proceed
       \/ line = <<"refuse", Waits[pc]>> /\ GiveUp("failed")
       \/ /\ line[1] \in {"tool", "input"}
          /\ IF pc = "initialize" THEN Proceed ELSE GiveUp("failed")
       \/ /\ line \notin {"reply", "refuse"} \X {Waits[pc]}
          /\ UNCHANGED <<pc, turn, outcome, process, writing, todo, open>>
    /\ UNCHANGED <<provider, children, pipe, reader, limitVars, completed, ended, unnamed>>

\* read_timeout_ms.
RequestTimeout ==
    /\ Waiting
    /\ GiveUp("failed")
    /\ UNCHANGED <<provider, children, outputVars, limitVars, completed, ended, unnamed>>

\* Mutant of TurnLine: the end of any turn ends the wait.
TurnLineAnyTurn ==
    /\ InTurn
    /\ msgCh # <<>>
    /\ msgCh' = Tail(msgCh)
    /\ LET kind == Head(msgCh)[1] IN
       CASE kind = "completed" ->
              pc' = "decide" /\ UNCHANGED <<turn, outcome, process, writing, todo, open>>
         [] kind \in {"broken", "fatal", "input"} -> Finish("failed")
         [] OTHER -> UNCHANGED <<pc, turn, outcome, process, writing, todo, open>>
    /\ unnamed' = IF Head(msgCh) = <<"completed", 0>> THEN unnamed \cup {turn} ELSE unnamed
    /\ UNCHANGED <<provider, children, pipe, reader, limitVars, completed, ended>>

\* What waitForTurn does with a line.  The end of this turn ends the wait, and so
\* does an end that names no turn, whose thread is not looked at either; so does an
\* error.  A tool call and a question to the user are answered, the rest is reported.
TurnLine ==
    /\ InTurn
    /\ msgCh # <<>>
    /\ msgCh' = Tail(msgCh)
    /\ LET line == Head(msgCh)
           mine == line[2] \in {turn, 0}
       IN
       \/ /\ line[1] = "completed" /\ mine
          /\ pc' = "decide"
          /\ unnamed' = unnamed \cup {t \in {turn} : line[2] = 0}
          /\ UNCHANGED <<turn, outcome, process, writing, todo, open>>
       \/ /\ (line[1] = "broken" /\ mine) \/ line[1] = "fatal"
          /\ Finish("failed")
          /\ UNCHANGED unnamed
       \/ /\ line[1] \in {"tool", "input"}
          /\ pc' = IF line[1] = "tool" THEN pc ELSE "input"
          /\ writing' = TRUE
          /\ UNCHANGED <<turn, outcome, process, todo, open, unnamed>>
       \/ /\ line[1] \notin {"fatal", "tool", "input"}
          /\ line[1] \in {"completed", "broken"} => ~mine
          /\ UNCHANGED <<pc, turn, outcome, process, writing, todo, open, unnamed>>
    /\ UNCHANGED <<provider, children, pipe, reader, limitVars, completed, ended>>

\* A question to the user ends Run once it is answered.
InputRejected ==
    /\ pc = "input" /\ ~writing
    /\ Finish("failed")
    /\ UNCHANGED <<provider, children, outputVars, limitVars, completed, ended, unnamed>>

\* Mutant of TurnTimeout: a turn out of time counts as over.
TurnTimeoutGoesOn ==
    /\ InTurn
    /\ pc' = "decide"
    /\ UNCHANGED <<turn, outcome, process, writing, todo, open>>
    /\ UNCHANGED <<provider, children, outputVars, limitVars, completed, ended, unnamed>>

\* turn_timeout_ms.
TurnTimeout ==
    /\ InTurn
    /\ Finish("failed")
    /\ UNCHANGED <<provider, children, outputVars, limitVars, completed, ended, unnamed>>

\* msgCh is closed and empty, or the reader reported an error.
OutputCloses ==
    /\ Waiting \/ InTurn
    /\ reader = "broken" \/ (reader = "ended" /\ msgCh = <<>>)
    /\ GiveUp("failed")
    /\ UNCHANGED <<provider, children, outputVars, limitVars, completed, ended, unnamed>>

\* ctx.Done() in either wait.
CancelSeen ==
    /\ Waiting \/ InTurn
    /\ ctxDone
    /\ GiveUp("cancelled")
    /\ UNCHANGED <<provider, children, outputVars, limitVars, completed, ended, unnamed>>

\* Mutant of Decide: the limit is compared one turn late.
DecideOffByOne ==
    /\ pc = "decide"
    /\ IF turn > MaxTurns
       THEN Finish("max_turns")
       ELSE \/ Finish("success")
            \/ Finish("failed")
            \/ /\ turn' = turn + 1
               /\ IF provider = "codex"
                  THEN Ask("turn_start")
                  ELSE pc' = "start" /\ UNCHANGED <<outcome, process, writing, todo, open>>
    /\ UNCHANGED <<provider, children, outputVars, limitVars, completed, ended, unnamed>>

\* After a turn: max_turns, or the answer of shouldContinue, which may fail.
Decide ==
    /\ pc = "decide"
    /\ IF turn = MaxTurns
       THEN Finish("max_turns")
       ELSE \/ Finish("success")
            \/ Finish("failed")
            \/ /\ turn' = turn + 1
               /\ IF provider = "codex"
                  THEN Ask("turn_start")
                  ELSE pc' = "start" /\ UNCHANGED <<outcome, process, writing, todo, open>>
    /\ UNCHANGED <<provider, children, outputVars, limitVars, completed, ended, unnamed>>
-----------------------------------------------------------------------------
(* runClaude and runClaudeTurn.                                            *)

\* The only request is written at once: should that block, the turn's time limit
\* kills the process as if it had read it and stayed silent.
StartClaude ==
    /\ pc = "start" /\ provider = "claude"
    /\ \/ /\ pc' = "claude_read"
          /\ process' = "alive"
          /\ children' = FALSE
          /\ pipe' = <<>>
          /\ deadline' = FALSE /\ completed' = FALSE
          /\ open' = {turn}
          /\ UNCHANGED <<turn, outcome, writing, todo>>
       \/ Finish("failed") /\ UNCHANGED <<children, pipe, deadline, completed>>
    /\ UNCHANGED <<provider, reader, msgCh, ctxDone, ended, unnamed>>

\* The turn goes on after its completion was reported, until the output ends.
ClaudeLine ==
    /\ pc = "claude_read"
    /\ pipe # <<>>
    /\ pipe' = Tail(pipe)
    /\ LET kind == Head(pipe)[1] IN
       \/ /\ kind \notin {"broken", "fatal"}
          /\ completed' = (completed \/ kind = "completed")
          /\ UNCHANGED <<pc, turn, outcome, process, writing, todo, open>>
       \/ kind \in {"broken", "fatal"} /\ Finish("failed") /\ UNCHANGED completed
       \/ Finish("failed") /\ UNCHANGED completed   \* a line that is too long
    /\ UNCHANGED <<provider, children, reader, msgCh, limitVars, ended, unnamed>>

ClaudeOutputEnds ==
    /\ pc = "claude_read"
    /\ OutputEnded
    /\ pc' = "claude_exit"
    /\ UNCHANGED <<provider, turn, outcome, process, children, writing, outputVars,
                   limitVars, completed, agentVars, unnamed>>

\* turn_timeout_ms, the time limit of the turn's own context.
DeadlinePasses ==
    /\ pc \in {"claude_read", "claude_exit"}
    /\ ~ctxDone /\ ~deadline
    /\ deadline' = TRUE
    /\ UNCHANGED <<runVars, process, children, writing, outputVars, ctxDone, completed,
                   agentVars, unnamed>>

\* cmd.Wait: a turn succeeds with a completion and a clean exit.
ClaudeExit ==
    /\ pc = "claude_exit"
    /\ IF process = "exited" /\ completed
       THEN pc' = "decide" /\ UNCHANGED <<turn, outcome, process, writing, todo, open>>
       ELSE Finish(IF process = "crashed" /\ ctxDone /\ ~deadline THEN "cancelled" ELSE "failed")
    /\ UNCHANGED <<provider, children, outputVars, limitVars, completed, ended, unnamed>>
-----------------------------------------------------------------------------
Agent ==
    \/ AgentReads
    \/ \E r \in Requests : AgentAnswers(r)
    \/ AgentCompletes
    \/ AgentEndsUnnamed
    \/ AgentSays
    \/ AgentExits
    \/ AgentForks
    \/ ChildrenExit

Reader == ReaderSends \/ ReaderEnds

RunStep ==
    \/ StartCodex \/ WriteFails \/ RequestLine \/ RequestTimeout
    \/ TurnLine \/ InputRejected \/ TurnTimeout
    \/ OutputCloses \/ CancelSeen \/ Decide
    \/ StartClaude \/ ClaudeLine \/ ClaudeOutputEnds \/ ClaudeExit

Next == Agent \/ Reader \/ RunStep \/ Cancel \/ ContextKills \/ DeadlinePasses

Spec == Init /\ [][Next]_vars

\* Run and its reader go on, time limits are reached, and a process that is killed
\* dies.  A turn's time limit is also seen by a Run that answers one call after the
\* other, since select takes any case that is ready.  An agent need not read, and
\* what it started need not end.
Fairness ==
    /\ WF_vars(RunStep) /\ WF_vars(Reader)
    /\ WF_vars(RequestTimeout) /\ SF_vars(TurnTimeout) /\ WF_vars(DeadlinePasses)
    /\ WF_vars(ContextKills)

FairSpec == Spec /\ Fairness
-----------------------------------------------------------------------------
(* Run's promises.                                                         *)

\* Run reports a finished turn only if the agent completed that very turn, not
\* for a clean exit, a lost answer or the end of another turn that a stale line
\* tells of.  The one exception is the end of a turn that comes without its id:
\* Run takes it for the end of the current turn, whatever turn and thread it is of.
SuccessEarned ==
    pc = "decide" \/ outcome \in {"success", "max_turns"} => turn \in ended \cup unnamed

\* The agent is never asked for a turn while it is still busy with another, unless
\* Run took that one for over by the end of a turn that came without an id.
OneTurnAtATime == open \subseteq {turn} \cup unnamed

\* No agent process is left when Run has returned.
NoOrphan == pc = "done" => process # "alive"

\* The reader goroutine ends when Run has returned, if the session's context is
\* cancelled or what it has read fits into msgCh, from which nobody takes any more.
\* Otherwise it may stay for ever: handleWorkerResult drops the cancel function of
\* a session that ended by itself without calling it.
ReaderLeavesIfRestFits ==
    (pc = "done" /\ (ctxDone \/ Len(pipe) + Len(msgCh) <= ChanSize)) ~> (reader # "reading")

\* The session as Scheduler and Completion see it: turns one after the other, and
\* one result in the end.
Working ==
    \/ pc \in {"turn_start", "in_turn", "input", "claude_read", "claude_exit"}
    \/ pc = "start" /\ turn > 1

Phase ==
    IF pc = "done" THEN "ended"
    ELSE IF pc = "decide" THEN "over"
    ELSE IF Working THEN "working" ELSE "idle"

Sess == INSTANCE Session WITH phase <- Phase, result <- outcome

\* What Run waits for without a limit: a write that the agent does not read (the
\* death of its process ends it, but for processes that it left behind and that
\* hold its input), and the output of a Claude turn, which is read to its end,
\* while processes that the agent left behind hold it.
Held ==
    \/ writing
    \/ pc = "claude_read" /\ process # "alive" /\ children

\* Run implements the session, and returns unless it is held for ever.
SessionPromised == Sess!Spec /\ (<>(pc = "done") \/ <>[]Held)
=============================================================================
