------------------------------ MODULE AgentLoop ------------------------------
(***************************************************************************)
(* The bounded tool-calling loop that every specialist agent runs          *)
(* (agent/loop.go) under its chain of guards (guard/guard.go: budget,      *)
(* repeat-call, progress, scope, in that order), several loops at once     *)
(* over the one blackboard of the run.                                     *)
(*                                                                         *)
(* A tool call is abstracted to its fingerprint (tool and canonical        *)
(* arguments); a completion to the number of calls it asks for and its     *)
(* token usage.  The calls of one response are chosen one at a time: the   *)
(* model may ask for any of them in any order, so choosing late adds no    *)
(* behaviour.  Messages, digests and spilling are left out here.           *)
(***************************************************************************)
EXTENDS Integers, FiniteSets, Sequences

CONSTANTS
  Agents,         \* the loops that share the blackboard
  Calls,          \* fingerprints of tool calls a model may ask for
  Tools,          \* tool names
  ToolOf,         \* the tool a call names
  Scope,          \* the tools in an agent's registry
  EmitTools,      \* the tools of Scope that write the agent's own entry
  MaxIterations,  \* guard.Budget; 0 means no limit, here and in the next two
  MaxToolCalls,
  MaxTokens,
  TurnTokens,     \* the token usages one completion may report
  MaxTurnCalls,   \* bound: tool calls in one response
  MaxOtherWrites, \* bound: blackboard writes by the rest of the phase
  CacheAt,        \* RepeatCallGuard: serve the cached result from here on,
  AdviseAt,       \*   advise a change of approach from here on,
  TerminateAt,    \*   and stop the agent here; 0 switches a step off
  BarrenLimit,    \* ProgressGuard.barrenIterationLimit
  NoCall          \* not a call

\* What the code's constructors and callers give: every agent uses
\* DefaultRepeatCallGuard(), i.e. 2, 3 and 4, and NewProgressGuard(3).
ASSUME LoopAssumption ==
  /\ ToolOf \in [Calls -> Tools]
  /\ EmitTools \subseteq Scope
  /\ MaxIterations \in Nat /\ MaxToolCalls \in Nat /\ MaxTokens \in Nat
  /\ TurnTokens \subseteq Nat
  /\ MaxTurnCalls \in Nat /\ MaxOtherWrites \in Nat
  /\ CacheAt \in 1..2 /\ AdviseAt \in Nat /\ TerminateAt \in Nat
  /\ BarrenLimit \in Nat
  /\ NoCall \notin Calls

VARIABLES
  \* Loop.Run and guard.State, one per agent
  pc,           \* where the agent's goroutine is
  iterations,   \* guard.State.IterationCount
  tokens,       \* guard.State.TokensUsed
  toolCalls,    \* guard.State.ToolCallCount
  callsLeft,    \* calls of the current response not yet handled
  inFlight,     \* the call Registry.Invoke is running, or NoCall
  outcome,      \* how the loop ended: "running" until finish
  \* RepeatCallGuard and ProgressGuard, one per agent
  counts,       \* countsByFingerprint
  cached,       \* the domain of cachedByFingerprint
  lastSeen,     \* lastSeenRevision, NoRevision before the first iteration
  barren,       \* consecutiveBarrenCount
  \* the shared blackboard
  degraded,     \* the domain of degradedTools
  revision,     \* the mutation counter
  otherWrites,  \* writes by the rest of the phase so far
  ctxDone,      \* the phase's context is cancelled or past its deadline
  late,         \* whose loop has run for Budget.MaxWallClock, if there is one
  \* history, read by the properties only
  invoked,      \* how often each call really reached its tool
  seen,         \* the revision at each iteration start of each agent
  timedOut      \* whose last request ran into the HTTP client's timeout

NoRevision == -1

loopVars  == <<pc, iterations, tokens, toolCalls, callsLeft, inFlight, outcome>>
repeatVars == <<counts, cached>>
progressVars == <<lastSeen, barren>>
boardVars == <<degraded, revision>>
phaseVars == <<otherWrites, ctxDone, late>>
vars == <<loopVars, repeatVars, progressVars, boardVars, phaseVars,
          invoked, seen, timedOut>>

Init ==
  /\ pc = [a \in Agents |-> "top"]
  /\ iterations = [a \in Agents |-> 0]
  /\ tokens = [a \in Agents |-> 0]
  /\ toolCalls = [a \in Agents |-> 0]
  /\ callsLeft = [a \in Agents |-> 0]
  /\ inFlight = [a \in Agents |-> NoCall]
  /\ outcome = [a \in Agents |-> "running"]
  /\ counts = [a \in Agents |-> [c \in Calls |-> 0]]
  /\ cached = [a \in Agents |-> {}]
  /\ lastSeen = [a \in Agents |-> NoRevision]
  /\ barren = [a \in Agents |-> 0]
  /\ degraded = {}
  /\ revision = 0
  /\ otherWrites = 0
  /\ ctxDone = FALSE
  /\ late = {}
  /\ timedOut = {}
  /\ invoked = [a \in Agents |-> [c \in Calls |-> 0]]
  /\ seen = [a \in Agents |-> <<>>]

\* Loop.finish: the reason is kept, the partial results stay on the blackboard.
Finish(a, reason) ==
  /\ pc' = [pc EXCEPT ![a] = "stopped"]
  /\ outcome' = [outcome EXCEPT ![a] = reason]

-----------------------------------------------------------------------------
(* The top of the loop: Chain.BeforeIteration, then the context. *)

\* A limit of 0 is no limit.
Over(used, limit) == limit > 0 /\ used >= limit

OverIterations(a) == Over(iterations[a], MaxIterations)
OverTokens(a) == Over(tokens[a], MaxTokens)

\* Mutant of OverToolCalls: one call too many.
OverToolCallsLate(a) == MaxToolCalls > 0 /\ toolCalls[a] > MaxToolCalls

OverToolCalls(a) == Over(toolCalls[a], MaxToolCalls)

\* BudgetGuard.BeforeIteration.  MaxWallClock is looked at after the other two
\* limits.  The code reports it as budget_exhausted too and tells it apart by
\* the detail of the stop.
StopOverBudget(a) ==
  /\ pc[a] = "top"
  /\ \/ OverIterations(a) /\ Finish(a, "iteration_cap")
     \/ ~OverIterations(a) /\ OverTokens(a) /\ Finish(a, "budget_exhausted")
     \/ ~OverIterations(a) /\ ~OverTokens(a) /\ a \in late
        /\ Finish(a, "wall_clock")
  /\ UNCHANGED <<iterations, tokens, toolCalls, callsLeft, inFlight,
                 repeatVars, progressVars, boardVars, phaseVars,
                 invoked, seen, timedOut>>

\* Mutant of ProgressCount: barren iterations need not be consecutive.
ProgressCountKept(a) ==
  IF revision = lastSeen[a] THEN barren[a] + 1 ELSE barren[a]

\* ProgressGuard.BeforeIteration, on the revision read at the top of the loop.
\* The first iteration only records the revision.
ProgressCount(a) ==
  IF revision = lastSeen[a] THEN barren[a] + 1 ELSE 0

\* Mutant of ObserveRevision: only the first revision is remembered.
ObserveRevisionOnce(a) ==
  /\ barren' = [barren EXCEPT ![a] = ProgressCount(a)]
  /\ lastSeen' = [lastSeen EXCEPT ![a] = IF @ = NoRevision THEN revision ELSE @]
  /\ seen' = [seen EXCEPT ![a] = Append(@, revision)]

ObserveRevision(a) ==
  /\ barren' = [barren EXCEPT ![a] = ProgressCount(a)]
  /\ lastSeen' = [lastSeen EXCEPT ![a] = revision]
  /\ seen' = [seen EXCEPT ![a] = Append(@, revision)]

NoProgress(a) == BarrenLimit > 0 /\ ProgressCount(a) >= BarrenLimit

StartIteration(a) ==
  /\ pc[a] = "top"
  /\ ~OverIterations(a) /\ ~OverTokens(a) /\ a \notin late
  /\ ObserveRevision(a)
  /\ \/ NoProgress(a) /\ Finish(a, "no_progress")
     \/ ~NoProgress(a) /\ ctxDone /\ Finish(a, "context")
     \/ /\ ~NoProgress(a) /\ ~ctxDone
        /\ pc' = [pc EXCEPT ![a] = "completing"]
        /\ UNCHANGED outcome
  /\ UNCHANGED <<iterations, tokens, toolCalls, callsLeft, inFlight,
                 repeatVars, boardVars, phaseVars, invoked, timedOut>>

-----------------------------------------------------------------------------
(* Provider.Complete. *)

\* A response with n tool calls.  No call ends the loop on its own terms.
Complete(a, n, usage) ==
  /\ pc[a] = "completing"
  /\ iterations' = [iterations EXCEPT ![a] = @ + 1]
  /\ tokens' = [tokens EXCEPT ![a] = @ + usage]
  /\ callsLeft' = [callsLeft EXCEPT ![a] = n]
  /\ \/ n = 0 /\ Finish(a, "completed")
     \/ n > 0 /\ pc' = [pc EXCEPT ![a] = "turn"] /\ UNCHANGED outcome
  /\ UNCHANGED <<toolCalls, inFlight, repeatVars, progressVars, boardVars,
                 phaseVars, invoked, seen, timedOut>>

\* The completion fails: a context error ends the loop in good order, any
\* other one is returned to the caller as an error.  An HTTP client's own
\* timeout matches context.DeadlineExceeded too, and is reported like the end
\* of a context that is still alive.
CompleteFails(a) ==
  /\ pc[a] = "completing"
  /\ \/ Finish(a, "error") /\ UNCHANGED timedOut
     \/ ctxDone /\ Finish(a, "context") /\ UNCHANGED timedOut
     \/ Finish(a, "context") /\ timedOut' = timedOut \cup {a}
  /\ UNCHANGED <<iterations, tokens, toolCalls, callsLeft, inFlight,
                 repeatVars, progressVars, boardVars, phaseVars,
                 invoked, seen>>

-----------------------------------------------------------------------------
(* One tool call: Chain.BeforeToolCall, invokeOne, Chain.AfterToolCall. *)

StopOverToolCalls(a) ==
  /\ pc[a] = "turn"
  /\ OverToolCalls(a)
  /\ Finish(a, "budget_exhausted")
  /\ UNCHANGED <<iterations, tokens, toolCalls, callsLeft, inFlight,
                 repeatVars, progressVars, boardVars, phaseVars,
                 invoked, seen, timedOut>>

\* The count RepeatCallGuard.BeforeToolCall gives this occurrence.
Occurrence(a, c) == counts[a][c] + 1
Count(a, c) == counts' = [counts EXCEPT ![a][c] = Occurrence(a, c)]

Exhausted(a, c) == TerminateAt > 0 /\ Occurrence(a, c) >= TerminateAt
InScope(c) == ToolOf[c] \in Scope

\* RepeatCallGuard stops the agent, or counts the call and leaves it to
\* ScopeGuard to refuse.
RefuseCall(a, c) ==
  /\ pc[a] = "turn"
  /\ ~OverToolCalls(a)
  /\ Count(a, c)
  /\ \/ Exhausted(a, c) /\ Finish(a, "repeated_tool_calls")
     \/ ~Exhausted(a, c) /\ ~InScope(c) /\ Finish(a, "out_of_scope")
  /\ UNCHANGED <<iterations, tokens, toolCalls, callsLeft, inFlight, cached,
                 progressVars, boardVars, phaseVars, invoked, seen, timedOut>>

\* Mutant of Advised: advice comes one occurrence late.
AdvisedLate(a, c) == AdviseAt > 0 /\ Occurrence(a, c) > AdviseAt

\* RepeatCallGuard.Disposition, after this occurrence has been counted.
Advised(a, c) == AdviseAt > 0 /\ Occurrence(a, c) >= AdviseAt

\* Mutant of Served: the cache is consulted one occurrence late.
ServedLate(a, c) ==
  ~Advised(a, c) /\ CacheAt > 0 /\ Occurrence(a, c) > CacheAt
  /\ c \in cached[a]

Served(a, c) ==
  ~Advised(a, c) /\ CacheAt > 0 /\ Occurrence(a, c) >= CacheAt
  /\ c \in cached[a]

\* The call has its result: count it, go on with the rest of the response.
Handled(a) ==
  /\ toolCalls' = [toolCalls EXCEPT ![a] = @ + 1]
  /\ callsLeft' = [callsLeft EXCEPT ![a] = @ - 1]
  /\ pc' = [pc EXCEPT ![a] = IF callsLeft[a] = 1 THEN "top" ELSE "turn"]

Admitted(a, c) ==
  /\ pc[a] = "turn"
  /\ ~OverToolCalls(a) /\ ~Exhausted(a, c) /\ InScope(c)
  /\ Count(a, c)

\* Answered without the tool: advice is an error result and is not cached;
\* AfterToolCall stores a served result again under the same fingerprint.
AnswerRepeat(a, c) ==
  /\ Admitted(a, c)
  /\ Advised(a, c) \/ Served(a, c)
  /\ Handled(a)
  /\ UNCHANGED <<iterations, tokens, inFlight, outcome, cached, progressVars,
                 boardVars, phaseVars, invoked, seen, timedOut>>

\* Registry.Invoke begins; other agents run until it returns.
StartInvoke(a, c) ==
  /\ Admitted(a, c)
  /\ ~Advised(a, c) /\ ~Served(a, c)
  /\ inFlight' = [inFlight EXCEPT ![a] = c]
  /\ invoked' = [invoked EXCEPT ![a][c] = @ + 1]
  /\ pc' = [pc EXCEPT ![a] = "invoking"]
  /\ UNCHANGED <<iterations, tokens, toolCalls, callsLeft, outcome, cached,
                 progressVars, boardVars, phaseVars, seen, timedOut>>

\* The tool succeeds.  An emit tool writes the agent's entry, be it the same.
InvokeSucceeds(a) ==
  LET c == inFlight[a] IN
  /\ pc[a] = "invoking"
  /\ revision' = IF ToolOf[c] \in EmitTools THEN revision + 1 ELSE revision
  /\ cached' = [cached EXCEPT ![a] = @ \cup {c}]
  /\ inFlight' = [inFlight EXCEPT ![a] = NoCall]
  /\ Handled(a)
  /\ UNCHANGED <<iterations, tokens, outcome, counts, progressVars, degraded,
                 phaseVars, invoked, seen, timedOut>>

\* The tool fails.  A degradable failure (a network tool's open breaker) is
\* noted on the blackboard; every failure becomes an error result.
InvokeFails(a) ==
  LET c == inFlight[a] IN
  /\ pc[a] = "invoking"
  /\ \/ UNCHANGED <<degraded, revision>>
     \/ /\ ToolOf[c] \notin EmitTools
        /\ degraded' = degraded \cup {ToolOf[c]}
        /\ revision' = revision + 1
  /\ inFlight' = [inFlight EXCEPT ![a] = NoCall]
  /\ Handled(a)
  /\ UNCHANGED <<iterations, tokens, outcome, repeatVars, progressVars,
                 phaseVars, invoked, seen, timedOut>>

-----------------------------------------------------------------------------
(* The rest of the phase. *)

\* Another worker notes a gap or salvages its component.
OthersWrite ==
  /\ otherWrites < MaxOtherWrites
  /\ otherWrites' = otherWrites + 1
  /\ revision' = revision + 1
  /\ UNCHANGED <<loopVars, repeatVars, progressVars, degraded,
                 ctxDone, late, invoked, seen, timedOut>>

\* The phase's or the run's deadline passes.
ContextEnds ==
  /\ ~ctxDone
  /\ ctxDone' = TRUE
  /\ UNCHANGED <<loopVars, repeatVars, progressVars, boardVars, otherWrites,
                 late, invoked, seen, timedOut>>

\* The time since State.StartedAt reaches Budget.MaxWallClock; never, if that
\* is 0.
WallClockPasses(a) ==
  /\ a \notin late
  /\ late' = late \cup {a}
  /\ UNCHANGED <<loopVars, repeatVars, progressVars, boardVars, otherWrites,
                 ctxDone, invoked, seen, timedOut>>

Terminated ==
  /\ \A a \in Agents : pc[a] = "stopped"
  /\ UNCHANGED vars

Step(a) ==
  \/ StopOverBudget(a)
  \/ StartIteration(a)
  \/ \E n \in 0..MaxTurnCalls, usage \in TurnTokens : Complete(a, n, usage)
  \/ CompleteFails(a)
  \/ StopOverToolCalls(a)
  \/ \E c \in Calls :
       RefuseCall(a, c) \/ AnswerRepeat(a, c) \/ StartInvoke(a, c)
  \/ InvokeSucceeds(a)
  \/ InvokeFails(a)

Next ==
  \/ \E a \in Agents : Step(a) \/ WallClockPasses(a)
  \/ OthersWrite
  \/ ContextEnds
  \/ Terminated

Spec == Init /\ [][Next]_vars

-----------------------------------------------------------------------------
(* Properties. *)

Working(a) == pc[a] \in {"completing", "turn", "invoking"}

Outcomes == {"running", "completed", "error", "context", "iteration_cap",
             "budget_exhausted", "wall_clock", "no_progress",
             "repeated_tool_calls", "out_of_scope"}

LoopTypes ==
  /\ pc \in [Agents -> {"top", "completing", "turn", "invoking", "stopped"}]
  /\ iterations \in [Agents -> Nat]
  /\ tokens \in [Agents -> Nat]
  /\ toolCalls \in [Agents -> Nat]
  /\ callsLeft \in [Agents -> Nat]
  /\ inFlight \in [Agents -> Calls \cup {NoCall}]
  /\ outcome \in [Agents -> Outcomes]

RepeatTypes ==
  /\ counts \in [Agents -> [Calls -> Nat]]
  /\ invoked \in [Agents -> [Calls -> Nat]]
  /\ cached \in [Agents -> SUBSET Calls]

ProgressTypes ==
  /\ lastSeen \in [Agents -> Nat \cup {NoRevision}]
  /\ barren \in [Agents -> Nat]
  /\ seen \in [Agents -> Seq(Nat)]

BoardTypes ==
  /\ degraded \subseteq Tools
  /\ revision \in Nat
  /\ otherWrites \in Nat
  /\ ctxDone \in BOOLEAN
  /\ late \subseteq Agents /\ timedOut \subseteq Agents

\* Types of the loop's, the guards' and the blackboard's state.
TypeOK == LoopTypes /\ RepeatTypes /\ ProgressTypes /\ BoardTypes

\* No agent overruns its budget: the iteration and tool-call limits are exact
\* however many calls one response holds, and the token limit is overrun by
\* less than the one completion that crosses it (BudgetGuard).
WithinBudget ==
  \A a \in Agents :
    /\ MaxIterations > 0 => iterations[a] <= MaxIterations
    /\ MaxToolCalls > 0 => toolCalls[a] <= MaxToolCalls
    /\ MaxTokens > 0 => \/ tokens[a] < MaxTokens
                        \/ \E u \in TurnTokens : tokens[a] < MaxTokens + u

\* Identical calls reach a tool fewer times than the advice threshold, and an
\* agent that goes on asking is stopped at the terminate threshold: failing
\* calls, refused ones and served ones all count (RepeatCallGuard).
RepeatsContained ==
  \A a \in Agents, c \in Calls :
    /\ AdviseAt > 0 => invoked[a][c] < AdviseAt
    /\ TerminateAt > 0 /\ counts[a][c] >= TerminateAt => pc[a] = "stopped"

\* A call that once succeeded never reaches its tool again, whatever the agent
\* and the other agents do in between (the cache of RepeatCallGuard).
SucceededCallNotRedone ==
  [][\A a \in Agents : \A c \in cached[a] : invoked'[a][c] = invoked[a][c]]_vars

\* The last BarrenLimit + 1 iteration starts of agent a saw one revision:
\* BarrenLimit whole iterations passed without a write by anybody.
BarrenTail(a) ==
  LET n == Len(seen[a]) IN
  /\ BarrenLimit > 0 /\ n > BarrenLimit
  /\ \A i \in (n - BarrenLimit)..n : seen[a][i] = seen[a][n]

\* No completion is bought after BarrenLimit iterations that left the
\* blackboard's revision alone (ProgressGuard).
NoBarrenSpin == \A a \in Agents : Working(a) => ~BarrenTail(a)

\* The reason agent a stopped for is the case.  The context's end is reported,
\* as budget_exhausted by the guard "context", for a request that timed out
\* as well, be the context and the budget as they may.
ReasonHolds(a) ==
  /\ outcome[a] = "iteration_cap" => iterations[a] = MaxIterations
  /\ outcome[a] = "budget_exhausted" => OverTokens(a) \/ OverToolCalls(a)
  /\ outcome[a] = "wall_clock" => a \in late
  /\ outcome[a] = "context" => ctxDone \/ a \in timedOut
  /\ outcome[a] = "repeated_tool_calls" =>
       \E c \in Calls : TerminateAt > 0 /\ counts[a][c] = TerminateAt
  /\ outcome[a] = "out_of_scope" =>
       \E c \in Calls : ~InScope(c) /\ counts[a][c] > 0
  /\ outcome[a] = "no_progress" => BarrenTail(a)

\* A loop that is cut short was cut short for the reason it reports, which the
\* caller writes into the run's list of gaps: each guard's reason is the case
\* when the loop has stopped, and what is reported as the end of the context is
\* that or, the one case in which the report misleads, the timeout of a single
\* request (Loop.finish).
StopIsEarned == \A a \in Agents : ReasonHolds(a)
=============================================================================
