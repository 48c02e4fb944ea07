# testplan-agent: a verification project

`testplan-agent` reads a repository, lets language-model agents analyse it and writes
a reviewed test plan.  The model is unreliable, the network is unreliable, and the
work is spread over goroutines that share one blackboard. The program's own logic is
what keeps that orderly: bounded loops, guards, worker pools, a phase graph, retries,
rate limits, gaps that say what is missing.  This directory models that logic in TLA+,
checks it with TLC and proves the main safety properties with TLAPS.

Paths below are relative to `src/internal/`, and to `src/` if they begin with `cmd/`.

## 1. The system

### Components

| component | state it keeps | operations | where | module |
|---|---|---|---|---|
| orchestrator | phases in declaration order, the report of the run, checkpoint files | `AddPhase`, `Run` (sort, then run each phase), `writeCheckpoint` | `orchestrator` | `Orchestrator` |
| pipeline | none; declares survey, analyse, risk, author, validate, approval | `Build` | `pipeline` | `Pipeline` |
| blackboard | repository map, component models, risk register, scenarios, findings, gaps, degraded tools, a revision counter | one locked method each; `Checkpoint`, `RestoreBlackboard` | `memory/blackboard.go` | in the modules of its writers |
| working set, spill store | the messages of one loop, large payloads by handle | `Append` (compacts), `Messages`, `Put`, `Get` | `memory/working.go` | `Conversation` |
| agent loop | iteration, tool-call and token counts, calls in flight | `Run`, `invokeOne`, `finish` | `agent/loop.go` | `AgentLoop`, `Conversation` |
| guards | repeat counts and cache, last revision and barren count | `BeforeIteration`, `BeforeToolCall`, `AfterToolCall`, `Disposition` | `guard` | `AgentLoop` |
| analyst | a work queue, workers, failure reasons | `Analyse`, `analyseOne` | `agent/analyst.go` | `FanOut`, `AnalystPhase` |
| author, critic, revision cycle | a work queue, scenario counters, the previous blocking count | `Write`, `Revise`, `Review`, `Run` | `agent/author.go` | `AuthorCycle` |
| risk scorer | none | `Score` | `agent/risk.go` | `RiskRegister` |
| surveyor | none | `Survey` | `agent/surveyor.go` | `SourceTree`, `Pipeline` |
| emit tools | scenario counter of one risk | `Invoke` | `tool/emit` | `AuthorCycle`, `AnalystPhase` |
| tool registry and policy | circuit breaker per guarded tool | `Invoke` (timeout, retry, breaker), `Schemas`, `DegradedTools`, `Fallback` | `tool` | `ToolPolicy` |
| repository source, read and fetch tools | none | `Tree`, `repo_read_file`, `context_fetch` | `tool/repo`, `tool/context` | `SourceTree`, `Conversation` |
| OpenAI-compatible provider | end of the shared rate-limit pause | `Complete` | `llm/openaicompat` | `RateLimit`, `Conversation` |
| Anthropic provider | none shared | `Complete` | `llm/anthropic` | `Conversation` (wire format) |
| MCP client, GitHub source | request ids, one pair of streams, contents fetched | `call`, `CallTool`, `ReadFile`, `Tree` | `mcpx/client.go`, `github.go` | `McpClient`, `SourceTree` |
| server resolution | tool names of the server | `Discover`, `ResolveToolNames` | `mcpx/resolve.go` | `SourceTree` |
| MCP server, task store | tasks by id | `Serve`, `Start`, `Complete`, `Fail`, `SetPhase`, `Get` | `mcpx/server.go`, `cmd/testplan-mcp` | `TaskServer` |
| validation | none | `Validate` | `approval` | `Pipeline` |
| command line, rendering, Go parser, scripted provider | report files | `writeReports`, `PlanMarkdown` | `cmd/testplan`, `render`, `tool/code`, `llm/scripted` | section 8 |

### How they interact

The command line (or the MCP server, in a goroutine of its own) builds the pipeline
and calls `Orchestrator.Run`.  The orchestrator calls each phase with a context that
ends at the phase's deadline.  The analyse and author phases start workers; each
worker takes a file or a risk from an unbuffered channel and runs one `Loop` with its
own registry and its own guards.  A loop calls the provider, whose rate-limit pause is
shared by all workers, and the tools, which write to the shared blackboard under its
lock or read files through the one MCP client. Results do not flow back through return
values: the phase looks at the blackboard to learn what its workers achieved, and the
progress guard looks at the blackboard's revision.  What could not be done becomes a
gap on the blackboard, and the renderer prints the gaps.

### What is hard, and what makes each part correct

- **Agent loop.** A model may ask for anything in any order, several calls at once.
  Correct: no limit is exceeded in any interleaving; a repeated call is served,
  advised against and finally fatal; a stuck agent is stopped, a working one is not;
  what a guard reports as the reason of a stop is the case.
- **Conversation.** History is compacted again and again, results are spilled, and
  files are cut at four different places.  Correct: every request pairs calls with
  their results, except that the first results in view after a compaction may be those
  of summarised calls (section 5); no turn goes unaccounted for; and a model that
  follows the notes sees all of a file.
- **Worker pools.** The dispatcher, the workers and the deadline race.  Correct: every
  job runs at most once, none is lost but by cancellation, the phase answers only
  after the last worker, and it does answer.
- **One file.** The parser, the agent and the salvage branch write the same entry.
  Correct: each file taken ends with a component or a gap, and a salvaged component
  says so.
- **Orchestrator and pipeline.** Any graph, any declaration order, failures of
  optional and required phases, failing checkpoint writes.  Correct: exactly the
  acyclic graphs run, in an order that follows from the pipeline, a phase runs only
  after the phases it needs have succeeded, each checkpoint holds the work so far, the
  run ends, and what is rendered at the end says what is missing.
- **Listing.** Three ways to learn the files, each with its own way to fall short.
  Correct: a listing is whole, or refused, or its holes were reported; two kinds of
  hole that nothing reports are in section 5.
- **Bands.** Levels are cut by rank with ties promoted from neighbour to neighbour.
  Correct: equal scores have equal levels, however long the tie.
- **Rate limit.** Several callers, one pause, own attempts and back-off. Correct: a
  wait that binds a caller is waited out, a longer pause is never shortened, each call
  makes a bounded number of attempts and returns.
- **Author cycle.**  Workers emit scenarios under identifiers they number themselves,
  a critic reports findings, and flagged risks are written again. Correct: identifiers
  stay unique through refused calls and revisions; no risk that was taken is lost; a
  revision touches only what was flagged; the rounds converge, and what is left open
  is said.
- **Tool policy.**  Retries inside a call, a breaker across calls, a probe that any
  look at the tool may use up.  Correct: a tool that is not idempotent runs once; the
  breaker counts consecutive failures; a broken tool is left alone for the cooldown
  and a recovered one comes back.
- **MCP client.** Calls of several workers share two streams without a lock. Correct:
  a content is of the file asked for, unless that very read met another; a call that
  is alone gets past what others left behind; the end of the server frees everybody.
  What is not correct is in section 5.
- **MCP server.** One loop answers while runs go on beside it.  Correct: what polls
  tell never goes back, no run holds a line up, a run that goes on is reported
  complete.

`PROJECT.json` lists each hazard at its line with the properties that cover it.

## 2. The modules

| module | what it is | code |
|---|---|---|
| `AgentLoop` | several loops under their guards over one blackboard | `agent/loop.go`, `guard/guard.go` |
| `Conversation` | the history of one loop: compaction, spilling, paging, wire formats | `memory/working.go`, `tool/repo/tools.go`, `tool/context/fetch.go`, the two `toWireMessages` |
| `JobPool` | abstract: what a fan-out promises | (specification) |
| `FanOut` | dispatcher, unbuffered channel, workers, wait group | `agent/analyst.go` 75-136 |
| `AnalystPhase` | `FanOut` with `analyseOne` as the job, and the verdict | `agent/analyst.go` 75-276 |
| `PhaseDag` | abstract: what it means to run a dependency graph | (specification) |
| `Orchestrator` | the depth-first sort, the run, the checkpoints | `orchestrator/orchestrator.go` |
| `SourceTree` | the three ways of listing a repository | `tool/repo/source.go`, `mcpx/github.go`, `mcpx/resolve.go`, `cmd/testplan/main.go` |
| `RiskRegister` | order, bands and targets of a register of risks | `agent/risk.go` |
| `Pipeline` | the six phases with their postconditions; extends the two above | `pipeline/pipeline.go`, `agent/surveyor.go`, `approval/validate.go` |
| `AuthorCycle` | the author's workers, the critic and the revision rounds | `agent/author.go`, `tool/emit/emit.go` |
| `ToolPolicy` | one guarded tool: attempts, breaker, how the registry lists it | `tool/policy.go`, `tool/registry.go` |
| `RateLimit` | `Provider.Complete` with the shared pause | `llm/openaicompat/openaicompat.go` |
| `McpClient` | concurrent file reads over one pair of streams, with their cache | `mcpx/client.go`, `mcpx/github.go` |
| `TaskServer` | the server's loop, the task store, the runs beside it | `mcpx/server.go`, `cmd/testplan-mcp/main.go` |
| `ServedRunProofs` | theorems and proofs about `Pipeline`, with the two modules it extends, and `TaskServer` | |
| `RequestProofs` | theorems and proofs about `RateLimit` and `Conversation`, and the lemmas about sequences they need | |
| `*Proofs` | the others: about the module they are named after | |
| `MC*` | constants for TLC | |

`FanOut` implements `JobPool`, so `AnalystPhase`, which extends it, does too.
`Orchestrator` (any graph) and `Pipeline` (the graph of the program) both implement
`PhaseDag`.  A run of `Pipeline` is also a run as `TaskServer` takes it to be
(`AsServed`, proved).  The modules share no state otherwise: what one assumes of
another's part is said below, and is what the other's properties give.

**AgentLoop.**  One process per agent; `pc` says where its goroutine is: at the `top`
of `Loop.Run`, `completing` (in the provider), in a `turn` (before the next call of
the response), `invoking` a tool, or `stopped`.  A tool call is its fingerprint; a
completion is the number of calls it asks for and the tokens it used.  The calls of a
response are chosen one at a time, which adds no behaviour since the model may ask for
any.  `invoked` (how often each call reached its tool) and `seen` (the revision at
each iteration start) are history: the code has no such state and no guard reads them.
`OthersWrite` stands for all other writers of the phase.  `WallClockPasses` is the
moment an agent's time is up, which the guard sees at its next iteration (`late`).  A
completion may end in an error, with the context, or because the HTTP client gave that
one request up, which the code cannot tell from the former (`timedOut`, history as
well).  A degradable failure may come from any tool but an emit tool, which writes
memory only.

**Conversation.**  Text is a sequence of atoms: the characters of a line, and the
notes that say where to read on.  The model may call with whatever it was told of and
with what does not exist.  `AppendMessage` is `Append` with the compaction it may
trigger; the summary keeps how many turns it stands for and which calls it names.
`Request` is `Messages`, and the two wire formats are functions of it. `seen`,
`tried`, `turns` and `made` are history.

**JobPool, FanOut, AnalystPhase.**  An unbuffered channel is a rendezvous, so
`HandOver` moves a job from the dispatcher to an idle worker in one step. `select`
picks among ready branches at random: once the context is done, the dispatcher may
still hand over or may stop.  `DispatchEnds`/`DispatchStops` close the channel,
`WorkerExits` is the end of a `range`, `Return` is what follows `waitGroup.Wait`.
`FanOut` has no idea what a job is; `AnalystPhase` takes its actions and adds the
steps of `analyseOne` between hand-over and finish, so the proof that `FanOut`
implements `JobPool` is used, not repeated.

**PhaseDag, Orchestrator.**  The recursion of the sort is an explicit stack of visits,
one action per call, edge and return.  The loops over maps and names take the choices
that the code takes, so a walk is determined by the pipeline; `OrderFixed` says so in
terms of the ways that lead to a phase.  A phase's own work is one token on the
blackboard, present only if the phase succeeded; the checkpoint is what was on the
blackboard when it was written, and a write may fail.  The mapping to `PhaseDag` is
the identity on what a caller can see: which phases are settled and how, and whether
the run ended.

**SourceTree, RiskRegister, Pipeline.**  `listing` says how far the survey is with the
tree: a local directory is walked in one step that succeeds, without the directories
of ignored names, or is refused; a GitHub server is negotiated with, its tools are
resolved, and then the tree tool answers, for the root alone if it cannot be asked for
more, or a breadth-first walk asks for one directory after another.  Directories are
assumed to form a tree, as those of a repository do; the walk, which does not look
whether it has been somewhere before, relies on it. A ceiling of 0 is none. `unlisted`
is history: what was left out without a word. `RiskRegister` has no state: its
operators take a set of scored components to the registers with levels that may come
of it.  Risks are compared and counted by `RiskID`, the slug of the end of a path;
components that share it and have one score come in either order.  `Pipeline` runs the
phases in the order the orchestrator gives them (which `Orchestrator` shows for any
graph), and skips one whose dependency is not completed, though in this graph there
never is one; each phase ends with its postcondition, which notes its own gaps, and a
failed phase gets a gap from the orchestrator.  What the pool of analysts or authors
achieves is *any* part of the work: `AnalystPhase` and `AuthorCycle` say which parts,
and why.

**RateLimit.**  Time passes only while somebody or the pause waits for it; it makes no
difference otherwise.  A wait may be stated in the header or in the text of the error,
the latter gets a margin, and a guess gets jitter.  `announced` is when the last of
the pauses announced with a 429 so far ends in the endpoint's own words, and `known`
when those end that bind the attempt of a caller: what was announced as of when it
began, and what this caller was told itself, with whatever status.  Both are history.

**AuthorCycle.**  `at` is where `RevisionCycle.Run` stands: a `writing` pass of
`writeForRisks`, `reviewing`, or `deciding` after the critic.  Handing out risks is in
order; how a pool shuts down is `FanOut`'s subject, so here a pass is done when no
risk is left and no worker has one.  A scenario is its identifier (the slug of its
risk and its number), the risk whose loop wrote it, and whether a revision did;
`AddScenarios` replaces by identifier.  `EmitRefused` is a call of `scenario_emit`
that fails on its `k+1`st scenario, after the numbers of the first `k` are used up. A
finding is a severity and what it names, traced to the risks of that slug.  A
`review_emit` replaces the findings, and a critic may call it again or not at all.
`targets`, `written` and `counts` are history, and so are a scenario's `owner` and
`draft`, which no guard reads.

**ToolPolicy.**  The clock matters only through "the cooldown has passed since
`openedAt`", which is the variable `cooled`.  The check and the lowering of the count
happen under one lock and are one step; the attempt and the recording of its outcome
are two.  `List` stands for `Schemas` and `DegradedTools`, which ask the breaker and
so may use the probe up.  The tool may end an attempt in any way until it recovers, or
never: `Invoke` calls it synchronously, and the timeout of an attempt is a context
that the tool may ignore. The callers are the loops whose registries share the tool
(`Scoped`).  In the pipeline every loop builds a registry of its own, so there the
model's interleavings of two callers do not arise; the mutex and `Scoped` are there
for them.

**McpClient.**  `call[c]` is the state of one worker's `ReadFile`: it `missed` the
cache, is `sending` its request, `reading` lines, or was `answered`.  The writer and
the reader are buffered and unlocked.  Two calls in one such section at once are a
data race, so the outcomes a build can produce are choices: while they `overlap` a
request may be lost or name another file and a line may come out mixed with whatever
was read before, and since their buffers may stay as the race has left them, from then
on (`torn`) requests may be lost and lines hidden or undecodable for anybody. Two
outcomes are left out: a panic, which ends the process, and a response whose id is
made of the digits of two.  `met` says of a read that it met another, in either
section.  The server answers in any order, adds lines of its own, or goes.  A retry by
the tool policy is another `Read` of the same worker.  `fetched`, `mixed` and `met`
are history.

**TaskServer.**  `Serve` takes one line at a time; `StartTask` and `AnswerHandle` are
two steps with the goroutine of the task running from the first.  `AnswerHandle` reads
the task's status without the lock, a data race; whatever it reads, the handle goes
out, so the value is left out.  A run is the phases it announces, and it may be cut
short after one that may abort it.  The caller writes any lines, closes the input or
sends a signal at any time.  `handles` and `seen` are history.

## 3. The runs

| run | instance | shows |
|---|---|---|
| `agent_loop` | 1 agent, 3 calls (a read, an emission, one out of scope), all four limits small, 2 other writes | `WithinBudget`, `RepeatsContained`, `NoBarrenSpin`, `StopIsEarned`, `SucceededCallNotRedone` |
| `analyst_phase` | 2 workers, 3 files | `TakenAccounted`, `SalvageIsHonest`, `KeepsContract`, `Returns` |
| `orchestrator` | every graph on 3 phases, 6 declaration orders, 3 sets of optional phases, duplicate and unknown names | `OrderFixed`, `CheckpointWhole`, `KeepsDag`, `Ends` |
| `author_cycle` | 2 risks of 2 slugs, 2 workers, 3 rounds, 6 possible reports with up to 3 blocking findings | `UniqueIds`, `RiskAccounted`, `OpenFindingsNoted`, `RevisionsConverge`, `OnlyFlaggedRewritten`, `CycleEnds` |
| `each_risk_covered` | 2 risks of one slug | violation, section 5 |
| `rate_limit` | 2 callers, 3 attempts, waits of 2 in the header and of 1 in the text, margin 1 | `PauseHonoured`, `EveryCallReturns` |
| `tool_policy` | 2 callers, 2 attempts, threshold 3 | `NoBlindRetry`, `CountsTheStreak`, `LeftAlone`, `CallsReturn`, `BackInService` |
| `mcp_client` | 2 workers, 2 files, 3 lines: requests and lines for nobody together | `AnswerIsOwn`, `RefetchBounded`, `AloneIsAnswered`, `ClosedFreesAll` |
| `lost_answer` | the same | violation, section 5 |
| `task_server` | 2 tasks, 4 lines, 3 phases of which the first may abort | `PollsTell`, `LinesServed`, `TasksEnd` |
| `pipeline` | 4 components, two of one identifier, in 4 directories of which one has an ignored name; no ceiling and one just below the number of files; 3 raw scores | `ListingHonest`, `LevelsAreRanked`, `PlanHonest`, `KeepsDag`, `RunEnds` |
| `conversation` | a file of 4 lines and an empty one, responses of up to 2 calls, 5 rounds; at most 2 lines and a size of 4 a read, spilled above 5, pages of 4 | `RequestsWhole`, `ReadsComplete` |

Why these bounds are enough.

- *agent_loop.*  Agents meet only at the blackboard's revision and at the context, so
  a second agent can do nothing to the first that `OthersWrite` and `ContextEnds`
  cannot; the limits are chosen so that each guard can be the first to stop the agent,
  within a response as well as between responses.
- *analyst_phase.*  Two workers and three files give a worker that takes a second job,
  a job that is never taken and a job in flight when the context ends.
- *orchestrator.*  On three phases there are chains, diamonds without their tip,
  shared dependencies, self-loops, two- and three-cycles and disconnected phases; the
  proofs cover every graph.
- *author_cycle.*  Three blocking findings let the count fall twice, so that a run
  ends by approval, by a count that does not fall, and by the round cap; two risks let
  one be rewritten while the other is not, and findings name either, both or nothing
  that exists.
- *rate_limit.*  Three attempts let one caller announce a pause before, during and
  after the other's sleep, twice; a wait in the header is longer than one in the text,
  so an announcement can be both extended and undercut; either may come with a 429 or
  with another status.
- *tool_policy.*  Two attempts reach a threshold of three within two calls, and two
  callers pass it.
- *mcp_client.*  Two callers are what it takes to read each other's lines and to meet
  in a buffer, and a third line lets one call begin on a stream where two others, or
  the server, left something.
- *task_server.*  Polls of one task pass the run of the other; four lines start both
  and poll twice.
- *pipeline.*  Four components reach every band and a tie across each boundary, and a
  subset of them is a register too small to band; one directory that can fail has
  another below it.
- *conversation.*  One line fills a read by itself and one overshoots the cap and is
  spilled, so each of the cuts is the first to bite somewhere; five rounds compact
  three times, the last time what a compaction has left.

Bounds that exist only for TLC are named as such where the constants are declared
(`MaxTurnCalls`, `MaxOtherWrites`, `MaxBatch`, `MaxNumber`, `MaxTasks`, `Fanout`, and
`MaxLines` of `McpClient` and `TaskServer`), and the proofs hold for any value.

Three passing specifications stop by themselves (a loop, a run or a process that has
ended, in `conversation`, `pipeline` and `task_server`) and `McpClient` may run out of
requests; their configurations say `CHECK_DEADLOCK FALSE`.  In the others TLC does
look for deadlocks: those that end have a `Terminated` step, and in `ToolPolicy` there
is always a call to make.

### Fairness

Every goroutine of the program runs until it returns, and Go's scheduler is fair to
runnable goroutines: weak fairness on each worker, on the dispatcher and on the
phase's return.  A job ends because a loop's iterations are capped and each completion
and tool call has a timeout: weak fairness on each step of a job.  For jobs that read
over MCP this is an assumption and no more: a read that waits ignores its context, be
it a tool call or the analyst's own `ReadFile` (`agent/analyst.go` 178), and
`lost_answer` shows one that waits for ever.  `Returns`, `CycleEnds`, `Ends` and
`RunEnds` hold of runs whose jobs and phases end. Nothing is assumed of the deadline:
`ContextEnds` may never happen.  In `Orchestrator` and `Pipeline` a phase ends because
its budget bounds it; in `RateLimit` time passes and an exchange ends (the HTTP client
has a timeout).  In `AuthorCycle` the loops of author and critic end for the reason
jobs do; nothing makes a critic call `review_emit`.  In `ToolPolicy` a sleep has an
end, and time passes; that attempts end is not assumed of the tool but is the
hypothesis, per caller, of `CallsReturn` and `BackInService` (`AttemptsEnd`).  A loop
lists its tools before every completion, so between two listings it makes only the
calls of one response: strong fairness on `List`.  Nobody need call the tool, and it
need not recover: `BackInService` rests on listing alone.  In `McpClient` each worker
runs on, and a server that is there answers what it has been asked; that is the
strongest assumption there is to make, and the violation in `lost_answer` stands under
it.  In `TaskServer` only `Serve` is assumed to run on, for a caller is to be served
whatever the runs do, as long as it reads what it is answered (a full pipe would block
the write); that the runs go on is a hypothesis of `TasksEnd` alone.  `Conversation`
has no liveness property: that a loop ends is `AgentLoop`'s subject.

## 4. What is proved

| theorem | module | says |
|---|---|---|
| `TypeCorrect`, `BudgetHolds`, `RepeatsHold`, `CacheHolds`, `ProgressHolds`, `ReasonsHold` | `AgentLoopProofs` | the properties of run `agent_loop`, for any agents, calls, tools and limits |
| `ContractHolds`, `PhaseKeepsContract`, `AnalystTypes`, `NoTakenFileLost`, `SalvageHonest` | `AnalystPhaseProofs` | `FanOut`, and so the analyse phase, implements `JobPool`; the safety of the phase, for any files and workers |
| `RunTypeCorrect`, `OrderIsSound`, `OrderIsFixed`, `CheckpointsWhole`, `OrchestratorKeepsDag` | `OrchestratorProofs` | the order is topological and follows from the pipeline, and the safety of the run, for any finite or infinite set of names and any pipeline |
| `CycleTypeCorrect`, `IdsStayUnique`, `NoTakenRiskLost`, `OpenFindingsToldOf`, `Converges`, `RevisionStaysInBounds` | `AuthorCycleProofs` | the safety of the author phase, for any register, slugs, workers, rounds and reports |
| `PolicyTypes`, `RetriesBounded`, `BreakerCounts`, `BrokenToolLeftAlone` | `ToolPolicyProofs` | the safety of a guarded tool, for any callers, attempts and threshold |
| `CallTypes`, `PausesHonoured` | `RequestProofs` | the safety of the provider's attempts, for any waits, margin and back-off |
| `RequestsAreWhole` | `RequestProofs` | every request pairs calls and results and leaves nothing out, for any window, sizes and number of calls |
| `ReadsAreComplete` | `RequestProofs` | who follows every note has read all there is, for any files, caps and pages |
| `AnswersAreOwn`, `FetchesBounded` | `McpClientProofs` | a content is of the file asked for unless that read met another, and is kept at most once per worker, for any workers, files and lines |
| `ListingIsHonest`, `LevelsRanked`, `PlanIsHonest`, `PipelineKeepsDag` | `ServedRunProofs` | the safety of a run of the six phases, for any tree of directories, components, scores and failures |
| `RunsAsServed` | `ServedRunProofs` | such a run takes only the steps `TaskServer` gives a run |
| `PollsAgree` | `ServedRunProofs` | what polls tell never goes back, for any tasks, lines and phases |

Assumptions are the named ones next to the constants: types, `IsFiniteSet(Callers)`
for `McpClient`, directories that form a tree and hold finitely many files, each in
one of them, for `SourceTree`, finitely many components, and identifiers listed once,
for `RiskRegister`, a cap on lines of at least one, a cap on size above one and pages
larger than a digest's cut and smaller than what is spilled for `Conversation` (the
code has 2000 lines and, in bytes, 40000, 24000, 12000 and 48000), and for `AgentLoop`
`CacheAt \in 1..2` (the code uses 2): with a higher value a call that succeeded could
run again. The type invariants and `OrderSound` are proved and not in the
configurations, for the proof leaves TLC nothing to find.

The arguments, in short:

- *Budget.*  `WithinBudget` is not inductive: it needs that an agent past the guard is
  strictly below its limits, and that the calls left in a response do not count
  against anything until each has passed the guard.
- *Repeats.*  `invoked[a][c]` never exceeds `counts[a][c]`, the count is below the
  advice threshold when the tool is reached, and a call that succeeded is in the
  cache, which answers from the second occurrence on.
- *Progress.*  The guard's two numbers are related to history: `barren[a] = k` says
  that the last `k + 1` iteration starts saw one revision and, unless that is the
  whole history, the one before saw another.
- *Fan-out.*  The jobs split into dispatched and not; the dispatched ones are in the
  hands of exactly one worker or finished; nobody exits before the channel is closed;
  the wait group is the set of live workers.
- *Sort.*  The stack of the walk is a path of the graph from its root; finished names
  are closed under dependency and in an order that respects it; a name met on the path
  is a cycle.  That a refused graph really has a cycle follows from the path being
  one.
- *Fixed order.*  `OrderFixed` speaks of the phases of the order and is not inductive.
  `FixedInv` adds `Ahead`: whatever is reached by a way that is taken before the
  walk's own, which is its stack, has been visited.  When a phase is left, the way to
  it is the stack, and every way to a phase not yet visited is taken later or goes
  through the phase.  A shortest chain repeats no phase, so it is one of the finitely
  many `Routes`.
- *Run.*  The phases settled are a prefix of the order, and the order is topological,
  so a dependency is settled when its dependents are reached.
- *Revisions.*  `Shape` ties the place in the cycle to the round and to the length of
  `counts`: a revision is made only below the cap.  `Decreasing` says that `previous`
  is the last count and that the counts fall.  `Traced` says that during a revision
  every risk in hand is one that a blocking finding was traced to, which is what makes
  a replacement legitimate; it holds because nothing changes the findings while risks
  are written.
- *Identifiers.*  A batch has distinct numbers, and what it meets in the catalogue
  under one of its identifiers is removed first.
- *Breaker.*  The count can be below the streak only by the one that a probe took off;
  the breaker is then at `Threshold - 1`, and the next failure, whoever's, opens it
  again.  `Shut` adds that while the cooldown of the opening has not passed the count
  is not below the threshold, so every call is refused.
- *Pause.*  A sleeping caller's wake-up is never before what had been announced when
  its attempt began, and the shared end neither moves back nor falls short of what was
  announced.
- *Working set.*  `WorkingSetInv` has what a request is built from: each assistant's
  message in view is followed by the results of its calls, or is the last one while
  they are made and names exactly the calls answered and open; the first message is a
  result only behind a summary; what the summary names and what is in view are
  together the calls made, in order.  Compaction cuts a suffix and gives the rest to
  the summary, wherever it cuts.  What the wire formats make of such a history is
  worked out from where each part of a flattened sequence comes to lie.
- *Reading.*  `ReadingInv` says of every read and fetch made that all of its extent is
  `seen`, or else spilled and so within `Reach`, and that the note it ended with is
  too.  Spilling moves content from one to the other, which is why `Reach` and not
  `seen` is in the invariant.  From there `ReadsComplete` is an induction: if the
  lines up to the j-th were seen, either the read that showed it goes on or its note
  was followed.
- *Induction.*  A library theorem with an operator as its parameter cannot be used,
  but a set can stand for the operator: `Induction` says that a set of numbers with 0
  and the successor of each member is `Nat`, by the least number outside
  (`NatLessThanWellFounded`, `WFMin`).  With it, what `FlattenSeq` yields for any
  sequence is proved from its definition.
- *Answers.*  An id is handed out once, so every request and every response of an id
  is about the file of the call that has it, unless that call has met another while it
  wrote; a call that overlaps another has met it (`Noticed`), so a content that is not
  the file's own implies that the read met one.
- *Fetches.*  Once a file is in the cache, nobody new asks for it; so the number of
  times its content was kept and the workers still asking for it are together at most
  the workers, and each time takes one from the second number.  It needs that what is
  answered is never empty (`Filled`).
- *Polls.*  What was last told of a task is behind what the store has, and equal to it
  once complete: a task is completed by its own goroutine after its report is
  rendered, and nothing touches it afterwards.

- *Listing.*  While the walk is on there is a set of listed directories (it exists;
  the code keeps none) whose files are the entries: the listed, the skipped and the
  pending are apart, the children of what was listed are in one of them, and nothing
  else is. Apartness is where the tree comes in.  With nothing pending, a directory
  that is not listed is below a skipped one: those that are listed or below a skipped
  one contain the root and are closed under children.
- *Bands.*  A sorting is a bijection with the components along which scores do not
  rise, whichever way equal ones come.  So the number of strictly higher scores is the
  place of the first of the tie, or that of the neighbour before; the least place
  whose promoted level were not the ranked one would have a neighbour with the same
  fault.
- *Plan.*  `StatusInv`: what precedes a phase that has begun is settled, and what it
  needs has succeeded, so one phase at most is running and nothing begins after a
  required failure.  `BoardInv`: what each phase leaves, given how it ended; a phase
  that ends finds the board of those after it empty.
- *The run as served.*  The phases that have begun are the first `k` of the order; the
  run ends behind the last of them, or at a required phase that failed, which is never
  the approval.

## 5. Where the code and its documentation disagree

Two are runs that TLC answers with a counterexample; `PROJECT.json` quotes the lines.

1. `EachRiskCovered`: two components whose paths end alike share the identifiers of
   their risks and scenarios; one's scenarios replace and are counted for the other's.
2. `EveryCallAnswered`: two workers wait on one stream, and each drops what is not its
   own; a call whose response the other has read, or whose request was lost to one
   written at the same time, waits for ever although the stream is whole, and does not
   look at its context meanwhile.

Noted on the way, without a run of their own.  In the loop and its guards:

- Noting a degraded tool a second time moves the revision, so a loop whose reads keep
  failing is not "barren" although nothing was added (`memory/blackboard.go` 220,
  `guard/guard.go` 330).
- After emitting A, B, A the model is told that A is recorded; the call was served
  from the cache and the blackboard holds B (`guard/guard.go` 187, 229).
- Compaction may leave as the first kept message the results of calls that were only
  summarised, which an endpoint refuses, and may drop the instruction of the task,
  whose text the summary does not carry (`memory/working.go` 79-81, 155).
- The byte cap of the read tool is overshot by the last line (`tool/repo/tools.go`
  153).
- Digests and pages are cut at bytes (`memory/working.go` 63, `tool/context/fetch.go`
  88-92): of a character of several bytes at such a seam either side shows a part, and
  neither survives the encoding of the request as JSON.
- The timeout of the HTTP client on one request is `context.DeadlineExceeded` too, so
  a slow endpoint is reported as `budget_exhausted` by the guard "context" while
  context and budget are both alive (`agent/loop.go` 249).  `StopIsEarned` names it.

In the phases:

- "Preserve declaration order among independent phases"
  (`orchestrator/orchestrator.go` 257) is not what happens: of A, B, C, where A
  depends on C, the order is C, A, B. What is fixed, and by what, is `OrderFixed`.
- "Highest score first, then by ID so equal scores order deterministically"
  (`agent/risk.go` 115): components that share an identifier and a score come in
  either order, as the analysts finished.  Their levels are equal anyway.
- Files not dispatched when the deadline passes have neither a component nor a gap
  (`agent/analyst.go` 117); of the risks, only the first undispatched one is noted.
- When a file's loop ends in an error, `analyseOne` returns before the salvage branch
  and what the parser found is lost (`agent/analyst.go` 207), which the comment at 222
  warns of.  The model has that branch as `LoopFails`.
- During a revision, the scenarios of the earlier draft still count for the risk, so a
  loop that completes without emitting leaves them in place with no gap
  (`agent/author.go` 262).
- A critic that never calls `review_emit` counts as one that found nothing; the
  catalogue is approved and no gap says that it was not reviewed (`agent/author.go`
  393).
- If the critic is cut short in a later round, the findings of the earlier one stay
  and are counted again; the cycle stops then, since the count has not decreased
  (`agent/author.go` 455).
- A refused call of `scenario_emit` uses its numbers up, so the corrected call starts
  higher (`tool/emit/emit.go` 225).
- Structural defects are said to be repaired by going back to the author phase
  (`approval/validate.go` 56); the pipeline notes a gap and goes on.
- Tests of Python never count as existing tests (`agent/surveyor.go` 230).
- `RestoreBlackboard` is never called outside a test, so a checkpoint does not yet
  make a run resumable; the checkpoint of a failed phase is written before the gap
  that records the failure.

In what talks to the outside:

- A caller asleep on a pause does not see that a longer one was announced meanwhile
  (`llm/openaicompat/openaicompat.go` 74).
- A wait stated with a 503 or a 408 is waited out by the caller that was told, and the
  others are not; they send before it is over (`llm/openaicompat/openaicompat.go`
  310).
- Reads that overlap in the unlocked reader may return what another's line has left in
  its buffer, and `ReadFile` keeps it for the rest of the run (`mcpx/client.go` 302,
  `mcpx/github.go` 476).
- The timeout of a tool is a context (`tool/policy.go` 166), and a read over MCP that
  waits does not look at it (`mcpx/client.go` 302), so such a call need not return.
- Retries go on after the breaker has opened, and the cooldown counts from the
  opening.  With `NetworkPolicy` a timeout and the cooldown are both 30 s, so a tool
  that times out is hardly ever kept out.
- A listing that is truncated and empty falls back to the walk, although
  `mcpx/github.go` 165-170 says that truncation ends the run.
- A tool named by `-mcp-tool-tree` or `-mcp-tool-file` is called with the parameter
  names of the tool that was discovered (`cmd/testplan/main.go` 212-217).
- A local listing leaves out what is in directories called `vendor`, `build`, `dist`
  and the like, and neither the log nor the plan says so (`tool/repo/source.go` 86,
  123).
- A tree tool that does not declare `recursive` is asked without it (`mcpx/github.go`
  103-107); if it then lists the root alone, that passes for the whole.
- One unreadable file, or a symbolic link to a directory, ends the walk of a local
  repository (`tool/repo/source.go` 136-139).
- A signal does not end a `testplan-mcp` that waits for a line; the task of an aborted
  run is complete like any other, and `Fail` is out of reach.
- Report names carry the minute and drop short commits, and `a/b` and `a-b` become
  one, so two runs may overwrite each other's reports (`cmd/testplan/output.go`
  135-168).

## 6. Checked but not proved

- Liveness under fairness is beyond the prover: `Returns`, `Ends`, `CycleEnds`,
  `CallsReturn`, `BackInService`, `EveryCallReturns`, `AloneIsAnswered`,
  `ClosedFreesAll`, `LinesServed`, `TasksEnd`, `RunEnds`.

Every safety invariant and every action property that a run checks, and is expected to
hold, is a theorem as well.  The other way round, `RunsAsServed` states a property,
`AsServed`, that no configuration has: the proof leaves TLC nothing to find.

## 7. The plan

Done: the agent loop and its conversation, the fan-out with the analyse phase, the
orchestrator, the author cycle, the tool policy, the rate limit, the six phases with
listing and bands, the MCP client, the task server.

What could follow: the author phase's pool through `FanOut`'s contract instead of a
pass that is done when nobody has a risk; `McpClient` with a lock around the exchange,
as the specification of a repair of `EveryCallAnswered` (the run `lost_answer` then
has to pass); a breaker as a gate that a streak closes, as an abstract specification
of `ToolPolicy`.

## 8. Not modelled, and why

- *Pure data.*  Rendering, command-line flags and exit codes, parsing of repository
  URLs and of server command lines, the Go parser, languages and manifests of the
  survey, the weighted signals of a risk, the checks of a scenario's fields, prompts,
  report names, the encoding of requests beyond the order and pairing of messages (and
  so what becomes of half a character), the shapes in which a server may answer.  They
  keep no state that a property is about; where a decision hangs on them (a file is a
  test, a score is higher, an answer is of use), the models choose freely.
- *Not reached.*  `RestoreBlackboard`, `TaskStore.Fail`, `Registry.Fallback`,
  `RemoteTool.Invoke` with `classifyTransportError`, and `SpillStore.Handles` but for
  one message, are used by tests only or not at all.  The scripted provider is a test
  double.
- *Covered by another module.*  The retries of the Anthropic provider are those of
  `RateLimit` without the shared pause.  A loop's guards are in `AgentLoop` and its
  history in `Conversation`, which therefore lets a guard stop the loop at any time.
- *Real time.*  Budgets and deadlines are contexts that may end at any moment.
