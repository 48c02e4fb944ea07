------------------------------ MODULE Pipeline ------------------------------
(***************************************************************************)
(* The six phases of a run with their postconditions (pipeline.go), from   *)
(* the listing of the repository to the gap that says a person has yet to  *)
(* approve.  The survey lists the repository as module SourceTree does,    *)
(* the risk phase bands as RiskRegister does; what a pool of agents        *)
(* achieves in the analyse and author phases is any part of the work, see  *)
(* AnalystPhase and AuthorCycle for why.                                   *)
(***************************************************************************)
EXTENDS SourceTree, RiskRegister

CONSTANTS
  Sources,   \* the files that are analysable; the rest is excluded
  Tests,     \* the Go test files
  DirOf,     \* of each of these
  RawScores  \* what scoreComponent may add up to

\* Of the files analysed the names are the components'.
ASSUME PipelineAssumption ==
  /\ Sources \subseteq Names
  /\ RawScores \subseteq Int

Order == <<"survey", "analyse", "risk", "author", "validate", "approval">>
Phases == ToSet(Order)

Needs(p) ==
  CASE p = "survey" -> {}
    [] p = "analyse" -> {"survey"}
    [] p = "risk" -> {"analyse"}
    [] p = "author" -> {"risk"}
    [] p \in {"validate", "approval"} -> {"author"}

\* Mutant of Required: structural defects end the run.
RequiredAll(p) == TRUE

Required(p) == p # "validate"

VARIABLES
  withModel,   \* a provider is configured
  status,      \* of each phase
  end,         \* how the run ended, or "open"
  selected,    \* repoMap: the files selected for the scan
  testedDirs,  \*   and where its existing tests are
  models,      \* componentModels: [name, raw]
  register,
  scenarios,   \* [risk: the identifier of one, sound: it would validate]
  gaps         \* [phase, about]

board == <<selected, testedDirs, models, register, scenarios, gaps>>
vars == <<tree, withModel, status, end, board>>

Init ==
  /\ TreeInit
  /\ withModel \in BOOLEAN
  /\ status = [p \in Phases |-> "waiting"]
  /\ end = "open"
  /\ selected = {} /\ testedDirs = {} /\ models = {}
  /\ register = <<>> /\ scenarios = {} /\ gaps = {}

Gap(p, about) == [phase |-> p, about |-> about]

Failed(p) == status[p] = "failed"
Running(p) == status[p] = "running"
Aborting == \E p \in Phases : Required(p) /\ Failed(p)

Over(p) == status[p] \in {"ok", "failed", "skipped"}

\* Run reaches the phase when those before it are over.
Reached(p) ==
  /\ end = "open"
  /\ ~Aborting
  /\ status[p] = "waiting"
  /\ \A i, j \in DOMAIN Order : Order[j] = p /\ i < j => Over(Order[i])

\* The phase runs, or is skipped with a gap if one that it needs is not
\* completed.
Begin(p) ==
  /\ Reached(p)
  /\ IF \A d \in Needs(p) : status[d] = "ok"
       THEN status' = [status EXCEPT ![p] = "running"] /\ UNCHANGED gaps
       ELSE status' = [status EXCEPT ![p] = "skipped"] /\ gaps' = gaps \cup {Gap(p, "phase")}
  /\ UNCHANGED <<tree, withModel, end, selected, testedDirs, models, register, scenarios>>

\* The phase ends; the orchestrator notes a failure, noted the phase itself.
Settle(p, ok, noted) ==
  /\ status' = [status EXCEPT ![p] = IF ok THEN "ok" ELSE "failed"]
  /\ gaps' = gaps \cup noted \cup (IF ok THEN {} ELSE {Gap(p, "phase")})
  /\ UNCHANGED <<withModel, end>>

\* Survey, while it lists.
Listing ==
  /\ Running("survey")
  /\ ListTree
  /\ UNCHANGED <<withModel, status, end, board>>

SurveyFails ==
  /\ Running("survey")
  /\ listing = "refused"
  /\ Settle("survey", FALSE, {})
  /\ UNCHANGED <<tree, selected, testedDirs, models, register, scenarios>>

\* classifyFile: neither a test, nor generated, nor vendored, and in a known
\* language.
Analysable(files) == files \cap Sources

\* collectExistingTests: those that can be read and parsed, and have a function
\* called Test, say which directories have tests; the unreadable are gaps.
ReadTests(tests, readable) ==
  /\ \E testing \in SUBSET readable : testedDirs' = {DirOf[t] : t \in testing}
  /\ Settle("survey", selected' # {}, {Gap("survey", t) : t \in tests \ readable})

\* Survey, with the listing.
Survey ==
  /\ Running("survey")
  /\ listing = "listed"
  /\ selected' = Analysable(entries)
  /\ \E readable \in SUBSET (entries \cap Tests) : ReadTests(entries \cap Tests, readable)
  /\ UNCHANGED <<tree, models, register, scenarios>>

\* Components for some of the files.
Describe(done) ==
  \E raw \in [done -> RawScores] : models' = {[name |-> f, raw |-> raw[f]] : f \in done}

\* The analysts, which note a gap for a file or do not: module AnalystPhase.
Analyse ==
  /\ Running("analyse")
  /\ withModel
  /\ \E done \in SUBSET selected : Describe(done)
  /\ Settle("analyse", models' # {}, {})
  /\ UNCHANGED <<tree, selected, testedDirs, register, scenarios>>

\* The parser alone: AnalystFallback.
Parse ==
  /\ Running("analyse")
  /\ ~withModel
  /\ \E done \in SUBSET selected :
       /\ Describe(done)
       /\ Settle("analyse", done # {}, {Gap("analyse", f) : f \in selected \ done})
  /\ UNCHANGED <<tree, selected, testedDirs, register, scenarios>>

Component(m) == [name |-> m.name, score |-> Scored(m.raw, DirOf[m.name] \in testedDirs)]

Score ==
  /\ Running("risk")
  /\ register' \in Registers({Component(m) : m \in models})
  /\ Settle("risk", register' # <<>>, {})
  /\ UNCHANGED <<tree, selected, testedDirs, models, scenarios>>

\* A risk counts as covered when a scenario has its identifier, which may have
\* been written for another.
Covered(catalogue) == {s.risk : s \in catalogue}
Uncovered(catalogue) ==
  {r \in Prioritised(register) : RiskID[r.name] \notin Covered(catalogue)}

\* Mutant of Coverage: the count is over the scenarios.
CoverageCounted(catalogue) ==
  IF Cardinality(catalogue) >= Cardinality(Prioritised(register)) THEN {} ELSE {Gap("author", "coverage")}

\* The postcondition of the author phase notes that risks are not covered.
Coverage(catalogue) ==
  IF Uncovered(catalogue) = {} THEN {} ELSE {Gap("author", "coverage")}

Unprioritised == IF Prioritised(register) = {} THEN {Gap("author", "prioritisation")} ELSE {}

\* With a model, scenarios for some of the targets; the cycle may also end in
\* an error after writing some.  The postcondition is met by any scenario, and
\* is not looked at after an error.
Author ==
  /\ Running("author")
  /\ withModel
  /\ scenarios' \in SUBSET [risk : {RiskID[r.name] : r \in TargetRisks(register)}, sound : BOOLEAN]
  /\ \/ scenarios' # {} /\ Settle("author", TRUE, Unprioritised \cup Coverage(scenarios'))
     \/ Settle("author", FALSE, Unprioritised)
  /\ UNCHANGED <<tree, selected, testedDirs, models, register>>

\* Without one, a placeholder for each target.
Placeholders ==
  /\ Running("author")
  /\ ~withModel
  /\ scenarios' = {[risk |-> RiskID[r.name], sound |-> TRUE] : r \in TargetRisks(register)}
  /\ Settle("author", TRUE, {Gap("author", "scenarios")} \cup Coverage(scenarios'))
  /\ UNCHANGED <<tree, selected, testedDirs, models, register>>

\* validateOneScenario.
Structural == {s \in scenarios : ~s.sound}

\* Validate: the blocking defects, by rule.
Defects ==
  (IF Structural # {} THEN {"structure"} ELSE {})
    \cup (IF Uncovered(scenarios) # {} THEN {"uncovered-risk"} ELSE {})

ValidatePlan ==
  /\ Running("validate")
  /\ Settle("validate", Defects = {}, {Gap("validate", rule) : rule \in Defects})
  /\ UNCHANGED <<tree, selected, testedDirs, models, register, scenarios>>

AwaitApproval ==
  /\ Running("approval")
  /\ Settle("approval", TRUE, {Gap("approval", "verdict")})
  /\ UNCHANGED <<tree, selected, testedDirs, models, register, scenarios>>

End(how) == end = "open" /\ end' = how /\ UNCHANGED <<tree, withModel, status, board>>

Abort == Aborting /\ End("aborted")

Done == ~Aborting /\ (\A p \in Phases : Over(p)) /\ End("done")

Next ==
  \/ \E p \in Phases : Begin(p)
  \/ Listing \/ SurveyFails \/ Survey
  \/ Analyse \/ Parse
  \/ Score
  \/ Author \/ Placeholders
  \/ ValidatePlan
  \/ AwaitApproval
  \/ Abort \/ Done

Spec == Init /\ [][Next]_vars /\ WF_vars(Next)

(***************************************************************************)
(* Properties                                                              *)
(***************************************************************************)

\* "Two components with the same score always get the same level, so a band
\* boundary never splits equal risks" (risk.go 263), and the promotion from
\* neighbour to neighbour does it for ties of any length: every level is that
\* of the number of strictly higher scores, whichever way equal scores under one
\* identifier were sorted, and the register has its order.
LevelsAreRanked ==
  /\ \A r \in ToSet(register) : r.level = RankedLevel(register, r)
  /\ \A i, j \in DOMAIN register : i < j => ~Before(register[j], register[i])

\* What the document that is rendered at the end can be relied on to say,
\* whatever the phases achieved and wherever the run stopped: a phase that failed
\* or was skipped, a prioritised risk under whose identifier there is no scenario,
\* a defect, placeholders are each told of; the register is of the components
\* described; without a model no file goes unmentioned; and a run that was not
\* aborted has scenarios and says that nobody has approved them.  It does not say
\* of a risk that it has no scenario when another with the same identifier has
\* one: see EachRiskCovered of module AuthorCycle.
PlanHonest ==
  end # "open" =>
    /\ \A p \in Phases : status[p] \in {"failed", "skipped"} => Gap(p, "phase") \in gaps
    /\ register # <<>> =>
         /\ {r.name : r \in ToSet(register)} = {m.name : m \in models}
         /\ (\E r \in Prioritised(register) : \A s \in scenarios : s.risk # RiskID[r.name]) =>
              {Gap("author", "coverage"), Gap("author", "phase")} \cap gaps # {}
    /\ ~withModel /\ scenarios # {} => Gap("author", "scenarios") \in gaps
    /\ ~withModel /\ status["analyse"] # "waiting" =>
         \A f \in selected \ {m.name : m \in models} : Gap("analyse", f) \in gaps
    /\ end = "done" =>
         /\ scenarios # {}
         /\ Gap("approval", "verdict") \in gaps
         /\ Structural # {} => Gap("validate", "structure") \in gaps

\* The concrete phases run as any pipeline does.
Dag == INSTANCE PhaseDag WITH
  Names <- Phases,
  Pipelines <- {[declared |-> Order, dependsOn |-> [p \in Phases |-> Needs(p)], optional |-> {"validate"}]},
  pipeline <- [declared |-> Order, dependsOn |-> [p \in Phases |-> Needs(p)], optional |-> {"validate"}]
KeepsDag == Dag!Spec

\* What a run is to module TaskServer, where a caller polls for it: it announces
\* its phases in order as they begin (pipeline.go 66), is cut short only after
\* one that may abort it, and its report is whole only when it was not.
Announced == Cardinality({i \in DOMAIN Order : status[Order[i]] \notin {"waiting", "skipped"}})
Served == INSTANCE TaskServer WITH
  MaxTasks <- 1, MaxLines <- 0,
  LastPhase <- Len(Order), MayAbort <- {i \in DOMAIN Order : Required(Order[i])},
  lines <- <<>>, written <- 0, eof <- FALSE, interrupted <- FALSE,
  at <- "top", sequence <- 1, handles <- {1}, seen <- <<"none">>,
  task <- <<[status |-> "running", phase |-> Announced, result |-> "none"]>>,
  run <- <<IF end = "open" THEN "running" ELSE "rendered">>,
  report <- <<CASE end = "open" -> "none" [] end = "done" -> "whole" [] end = "aborted" -> "partial">>
AsServed == [][Served!Work(1)]_(Served!runs)

\* Every run comes to an end, whatever the server answers on the way and
\* whichever phases fail: the walk through the file tool as well, which goes on
\* past directories that cannot be listed.
RunEnds == <>(end # "open")

=============================================================================
