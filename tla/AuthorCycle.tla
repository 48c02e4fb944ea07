----------------------------- MODULE AuthorCycle -----------------------------
(***************************************************************************)
(* The author phase (agent/author.go): RevisionCycle.Run with the Author's *)
(* pool of workers, one risk each, the Critic, and the emit tools through  *)
(* which both write to the blackboard (tool/emit/emit.go).  How a pool     *)
(* shuts down is the subject of module FanOut; here a pass ends when no    *)
(* risk is left to hand out and no worker has one.                         *)
(*                                                                         *)
(* Risks are positions in the register.  Their identifiers and the prefix  *)
(* of their scenarios' identifiers are both slugs of the component's name, *)
(* the last two segments of its path, so two risks may share them.  The    *)
(* text of a scenario is "first", or "revised" for what a revision wrote.  *)
(***************************************************************************)
EXTENDS Integers, FiniteSets, Sequences

CONSTANTS
  RiskCount,   \* entries of the register
  Slugs,       \* slugs of component names
  SlugOf,      \* the slug of each risk
  Workers,     \* the goroutines of Author.Concurrency
  Idle,        \* a worker without a risk
  Nobody,      \* the subject of a gap or of a finding that names no risk
  MaxRounds,   \* RevisionCycle.MaxRounds
  MaxBatch,    \* bound: scenarios in one call of scenario_emit
  MaxNumber,   \* bound: scenarios numbered by one job
  Reports      \* the findings one call of review_emit may report

Risks == 1..RiskCount

Finding == [target : Slugs \cup {Nobody}, blocking : BOOLEAN]

ASSUME CycleAssumption ==
  /\ RiskCount \in Nat \ {0}
  /\ SlugOf \in [Risks -> Slugs]
  /\ Idle \notin Risks /\ Nobody \notin Slugs
  /\ MaxRounds \in Nat \ {0}
  /\ MaxBatch \in Nat /\ MaxNumber \in Nat
  /\ Reports \subseteq Seq(Finding)

VARIABLES
  at,         \* "writing", "reviewing", "deciding" or "done"
  todo,       \* risks of this pass not yet handed to a worker
  worker,     \* the risk of each worker, or Idle
  numbered,   \* ScenarioTool.emittedCount of each worker's job
  round,      \* roundNumber; 0 while Write runs
  previous,   \* previousBlockingCount
  result,     \* what RevisionCycle.Run returned
  ctxDone,    \* the phase's context is cancelled or past its deadline
  \* the blackboard
  catalogue,  \* the scenarios
  findings,   \* the revision requests
  gaps,       \* pairs of a subject and a reason
  \* history, read by the properties only
  targets,    \* the risks of this pass
  written,    \* the risks that a worker is through with in this pass
  counts      \* the blocking counts that led to a revision

poolVars == <<todo, worker, numbered, written>>
cycleVars == <<at, round, previous, result, targets, counts>>
boardVars == <<catalogue, findings, gaps>>
vars == <<poolVars, cycleVars, boardVars, ctxDone>>

Lesser(m, n) == IF m < n THEN m ELSE n

\* The k most severe risks are the critical and high ones; with none of them,
\* Write takes the first three of the register and says so.
Init ==
  /\ at = "writing"
  /\ \E k \in 0..RiskCount :
       IF k > 0
         THEN targets = 1..k /\ gaps = {}
         ELSE /\ targets = 1..Lesser(3, RiskCount)
              /\ gaps = {<<Nobody, "no priority">>}
  /\ todo = targets
  /\ worker = [w \in Workers |-> Idle]
  /\ numbered = [w \in Workers |-> 0]
  /\ round = 0
  /\ previous = -1
  /\ result = "none"
  /\ ctxDone = FALSE
  /\ catalogue = {}
  /\ findings = <<>>
  /\ written = {}
  /\ counts = <<>>

-----------------------------------------------------------------------------
(* Author.writeForRisks. *)

IsFirst(r) == r \in todo /\ \A s \in todo : r <= s

TakeRisk(w) ==
  /\ at = "writing"
  /\ worker[w] = Idle
  /\ \E r \in todo :
       /\ IsFirst(r)
       /\ worker' = [worker EXCEPT ![w] = r]
       /\ todo' = todo \ {r}
  /\ UNCHANGED <<numbered, written, cycleVars, boardVars, ctxDone>>

\* The select takes the context's branch: one gap, for the risk at hand.
DispatchStops ==
  /\ at = "writing"
  /\ ctxDone
  /\ \E r \in todo :
       IsFirst(r) /\ gaps' = gaps \cup {<<SlugOf[r], "cancelled">>}
  /\ todo' = {}
  /\ UNCHANGED <<worker, numbered, written, cycleVars, catalogue,
                 findings, ctxDone>>

-----------------------------------------------------------------------------
(* Author.writeForRisk: the loop of one risk. *)

Busy(w) == worker[w] \in Risks

Scenario(r, n) == [slug |-> SlugOf[r], number |-> n, owner |-> r,
                   draft |-> IF round = 0 THEN "first" ELSE "revised"]

SameId(s, t) == s.slug = t.slug /\ s.number = t.number

\* Mutant of Added: append, whatever the identifiers.
AddedAlways(new) == catalogue \cup new

\* Blackboard.AddScenarios: a scenario replaces the one with its identifier.
Added(new) == {s \in catalogue : \A t \in new : ~SameId(s, t)} \cup new

\* scenario_emit records k scenarios.
Emit(w, k) ==
  LET r == worker[w] IN
  /\ Busy(w)
  /\ numbered[w] + k <= MaxNumber
  /\ catalogue' = Added({Scenario(r, numbered[w] + i) : i \in 1..k})
  /\ numbered' = [numbered EXCEPT ![w] = @ + k]
  /\ UNCHANGED <<todo, worker, written, cycleVars, findings, gaps, ctxDone>>

\* scenario_emit refuses the whole call for a scenario without a checkable
\* outcome; the k scenarios before that one have used their numbers up.
EmitRefused(w, k) ==
  /\ Busy(w)
  /\ numbered[w] + k <= MaxNumber
  /\ numbered' = [numbered EXCEPT ![w] = @ + k]
  /\ UNCHANGED <<todo, worker, written, cycleVars, boardVars, ctxDone>>

FinishRisk(w) ==
  /\ Busy(w)
  /\ written' = written \cup {worker[w]}
  /\ worker' = [worker EXCEPT ![w] = Idle]
  /\ numbered' = [numbered EXCEPT ![w] = 0]
  /\ UNCHANGED <<todo, cycleVars, catalogue, findings,
                 ctxDone>>

NoteGap(w, why) == gaps' = gaps \cup {<<SlugOf[worker[w]], why>>}

\* Mutant of WriteCutShort: the worker tries its risk again.
WriteTriedAgain(w) ==
  /\ Busy(w)
  /\ NoteGap(w, "cut short")
  /\ numbered' = [numbered EXCEPT ![w] = 0]
  /\ UNCHANGED <<todo, worker, written, cycleVars, catalogue, findings, ctxDone>>

\* The loop returns an error, or a guard or the context stops it.
WriteCutShort(w) == FinishRisk(w) /\ NoteGap(w, "cut short")

\* Mutant of HasScenario: the total, not the risk's own.
HasAnyScenario(w) == catalogue # {}

\* scenarioCountForRisk, by the identifier of the risk.
HasScenario(w) == \E s \in catalogue : s.slug = SlugOf[worker[w]]

\* The loop completes.  The count is read and the gap noted in one step: only a
\* worker whose risk shares the slug could come between.
WriteCompletes(w) ==
  /\ FinishRisk(w)
  /\ IF HasScenario(w) THEN UNCHANGED gaps ELSE NoteGap(w, "no scenario")

-----------------------------------------------------------------------------
(* RevisionCycle.Run. *)

PassDone == at = "writing" /\ todo = {} /\ \A w \in Workers : ~Busy(w)

Return(res) == at' = "done" /\ result' = res

\* Write fails when there is no scenario at all.
NothingWritten ==
  /\ PassDone
  /\ catalogue = {}
  /\ Return("error")
  /\ UNCHANGED <<poolVars, round, previous, targets, counts, boardVars, ctxDone>>

StartReview ==
  /\ PassDone
  /\ catalogue # {}
  /\ at' = "reviewing"
  /\ round' = round + 1
  /\ UNCHANGED <<poolVars, previous, result, targets, counts, boardVars, ctxDone>>

\* review_emit replaces the findings.  A finding names a risk or one of its
\* scenarios, or neither that exists.
CriticEmits(reported) ==
  /\ at = "reviewing"
  /\ findings' = reported
  /\ UNCHANGED <<poolVars, cycleVars, catalogue, gaps, ctxDone>>

\* The Critic's loop ends in an error or is stopped: a gap, and the findings
\* stay what they were.
CriticCutShort ==
  /\ at = "reviewing"
  /\ gaps' = gaps \cup {<<Nobody, "review cut short">>}
  /\ at' = "deciding"
  /\ UNCHANGED <<poolVars, round, previous, result, targets, counts, catalogue,
                 findings, ctxDone>>

CriticCompletes ==
  /\ at = "reviewing"
  /\ at' = "deciding"
  /\ UNCHANGED <<poolVars, round, previous, result, targets, counts, boardVars,
                 ctxDone>>

\* countBlocking.
Blocking == Cardinality({i \in DOMAIN findings : findings[i].blocking})

Approve ==
  /\ at = "deciding"
  /\ Blocking = 0
  /\ Return("ok")
  /\ UNCHANGED <<poolVars, round, previous, targets, counts, boardVars, ctxDone>>

\* Mutant of NotConverging: an equal count passes for a decrease.
NotConvergingStrictly == previous >= 0 /\ Blocking > previous

NotConverging == previous >= 0 /\ Blocking >= previous

\* Mutant of GiveUp: the round cap ends the cycle without a word.
GiveUpQuietly ==
  /\ at = "deciding"
  /\ Blocking > 0
  /\ \/ NotConverging /\ gaps' = gaps \cup {<<Nobody, "did not decrease">>}
     \/ ~NotConverging /\ round = MaxRounds /\ UNCHANGED gaps
  /\ Return("ok")
  /\ UNCHANGED <<poolVars, round, previous, targets, counts, catalogue, findings,
                 ctxDone>>

\* The count did not decrease, or the rounds are spent: what is left is listed
\* in the report.
GiveUp ==
  /\ at = "deciding"
  /\ Blocking > 0
  /\ \/ NotConverging /\ gaps' = gaps \cup {<<Nobody, "did not decrease">>}
     \/ /\ ~NotConverging /\ round = MaxRounds
        /\ gaps' = gaps \cup {<<Nobody, "rounds spent">>}
  /\ Return("ok")
  /\ previous' = IF NotConverging THEN previous ELSE Blocking
  /\ UNCHANGED <<poolVars, round, targets, counts, catalogue, findings, ctxDone>>

\* Mutant of Flagged: the severity is not looked at.
FlaggedAtAll == {r \in Risks : \E i \in DOMAIN findings : findings[i].target = SlugOf[r]}

\* The risks that Author.Revise traces the blocking findings to.
Flagged ==
  {r \in Risks : \E i \in DOMAIN findings :
     findings[i].blocking /\ findings[i].target = SlugOf[r]}

MayRevise ==
  /\ at = "deciding"
  /\ Blocking > 0
  /\ ~NotConverging
  /\ round < MaxRounds
  /\ previous' = Blocking
  /\ counts' = Append(counts, Blocking)

Revise ==
  /\ MayRevise
  /\ Flagged # {}
  /\ at' = "writing"
  /\ todo' = Flagged
  /\ targets' = Flagged
  /\ written' = {}
  /\ UNCHANGED <<worker, numbered, round, result, boardVars, ctxDone>>

\* Nothing to redo: a gap, and the next round's review.
ReviseNothing ==
  /\ MayRevise
  /\ Flagged = {}
  /\ gaps' = gaps \cup {<<Nobody, "untraceable">>}
  /\ at' = "reviewing"
  /\ round' = round + 1
  /\ UNCHANGED <<poolVars, result, targets, catalogue, findings, ctxDone>>

ContextEnds ==
  /\ ~ctxDone
  /\ ctxDone' = TRUE
  /\ UNCHANGED <<poolVars, cycleVars, boardVars>>

Terminated == at = "done" /\ UNCHANGED vars

Work(w) ==
  \/ \E k \in 1..MaxBatch : Emit(w, k) \/ EmitRefused(w, k)
  \/ WriteCutShort(w)
  \/ WriteCompletes(w)

Next ==
  \/ \E w \in Workers : TakeRisk(w) \/ Work(w)
  \/ DispatchStops
  \/ NothingWritten
  \/ StartReview
  \/ \E reported \in Reports : CriticEmits(reported)
  \/ CriticCutShort
  \/ CriticCompletes
  \/ Approve
  \/ GiveUp
  \/ Revise
  \/ ReviseNothing
  \/ ContextEnds
  \/ Terminated

Spec == Init /\ [][Next]_vars

\* Every goroutine that can go on does; the loops of author and critic end
\* because they have budgets (module AgentLoop).  The context need not end.
FairSpec ==
  /\ Spec
  /\ \A w \in Workers : WF_vars(TakeRisk(w)) /\ WF_vars(Work(w))
  /\ WF_vars(NothingWritten \/ StartReview)
  /\ WF_vars(CriticCutShort \/ CriticCompletes)
  /\ WF_vars(Approve \/ GiveUp \/ Revise \/ ReviseNothing)

-----------------------------------------------------------------------------
(* Properties. *)

Reasons == {"no priority", "cancelled", "cut short", "no scenario",
            "review cut short", "did not decrease", "rounds spent",
            "untraceable"}

PoolTypes ==
  /\ todo \subseteq Risks
  /\ worker \in [Workers -> Risks \cup {Idle}]
  /\ numbered \in [Workers -> Nat]
  /\ written \subseteq Risks

CycleTypes ==
  /\ at \in {"writing", "reviewing", "deciding", "done"}
  /\ round \in 0..MaxRounds
  /\ previous \in Nat \cup {-1}
  /\ result \in {"none", "ok", "error"}
  /\ targets \subseteq Risks
  /\ counts \in Seq(Nat)
  /\ ctxDone \in BOOLEAN

BoardTypes ==
  /\ catalogue \subseteq [slug : Slugs, number : Nat \ {0}, owner : Risks,
                         draft : {"first", "revised"}]
  /\ findings \in Seq(Finding)
  /\ gaps \subseteq (Slugs \cup {Nobody}) \X Reasons

\* Types of the pool, the cycle and the blackboard.
TypeOK == PoolTypes /\ CycleTypes /\ BoardTypes

\* No two scenarios share an identifier, whatever was refused, retried and
\* revised: the ledger of published tickets is keyed by it (AddScenarios).
UniqueIds == \A s, t \in catalogue : SameId(s, t) => s = t

HasGap(subject) == \E why \in Reasons : <<subject, why>> \in gaps

\* No risk that a worker took is lost: its identifier has a scenario or a gap,
\* however its loop ended (writeForRisk).
RiskAccounted ==
  \A r \in written :
    (\E s \in catalogue : s.slug = SlugOf[r]) \/ HasGap(SlugOf[r])

\* The cycle never ends well over open blocking findings without telling the
\* reader of the report (RevisionCycle.Run).
OpenFindingsNoted ==
  result = "ok" /\ Blocking > 0 =>
    <<Nobody, "did not decrease">> \in gaps \/ <<Nobody, "rounds spent">> \in gaps

\* Each revision was called for by fewer blocking findings than the one before
\* it, and fewer than MaxRounds revisions are made (RevisionCycle).
RevisionsConverge ==
  /\ Len(counts) < MaxRounds
  /\ \A i, j \in DOMAIN counts : i < j => counts[j] < counts[i]

\* A revision takes no scenario from the catalogue but those of risks that a
\* blocking finding was traced to (Author.Revise).
OnlyFlaggedRewritten ==
  [][round > 0 => \A s \in catalogue \ catalogue' :
       \E i \in DOMAIN findings : findings[i].blocking /\ findings[i].target = s.slug]_vars

\* The phase comes to an end, whatever the critic finds.
CycleEnds == <>(at = "done")

\* What tool/emit says of the risk it is given, that traceability is exact, and
\* the pipeline of its postcondition: after Write, each prioritised risk has a
\* scenario written for it or is listed as a gap.
EachRiskCovered ==
  at = "reviewing" /\ round = 1 /\ ~ctxDone =>
    \A r \in targets : (\E s \in catalogue : s.owner = r) \/ HasGap(SlugOf[r])
=============================================================================
