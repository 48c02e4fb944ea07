---------------------------- MODULE Orchestrator ----------------------------
(***************************************************************************)
(* The run of the pipeline (orchestrator/orchestrator.go): the phases are  *)
(* put in topological order by a depth-first walk, which is modelled call  *)
(* by call, and then executed one after the other, a checkpoint of the     *)
(* blackboard being written after each.                                    *)
(*                                                                         *)
(* A phase is its name, a number, so that sort.Strings is the order of the *)
(* numbers.  What a phase does is left to its own module: here it returns  *)
(* and meets its postcondition, or does not, cancelled or not.  The        *)
(* blackboard is the work of the phases that ran and the gaps noted here.  *)
(***************************************************************************)
EXTENDS Integers, Sequences, FiniteSets

CONSTANTS
  Names,      \* phase names
  Pipelines   \* the pipelines AddPhase may have built: the names in the order
              \*   of declaration, what each depends on, which are optional

ASSUME OrchestratorAssumption ==
  /\ Names \subseteq Nat
  /\ \A pl \in Pipelines :
       /\ pl.declared \in Seq(Names)
       /\ pl.dependsOn \in [Names -> SUBSET Nat]

VARIABLES
  pipeline,  \* Orchestrator.phases
  pc,        \* "sorting", "between" phases, "running" one, "settling" its
             \*   result, or how the run ended: "done", "aborted", "refused"
  \* topologicalOrder
  visited,   \* the phases walked through
  path,      \* the calls of visit under way, outermost first
  ordered,   \* the order so far
  \* Run
  position,  \* in ordered, of the phase to be taken next or under way
  status,    \* of each phase: its result, or "waiting" or "running"
  completed, \* completedPhases
  board,     \* what the blackboard holds
  snapshot,  \* what the last checkpoint written holds
  savedAt    \* history, read by the properties only: its phase's position

sortVars == <<visited, path, ordered>>
runVars == <<position, status, completed, board, snapshot, savedAt>>
vars == <<pipeline, pc, sortVars, runVars>>

Work(p) == <<"work", p>>
Gap(p) == <<"gap", p>>

Init ==
  /\ pipeline \in Pipelines
  /\ pc = "sorting"
  /\ visited = {}
  /\ path = <<>>
  /\ ordered = <<>>
  /\ position = 1
  /\ status = [p \in Names |-> "waiting"]
  /\ completed = {}
  /\ board = {}
  /\ snapshot = {}
  /\ savedAt = 0

Declared == {pipeline.declared[i] : i \in 1..Len(pipeline.declared)}
DependsOn(p) == pipeline.dependsOn[p]

-----------------------------------------------------------------------------
(* topologicalOrder *)

Malformed ==
  \/ \E i, j \in 1..Len(pipeline.declared) :
       i # j /\ pipeline.declared[i] = pipeline.declared[j]
  \/ \E p \in Declared : ~(DependsOn(p) \subseteq Declared)

Refuse ==
  /\ pc' = "refused"
  /\ UNCHANGED <<pipeline, sortVars, runVars>>

\* A name declared twice, or a dependency that is not declared.
RefuseMalformed ==
  /\ pc = "sorting"
  /\ path = <<>> /\ visited = {}
  /\ Malformed
  /\ Refuse

OnPath(p) == \E i \in 1..Len(path) : path[i] = p

\* visit returns at once from a phase that is visited.
FirstUnvisited(p) ==
  \E i \in 1..Len(pipeline.declared) :
    /\ p = pipeline.declared[i] /\ p \notin visited
    /\ \A j \in 1..(i - 1) : pipeline.declared[j] \in visited

Enter(p) ==
  /\ path' = Append(path, p)
  /\ UNCHANGED <<pipeline, pc, visited, ordered, runVars>>

\* The loop over the declared phases.
VisitDeclared(p) ==
  /\ pc = "sorting"
  /\ ~Malformed
  /\ path = <<>>
  /\ FirstUnvisited(p)
  /\ Enter(p)

Current == path[Len(path)]

\* Mutant of Pending: a phase under way counts as visited.
PendingNotOnPath(p) == {d \in DependsOn(p) \ visited : ~OnPath(d)}

Pending(p) == DependsOn(p) \ visited

\* Mutant of NextDependency: the dependencies are not sorted.
NextDependencyAny(d) ==
  pc = "sorting" /\ path # <<>> /\ d \in Pending(Current)

\* The loop over the current phase's dependencies, in the order of their names.
NextDependency(d) ==
  /\ pc = "sorting"
  /\ path # <<>>
  /\ d \in Pending(Current)
  /\ \A e \in Pending(Current) : d <= e

VisitDependency(d) ==
  /\ NextDependency(d)
  /\ ~OnPath(d)
  /\ Enter(d)

RefuseCycle(d) ==
  /\ NextDependency(d)
  /\ OnPath(d)
  /\ Refuse

\* Every dependency is visited: the phase is next in the order.
Leave ==
  /\ pc = "sorting"
  /\ path # <<>>
  /\ Pending(Current) = {}
  /\ visited' = visited \cup {Current}
  /\ ordered' = Append(ordered, Current)
  /\ path' = SubSeq(path, 1, Len(path) - 1)
  /\ UNCHANGED <<pipeline, pc, runVars>>

Sorted ==
  /\ pc = "sorting"
  /\ ~Malformed
  /\ path = <<>>
  /\ Declared \subseteq visited
  /\ pc' = "between"
  /\ UNCHANGED <<pipeline, sortVars, runVars>>

-----------------------------------------------------------------------------
(* Run and runOnePhase *)

Phase == ordered[position]
HasNext == position <= Len(ordered)

\* Mutant of Unmet: one dependency is enough.
UnmetUnlessAny(p) == DependsOn(p) # {} /\ DependsOn(p) \cap completed = {}

\* firstUnmetDependency finds one.
Unmet(p) == ~(DependsOn(p) \subseteq completed)

\* Mutant of Advance: a phase is never left.
AdvanceNowhere == position' = position /\ pc' = "between"

Advance == position' = position + 1 /\ pc' = "between"

SkipPhase ==
  /\ pc = "between" /\ HasNext
  /\ Unmet(Phase)
  /\ status' = [status EXCEPT ![Phase] = "skipped"]
  /\ board' = board \cup {Gap(Phase)}
  /\ Advance
  /\ UNCHANGED <<pipeline, sortVars, completed, snapshot, savedAt>>

StartPhase ==
  /\ pc = "between" /\ HasNext
  /\ ~Unmet(Phase)
  /\ status' = [status EXCEPT ![Phase] = "running"]
  /\ pc' = "running"
  /\ UNCHANGED <<pipeline, sortVars, position, completed, board, snapshot,
                 savedAt>>

\* Mutant of WriteCheckpoint: the snapshot is taken before the phase runs.
WriteCheckpointBefore == snapshot' = board /\ savedAt' = position

\* Every checkpoint is a snapshot of the whole blackboard.
WriteCheckpoint == snapshot' = board' /\ savedAt' = position

\* The phase returns, its postcondition is evaluated, and the checkpoint is
\* written; failing to write one, or having no writer, changes nothing else.
EndPhase(result) ==
  /\ pc = "running"
  /\ status' = [status EXCEPT ![Phase] = result]
  /\ board' = board \cup {Work(Phase)}
  /\ WriteCheckpoint \/ UNCHANGED <<snapshot, savedAt>>
  /\ pc' = "settling"
  /\ UNCHANGED <<pipeline, sortVars, position, completed>>

SettleSuccess ==
  /\ pc = "settling"
  /\ status[Phase] = "ok"
  /\ completed' = completed \cup {Phase}
  /\ Advance
  /\ UNCHANGED <<pipeline, sortVars, status, board, snapshot, savedAt>>

SettleFailure ==
  /\ pc = "settling"
  /\ status[Phase] = "failed"
  /\ board' = board \cup {Gap(Phase)}
  /\ IF Phase \in pipeline.optional
       THEN Advance
       ELSE pc' = "aborted" /\ UNCHANGED position
  /\ UNCHANGED <<pipeline, sortVars, status, completed, snapshot,
                 savedAt>>

RunEnds ==
  /\ pc = "between" /\ ~HasNext
  /\ pc' = "done"
  /\ UNCHANGED <<pipeline, sortVars, runVars>>

Ended == {"done", "aborted", "refused"}

Terminated == pc \in Ended /\ UNCHANGED vars

Sort ==
  \/ RefuseMalformed
  \/ \E p \in Names : VisitDeclared(p)
  \/ \E d \in Names : VisitDependency(d) \/ RefuseCycle(d)
  \/ Leave
  \/ Sorted

Run ==
  \/ SkipPhase
  \/ StartPhase
  \/ EndPhase("ok")
  \/ EndPhase("failed")
  \/ SettleSuccess
  \/ SettleFailure
  \/ RunEnds

Next == Sort \/ Run \/ Terminated

Spec == Init /\ [][Next]_vars

\* Run is one goroutine, and a phase returns: its loops have budgets.
FairSpec == Spec /\ WF_vars(Sort \/ Run)

-----------------------------------------------------------------------------
(* Properties. *)

Elements(s) == {s[i] : i \in 1..Len(s)}

TypeOK ==
  /\ pipeline \in Pipelines
  /\ pc \in {"sorting", "between", "running", "settling"} \cup Ended
  /\ visited \subseteq Names
  /\ path \in Seq(Names) /\ ordered \in Seq(Names)
  /\ position \in 1..(Len(ordered) + 1)
  /\ pc \in {"running", "settling"} => HasNext
  /\ status \in [Names -> {"waiting", "running", "ok", "failed", "skipped"}]
  /\ completed \subseteq Names
  /\ board \subseteq {"work", "gap"} \X Names /\ snapshot \subseteq board
  /\ savedAt \in 0..position

\* The order holds every phase once, after all it depends on
\* (topologicalOrder): so far while it is being made, and whole in the end.
OrderSound ==
  /\ \A i, j \in 1..Len(ordered) : i # j => ordered[i] # ordered[j]
  /\ \A i \in 1..Len(ordered) :
       \A d \in DependsOn(ordered[i]) : \E j \in 1..(i - 1) : ordered[j] = d
  /\ pc \notin {"sorting", "refused"} => Elements(ordered) = Declared

\* What is needed, directly or not, for the phases of part.
Needs(part) ==
  {q \in Declared :
     \A closed \in SUBSET Declared :
       part \subseteq closed /\ (\A p \in closed : DependsOn(p) \subseteq closed)
         => q \in closed}

\* The ways to phase p: from a declared phase by one dependency after another.
Routes(p) ==
  {r \in UNION {[1..n -> Declared] : n \in 1..Len(pipeline.declared)} :
     /\ \A i \in 1..(Len(r) - 1) : r[i + 1] \in DependsOn(r[i])
     /\ r[Len(r)] = p}

DeclaredBefore(p, q) ==
  \E i, j \in 1..Len(pipeline.declared) :
    i < j /\ pipeline.declared[i] = p /\ pipeline.declared[j] = q

\* Where two ways part, this one goes to the phase declared earlier, at the
\* outset, or to the dependency whose name comes first.
TakenBefore(r, s) ==
  \E i \in 1..Len(r) :
    /\ i <= Len(s)
    /\ \A j \in 1..(i - 1) : r[j] = s[j]
    /\ IF i = 1 THEN DeclaredBefore(r[1], s[1]) ELSE r[i] < s[i]

\* Runs are reproducible (topologicalOrder): which of two phases comes first
\* follows from the declaration and the names alone.  It is the one that the
\* other needs, or else the one to which some way is taken before every way to
\* the other.  It need not be the one declared first, though neither needs the
\* other: of A, B and C, where A depends on C, the order is C, A, B.
OrderFixed ==
  \A k \in 1..Len(ordered), q \in Declared :
    (\A j \in 1..k : ordered[j] # q) =>
      \/ ordered[k] \in Needs({q})
      \/ \E r \in Routes(ordered[k]) : \A s \in Routes(q) : TakenBefore(r, s)

\* A checkpoint is whole, whatever earlier writes failed: it holds the work of
\* every phase that ran up to the one it is named after, and the gaps of those
\* before it (writeCheckpoint).
CheckpointWhole ==
  \A i \in 1..savedAt :
    /\ Work(ordered[i]) \in board => Work(ordered[i]) \in snapshot
    /\ i < savedAt /\ Gap(ordered[i]) \in board => Gap(ordered[i]) \in snapshot

Dag == INSTANCE PhaseDag WITH
  end <- IF pc \in Ended THEN pc ELSE "open"

\* The run keeps its contract, module PhaseDag.
KeepsDag == Dag!Spec

\* The walk and the run come to an end, on whatever graph.
Ends == <>(pc \in Ended)
=============================================================================
