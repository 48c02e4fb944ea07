---------------------------- MODULE AnalystPhase ----------------------------
(***************************************************************************)
(* The analyse phase (agent/analyst.go): the fan-out of FanOut, each job   *)
(* being analyseOne on one selected file.  The deterministic pass comes    *)
(* first, then the agent loop (module AgentLoop, here only what it leaves  *)
(* on the blackboard and how it ends), then the check that an analysis was *)
(* really recorded.  The emit tool writes the component of the worker's    *)
(* own file only, so components are a set of files.                        *)
(***************************************************************************)
EXTENDS FanOut

CONSTANT GoFiles  \* the files the parser may resolve

ASSUME AnalystAssumption == GoFiles \subseteq Jobs

VARIABLES
  stage,      \* of the job of each worker: "parse", "loop" or "check"
  resolved,   \* files whose base model came from the parser
  components, \* files with a component model on the blackboard
  gaps,       \* pairs of a file and why it is incomplete
  reasons,    \* how many failure reasons were collected
  result,     \* what Analyse returned
  \* history, read by the properties only
  emitted,    \* files whose agent recorded its analysis
  salvaged    \* files recorded from the parser alone

boardVars == <<resolved, components, gaps, reasons, emitted, salvaged>>
vars == <<poolVars, stage, boardVars, result>>

Init ==
  /\ PoolInit
  /\ stage = [w \in Workers |-> "parse"]
  /\ resolved = {}
  /\ components = {}
  /\ gaps = {}
  /\ reasons = 0
  /\ result = "none"
  /\ emitted = {}
  /\ salvaged = {}

At(w, here) == Busy(w) /\ stage[w] = here
Go(w, there) == stage' = [stage EXCEPT ![w] = there]
NoteGap(w, why) == gaps' = gaps \cup {<<worker[w], why>>}

TakeFile(w) ==
  /\ HandOver(w)
  /\ Go(w, "parse")
  /\ UNCHANGED <<boardVars, result>>

\* The file is read and parsed; failing that, or in another language, the base
\* model is syntactic.
Parse(w) ==
  /\ At(w, "parse")
  /\ \/ worker[w] \in GoFiles /\ resolved' = resolved \cup {worker[w]}
     \/ UNCHANGED resolved
  /\ Go(w, "loop")
  /\ UNCHANGED <<poolVars, components, gaps, reasons, emitted, salvaged, result>>

\* The agent calls analysis_emit_component, perhaps more than once.
Emit(w) ==
  /\ At(w, "loop")
  /\ components' = components \cup {worker[w]}
  /\ emitted' = emitted \cup {worker[w]}
  /\ UNCHANGED <<poolVars, stage, resolved, gaps, reasons, salvaged, result>>

\* The loop returns an error: a gap and a reason, and nothing else.
LoopFails(w) ==
  /\ At(w, "loop")
  /\ NoteGap(w, "failed")
  /\ reasons' = reasons + 1
  /\ FinishJob(w)
  /\ UNCHANGED <<stage, resolved, components, emitted, salvaged, result>>

\* A guard or the context stops the loop.
LoopStops(w) ==
  /\ At(w, "loop")
  /\ NoteGap(w, "stopped early")
  /\ Go(w, "check")
  /\ UNCHANGED <<poolVars, resolved, components, reasons, emitted, salvaged,
                 result>>

LoopCompletes(w) ==
  /\ At(w, "loop")
  /\ Go(w, "check")
  /\ UNCHANGED <<poolVars, boardVars, result>>

\* Mutant of Recorded: ask how the loop ended, not the blackboard.
RecordedUnlessStopped(w) == <<worker[w], "stopped early">> \notin gaps

\* componentWasRecorded.
Recorded(w) == worker[w] \in components

AcceptRecorded(w) ==
  /\ At(w, "check")
  /\ Recorded(w)
  /\ FinishJob(w)
  /\ UNCHANGED <<stage, boardVars, result>>

\* Mutant of Salvage: no gap.
SalvageQuietly(w) ==
  /\ At(w, "check")
  /\ ~Recorded(w)
  /\ worker[w] \in resolved
  /\ components' = components \cup {worker[w]}
  /\ salvaged' = salvaged \cup {worker[w]}
  /\ FinishJob(w)
  /\ UNCHANGED <<stage, resolved, gaps, reasons, emitted, result>>

\* Nothing was recorded: the parser's structure is, with a gap that says so.
Salvage(w) ==
  /\ At(w, "check")
  /\ ~Recorded(w)
  /\ worker[w] \in resolved
  /\ components' = components \cup {worker[w]}
  /\ salvaged' = salvaged \cup {worker[w]}
  /\ NoteGap(w, "parser alone")
  /\ FinishJob(w)
  /\ UNCHANGED <<stage, resolved, reasons, emitted, result>>

GiveUp(w) ==
  /\ At(w, "check")
  /\ ~Recorded(w)
  /\ worker[w] \notin resolved
  /\ NoteGap(w, "nothing recorded")
  /\ reasons' = reasons + 1
  /\ FinishJob(w)
  /\ UNCHANGED <<stage, resolved, components, emitted, salvaged, result>>

\* Partial analysis is a legitimate outcome; no component at all is an error.
Answer ==
  /\ Return
  /\ result' = IF components = {} THEN "error" ELSE "ok"
  /\ UNCHANGED <<stage, boardVars>>

\* The steps of the pool that leave the blackboard alone.
Pool ==
  /\ \/ \E w \in Workers : WorkerExits(w)
     \/ DispatchEnds
     \/ DispatchStops
     \/ ContextEnds
  /\ UNCHANGED <<stage, boardVars, result>>

Terminated ==
  /\ dispatcher = "returned"
  /\ UNCHANGED vars

Work(w) ==
  \/ Parse(w)
  \/ Emit(w)
  \/ LoopFails(w)
  \/ LoopStops(w)
  \/ LoopCompletes(w)
  \/ AcceptRecorded(w)
  \/ Salvage(w)
  \/ GiveUp(w)

Next ==
  \/ \E w \in Workers : TakeFile(w) \/ Work(w)
  \/ Pool
  \/ Answer
  \/ Terminated

Spec == Init /\ [][Next]_vars

\* Every goroutine that can go on does.  A worker's job ends because its loop
\* has a budget (module AgentLoop); the context need not end.
FairSpec ==
  /\ Spec
  /\ \A w \in Workers :
       /\ WF_vars(TakeFile(w))
       /\ WF_vars(Work(w))
       /\ WF_vars(WorkerExits(w) /\ UNCHANGED <<stage, boardVars, result>>)
  /\ WF_vars((DispatchEnds \/ DispatchStops)
             /\ UNCHANGED <<stage, boardVars, result>>)
  /\ WF_vars(Answer)

-----------------------------------------------------------------------------
(* Properties. *)

Reasons == {"failed", "stopped early", "parser alone", "nothing recorded"}

TypeOK ==
  /\ PoolTypes
  /\ stage \in [Workers -> {"parse", "loop", "check"}]
  /\ resolved \subseteq GoFiles
  /\ components \subseteq Jobs /\ emitted \subseteq Jobs /\ salvaged \subseteq Jobs
  /\ gaps \subseteq Jobs \X Reasons
  /\ reasons \in Nat
  /\ result \in {"none", "ok", "error"}

HasGap(j) == \E why \in Reasons : <<j, why>> \in gaps

\* No file that a worker took is lost: it has a component or a gap, whatever
\* its loop did and whatever the other workers were doing (analyseOne).
TakenAccounted == \A j \in finished : j \in components \/ HasGap(j)

\* A structural summary never passes for an analysis, nor replaces one: what
\* was salvaged was not emitted, and says that it came from the parser alone.
SalvageIsHonest ==
  \A j \in salvaged :
    j \notin emitted /\ j \in components /\ <<j, "parser alone">> \in gaps

\* The phase comes to an end, cancelled or not.
Returns == <>(dispatcher = "returned")
=============================================================================
