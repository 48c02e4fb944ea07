------------------------- MODULE AnalystPhaseProofs -------------------------
(***************************************************************************)
(* The fan-out keeps its contract (module JobPool), for every number of    *)
(* jobs and every finite set of workers; the analyse phase is a fan-out,   *)
(* so it keeps the contract too, no file a worker took is lost, and no     *)
(* structural summary passes for an analysis.                              *)
(*                                                                         *)
(* The fan-out's invariant says where the jobs are: the ones sent are      *)
(* finished or with exactly one worker, and no other is with a worker.     *)
(* The bound on the concurrency comes from it by counting: the jobs that   *)
(* run are the image of the busy workers.  The honesty of the phase needs  *)
(* it too: a file is salvaged by the worker that finishes it, and no       *)
(* second worker can emit for it afterwards.                               *)
(***************************************************************************)
EXTENDS AnalystPhase, TLAPS, FiniteSetTheorems

\* A job that was sent is finished or with a worker, never both and never
\* with two.
Placed ==
  /\ finished \subseteq 1..sent
  /\ \A j \in 1..sent : j \in finished \/ \E w \in Workers : worker[w] = j
  /\ \A w \in Workers : Busy(w) => worker[w] \in (1..sent) \ finished
  /\ \A v, w \in Workers : Busy(v) /\ worker[v] = worker[w] => v = w

\* The channel is closed when every job is sent or the context is done; the
\* phase has its answer when no worker is left.
Ended ==
  /\ dispatcher # "dispatching" => sent = JobCount \/ ctxDone
  /\ dispatcher = "returned" => \A w \in Workers : worker[w] = Exited

PoolInv == PoolTypes /\ Placed /\ Ended

LEMMA InitPool == PoolInit => PoolInv
<1> SUFFICES ASSUME PoolInit PROVE PoolInv
  OBVIOUS
<1> USE FanOutAssumption DEF PoolInit
<1>1. PoolTypes
  <2>1. ctxDone \in BOOLEAN
    OBVIOUS
  <2> QED BY <2>1 DEF PoolTypes, Jobs
<1>2. Placed
  BY DEF Placed, Busy
<1>3. Ended
  BY DEF Ended
<1> QED
  BY <1>1, <1>2, <1>3 DEF PoolInv

LEMMA StepPool ==
  ASSUME PoolInv, PoolNext
  PROVE  PoolInv'
<1> USE FanOutAssumption DEF PoolInv, PoolTypes, Jobs
<1>1. ASSUME NEW w \in Workers, HandOver(w) PROVE PoolInv'
  <2> USE <1>1 DEF HandOver
  <2>1. sent' = sent + 1 /\ sent + 1 \in Jobs /\ sent \in Nat
    OBVIOUS
  <2>2. PoolTypes'
    BY <2>1
  <2>3. Placed'
    <3>1. /\ worker'[w] = sent'
          /\ \A v \in Workers : v # w => worker'[v] = worker[v]
      OBVIOUS
    <3>2. \A v \in Workers : Busy(v) => worker[v] # sent'
      BY <2>1 DEF Placed
    <3>3. \A j \in 1..sent' : j \in 1..sent \/ j = sent'
      BY <2>1
    <3>4. ~Busy(w)
      BY DEF Busy
    <3> QED BY <2>1, <3>1, <3>2, <3>3, <3>4 DEF Placed, Busy
  <2>4. Ended'
    BY DEF Ended
  <2> QED BY <2>2, <2>3, <2>4
<1>2. ASSUME NEW w \in Workers, FinishJob(w) PROVE PoolInv'
  <2> USE <1>2 DEF FinishJob, Busy
  <2>1. PoolTypes'
    OBVIOUS
  <2>2. Placed'
    BY DEF Placed
  <2>3. Ended'
    BY DEF Ended
  <2> QED BY <2>1, <2>2, <2>3
<1>3. ASSUME NEW w \in Workers, WorkerExits(w) PROVE PoolInv'
  <2> USE <1>3 DEF WorkerExits
  <2>1. PoolTypes'
    OBVIOUS
  <2>2. Placed'
    BY DEF Placed, Busy
  <2>3. Ended'
    BY DEF Ended
  <2> QED BY <2>1, <2>2, <2>3
<1>4. CASE DispatchEnds
  BY <1>4 DEF DispatchEnds, Placed, Ended, Busy
<1>5. CASE DispatchStops
  BY <1>5 DEF DispatchStops, Placed, Ended, Busy
<1>6. CASE Return
  BY <1>6 DEF Return, Placed, Ended, Busy
<1>7. CASE ContextEnds
  BY <1>7 DEF ContextEnds, Placed, Ended, Busy
<1> QED
  BY <1>1, <1>2, <1>3, <1>4, <1>5, <1>6, <1>7 DEF PoolNext

LEMMA NextPool == PoolInv /\ [PoolNext]_poolVars => PoolInv'
<1> SUFFICES ASSUME PoolInv, [PoolNext]_poolVars PROVE PoolInv'
  OBVIOUS
<1>1. CASE PoolNext
  BY <1>1, StepPool
<1>2. CASE UNCHANGED poolVars
  BY <1>2 DEF poolVars, PoolInv, PoolTypes, Placed, Ended, Busy
<1> QED
  BY <1>1, <1>2

\* An idle worker leaves room for a job: fewer jobs run than there are workers.
LEMMA RoomForOne ==
  ASSUME PoolInv, NEW w \in Workers, worker[w] = Idle
  PROVE  Cardinality(Contract!Running) < Cardinality(Workers)
<1> DEFINE S == {v \in Workers : Busy(v)}
           T == Contract!Running
           f == [v \in S |-> worker[v]]
<1>1. T = {worker[v] : v \in S}
  BY DEF Contract!Running, JobStatus, Busy
<1>2. f \in Surjection(S, T)
  BY <1>1 DEF Surjection
<1>3. S \subseteq Workers \ {w}
  BY FanOutAssumption DEF Busy
<1>4. /\ IsFiniteSet(Workers \ {w})
      /\ Cardinality(Workers \ {w}) = Cardinality(Workers) - 1
  BY FS_RemoveElement, FanOutAssumption
<1>5. IsFiniteSet(S) /\ Cardinality(S) <= Cardinality(Workers \ {w})
  BY <1>3, <1>4, FS_Subset
<1>6. IsFiniteSet(T) /\ Cardinality(T) <= Cardinality(S)
  BY <1>2, <1>5, FS_Surjection
<1>7. /\ Cardinality(T) \in Nat /\ Cardinality(S) \in Nat
      /\ Cardinality(Workers) \in Nat
  BY <1>5, <1>6, FanOutAssumption, FS_CardinalityType
<1> QED
  BY <1>4, <1>5, <1>6, <1>7

\* The status of every job under the refinement mapping.
StatusMap == [j \in Jobs |-> JobStatus(j)]

LEMMA StepRefines ==
  ASSUME PoolInv, PoolNext
  PROVE  Contract!Next \/ UNCHANGED Contract!vars
<1> USE FanOutAssumption DEF PoolInv, PoolTypes
<1>1. ASSUME NEW w \in Workers, HandOver(w)
      PROVE  Contract!Next
  <2>0. PICK j \in Jobs : j = sent + 1
    BY <1>1 DEF HandOver, Jobs
  <2>1. j \notin 1..sent /\ sent \in Nat
    BY <2>0 DEF Jobs
  <2>2. JobStatus(j) = "waiting"
    BY <2>1 DEF JobStatus, Placed, Busy
  <2>3. JobStatus(j)' = "running"
    BY <1>1, <2>0 DEF HandOver, JobStatus
  <2>4. ASSUME NEW i \in Jobs, i # j
        PROVE  JobStatus(i)' = JobStatus(i)
    <3>1. /\ worker'[w] = j /\ worker[w] = Idle
          /\ \A v \in Workers : v # w => worker'[v] = worker[v]
      BY <1>1, <2>0 DEF HandOver
    <3>2. (\E v \in Workers : worker'[v] = i) <=> \E v \in Workers : worker[v] = i
      BY <2>4, <3>1 DEF Jobs
    <3> QED BY <1>1, <3>2 DEF HandOver, JobStatus
  <2>5. StatusMap' = [StatusMap EXCEPT ![j] = "running"]
    BY <2>3, <2>4 DEF StatusMap
  <2>6. Cardinality(Contract!Running) < Cardinality(Workers)
    BY <1>1, RoomForOne DEF HandOver
  <2>7. Contract!Start(j)
    <3>1. StatusMap[j] = "waiting"
      BY <2>2 DEF StatusMap
    <3>2. dispatcher # "returned" /\ UNCHANGED <<ctxDone, dispatcher>>
      BY <1>1 DEF HandOver
    <3>3. Contract!Cardinality(Contract!Running) < Cardinality(Workers)
      BY <2>6 DEF Contract!Cardinality, Cardinality
    <3> QED BY ONLY <2>5, <3>1, <3>2, <3>3 DEF Contract!Start, StatusMap
  <2> QED BY <2>7 DEF Contract!Next
<1>2. ASSUME NEW w \in Workers, FinishJob(w)
      PROVE  Contract!Next
  <2>1. PICK j \in Jobs : j = worker[w]
    BY <1>2 DEF FinishJob, Busy
  <2>2. JobStatus(j) = "running"
    BY <2>1 DEF JobStatus
  <2>0. /\ worker'[w] = Idle
        /\ \A v \in Workers : v # w => worker'[v] = worker[v]
        /\ finished' = finished \cup {j}
    BY <1>2, <2>1 DEF FinishJob
  <2>3. JobStatus(j)' = "done"
    <3>1. ~\E v \in Workers : worker'[v] = j
      BY <2>0, <2>1 DEF Placed, Busy, Jobs
    <3> QED BY <2>0, <3>1 DEF JobStatus
  <2>4. ASSUME NEW i \in Jobs, i # j
        PROVE  JobStatus(i)' = JobStatus(i)
    <3>1. (\E v \in Workers : worker'[v] = i) <=> \E v \in Workers : worker[v] = i
      BY <2>0, <2>1, <2>4 DEF Jobs
    <3> QED BY <2>0, <2>4, <3>1 DEF JobStatus
  <2>5. StatusMap' = [StatusMap EXCEPT ![j] = "done"]
    BY <2>3, <2>4 DEF StatusMap
  <2>6. Contract!Finish(j)
    BY <1>2, <2>1, <2>2, <2>5 DEF FinishJob, Contract!Finish, StatusMap
  <2> QED BY <2>1, <2>6 DEF Contract!Next
<1>3. CASE Return
  <2>1. ASSUME NEW j \in Jobs
        PROVE  JobStatus(j) = "done" \/ (ctxDone /\ JobStatus(j) = "waiting")
    <3>1. ~\E w \in Workers : worker[w] = j
      BY <1>3 DEF Return
    <3>2. j \in finished \/ ctxDone
      BY <1>3, <3>1 DEF Return, Ended, Placed, Jobs
    <3> QED BY <3>1, <3>2 DEF JobStatus
  <2>2. UNCHANGED StatusMap
    BY <1>3 DEF Return, StatusMap, JobStatus
  <2>3. Contract!Answer
    BY <1>3, <2>1, <2>2 DEF Return, Contract!Answer, StatusMap
  <2> QED BY <2>3 DEF Contract!Next
<1>4. CASE ContextEnds
  <2>1. UNCHANGED StatusMap
    BY <1>4 DEF ContextEnds, StatusMap, JobStatus
  <2>2. Contract!Cancel
    BY <1>4, <2>1 DEF ContextEnds, Contract!Cancel, StatusMap
  <2> QED BY <2>2 DEF Contract!Next
<1>5. ASSUME \/ DispatchEnds \/ DispatchStops
             \/ \E w \in Workers : WorkerExits(w)
      PROVE  UNCHANGED Contract!vars
  <2>1. \A j \in Jobs : JobStatus(j)' = JobStatus(j)
    BY <1>5 DEF DispatchEnds, DispatchStops, WorkerExits, JobStatus
  <2>2. /\ UNCHANGED ctxDone
        /\ (dispatcher = "returned")' = (dispatcher = "returned")
    BY <1>5 DEF DispatchEnds, DispatchStops, WorkerExits
  <2> QED BY <2>1, <2>2 DEF Contract!vars
<1> QED
  BY <1>1, <1>2, <1>3, <1>4, <1>5 DEF PoolNext

\* The fan-out implements its contract.
THEOREM ContractHolds == PoolSpec => KeepsContract
<1>1. PoolInit => Contract!Init
  BY FanOutAssumption DEF PoolInit, Contract!Init, JobStatus, Jobs
<1>2. PoolInv /\ [PoolNext]_poolVars => [Contract!Next]_(Contract!vars)
  <2> SUFFICES ASSUME PoolInv, [PoolNext]_poolVars
               PROVE  Contract!Next \/ UNCHANGED Contract!vars
    OBVIOUS
  <2>1. CASE PoolNext
    BY <2>1, StepRefines
  <2>2. CASE UNCHANGED poolVars
    BY <2>2 DEF poolVars, Contract!vars, JobStatus
  <2> QED BY <2>1, <2>2
<1> QED
  BY <1>1, <1>2, InitPool, NextPool, PTL
     DEF PoolSpec, KeepsContract, Contract!Spec

-----------------------------------------------------------------------------

\* Every step of the phase is a step of the fan-out or leaves it alone.
LEMMA StepIsPoolStep == [Next]_vars => [PoolNext]_poolVars
<1> SUFFICES ASSUME [Next]_vars PROVE [PoolNext]_poolVars
  OBVIOUS
<1>1. ASSUME NEW w \in Workers, TakeFile(w) PROVE PoolNext
  BY <1>1 DEF TakeFile, PoolNext
<1>2. ASSUME NEW w \in Workers, Work(w) PROVE FinishJob(w) \/ UNCHANGED poolVars
  BY <1>2 DEF Work, Parse, Emit, LoopFails, LoopStops, LoopCompletes,
     AcceptRecorded, Salvage, GiveUp
<1>3. CASE Pool \/ Answer
  BY <1>3 DEF Pool, Answer, PoolNext
<1>4. CASE Terminated \/ UNCHANGED vars
  BY <1>4 DEF Terminated, vars
<1> QED
  BY <1>1, <1>2, <1>3, <1>4 DEF Next, PoolNext

\* The phase is a fan-out.
LEMMA PhaseIsPool == Spec => PoolSpec
<1>1. Init => PoolInit
  BY DEF Init
<1> QED
  BY <1>1, StepIsPoolStep, PTL DEF Spec, PoolSpec

\* The phase keeps the contract of a fan-out.
THEOREM PhaseKeepsContract == Spec => KeepsContract
  BY PhaseIsPool, ContractHolds

-----------------------------------------------------------------------------

\* What is on the blackboard, and where it may have come from.
Honest ==
  /\ SalvageIsHonest
  /\ emitted \subseteq components
  /\ salvaged \subseteq finished

PhaseInv == PoolInv /\ TypeOK /\ TakenAccounted /\ Honest

LEMMA InitPhase == Init => PhaseInv
<1> SUFFICES ASSUME Init PROVE PhaseInv
  OBVIOUS
<1>1. PoolInv
  BY InitPool DEF Init
<1>2. TypeOK
  BY <1>1 DEF Init, TypeOK, PoolInv
<1>3. TakenAccounted /\ Honest
  BY DEF Init, PoolInit, TakenAccounted, Honest, SalvageIsHonest
<1> QED
  BY <1>1, <1>2, <1>3 DEF PhaseInv

LEMMA StepTypes ==
  ASSUME PhaseInv, PoolInv', Next
  PROVE  TypeOK'
<1> USE DEF PhaseInv, TypeOK
<1>0. PoolTypes'
  BY DEF PoolInv
<1>1. ASSUME NEW w \in Workers, TakeFile(w) PROVE TypeOK'
  BY <1>0, <1>1 DEF TakeFile, Go, boardVars
<1>2. ASSUME NEW w \in Workers, Work(w) PROVE TypeOK'
  <2>0. ASSUME NEW why \in Reasons, Busy(w), NoteGap(w, why)
        PROVE  gaps' \subseteq Jobs \X Reasons
    BY <2>0 DEF NoteGap, Busy
  <2>00. {"failed", "stopped early", "parser alone", "nothing recorded"}
          \subseteq Reasons
    BY DEF Reasons
  <2> USE <1>2 DEF At
  <2>1. CASE Parse(w)
    BY <1>0, <2>1, AnalystAssumption DEF Parse, Go
  <2>2. CASE Emit(w)
    BY <1>0, <2>2 DEF Emit, Busy
  <2>3. CASE LoopFails(w)
    <3>1. gaps' \subseteq Jobs \X Reasons
      BY <2>0, <2>00, <2>3 DEF LoopFails
    <3> QED BY <1>0, <2>3, <3>1 DEF LoopFails, Busy
  <2>4. CASE LoopStops(w)
    <3>1. gaps' \subseteq Jobs \X Reasons
      BY <2>0, <2>00, <2>4 DEF LoopStops
    <3> QED BY <1>0, <2>4, <3>1 DEF LoopStops, Busy, Go
  <2>5. CASE LoopCompletes(w)
    BY <1>0, <2>5 DEF LoopCompletes, Go, boardVars
  <2>6. CASE AcceptRecorded(w)
    BY <1>0, <2>6 DEF AcceptRecorded, boardVars
  <2>7. CASE Salvage(w)
    <3>1. gaps' \subseteq Jobs \X Reasons
      BY <2>0, <2>00, <2>7 DEF Salvage
    <3> QED BY <1>0, <2>7, <3>1 DEF Salvage, Busy
  <2>8. CASE GiveUp(w)
    <3>1. gaps' \subseteq Jobs \X Reasons
      BY <2>0, <2>00, <2>8 DEF GiveUp
    <3>2. reasons' = reasons + 1
      BY ONLY <2>8 DEF GiveUp
    <3>4. reasons \in Nat
      OBVIOUS
    <3>5. reasons' \in Nat
      BY ONLY <3>2, <3>4
    <3>3. UNCHANGED <<stage, resolved, components, emitted, salvaged, result>>
      BY <2>8 DEF GiveUp
    <3> QED BY <1>0, <3>1, <3>5, <3>3
  <2> QED BY <2>1, <2>2, <2>3, <2>4, <2>5, <2>6, <2>7, <2>8 DEF Work
<1>3. CASE Pool
  BY <1>0, <1>3 DEF Pool, boardVars
<1>4. CASE Answer
  BY <1>0, <1>4 DEF Answer, boardVars
<1>5. CASE Terminated
  BY <1>0, <1>5 DEF Terminated, vars, boardVars
<1> QED
  BY <1>1, <1>2, <1>3, <1>4, <1>5 DEF Next

\* A file that finishes has its component or its gap by then, and neither is
\* ever taken back.
LEMMA StepAccounted ==
  ASSUME PhaseInv, Next
  PROVE  TakenAccounted'
<1> USE DEF PhaseInv, TakenAccounted, HasGap
<1>1. ASSUME NEW w \in Workers, TakeFile(w) PROVE TakenAccounted'
  BY <1>1 DEF TakeFile, HandOver, boardVars
<1>2. ASSUME NEW w \in Workers, Work(w) PROVE TakenAccounted'
  <2>1. components \subseteq components' /\ gaps \subseteq gaps'
    BY <1>2 DEF Work, Parse, Emit, LoopFails, LoopStops, LoopCompletes,
       AcceptRecorded, Salvage, GiveUp, NoteGap, boardVars
  <2>2. \/ UNCHANGED finished
        \/ /\ finished' = finished \cup {worker[w]}
           /\ \/ worker[w] \in components'
              \/ \E why \in Reasons : <<worker[w], why>> \in gaps'
    BY <1>2 DEF Work, Parse, Emit, LoopFails, LoopStops, LoopCompletes,
       AcceptRecorded, Salvage, GiveUp, NoteGap, Recorded, FinishJob, poolVars,
       boardVars, Reasons
  <2> QED BY <2>1, <2>2
<1>3. CASE Pool \/ Answer \/ Terminated
  BY <1>3 DEF Pool, Answer, Terminated, WorkerExits, DispatchEnds,
     DispatchStops, Return, ContextEnds, vars, poolVars, boardVars
<1> QED
  BY <1>1, <1>2, <1>3 DEF Next

LEMMA StepHonest ==
  ASSUME PhaseInv, Next
  PROVE  Honest'
<1> USE DEF PhaseInv, Honest, SalvageIsHonest
<1>1. ASSUME NEW w \in Workers, TakeFile(w) PROVE Honest'
  BY <1>1 DEF TakeFile, HandOver, boardVars
<1>2. ASSUME NEW w \in Workers, Emit(w) PROVE Honest'
  <2>1. worker[w] \notin salvaged
    BY <1>2 DEF Emit, At, PoolInv, Placed
  <2> QED BY <1>2, <2>1 DEF Emit, poolVars
<1>3. ASSUME NEW w \in Workers, Salvage(w) PROVE Honest'
  BY <1>3 DEF Salvage, Recorded, NoteGap, FinishJob
<1>4. ASSUME NEW w \in Workers,
             \/ Parse(w) \/ LoopFails(w) \/ LoopStops(w) \/ LoopCompletes(w)
             \/ AcceptRecorded(w) \/ GiveUp(w)
      PROVE  Honest'
  BY <1>4 DEF Parse, LoopFails, LoopStops, LoopCompletes, AcceptRecorded,
     GiveUp, NoteGap, FinishJob, poolVars, boardVars
<1>5. CASE Pool \/ Answer \/ Terminated
  BY <1>5 DEF Pool, Answer, Terminated, WorkerExits, DispatchEnds,
     DispatchStops, Return, ContextEnds, vars, poolVars, boardVars
<1> QED
  BY <1>1, <1>2, <1>3, <1>4, <1>5 DEF Next, Work

LEMMA NextPhase == PhaseInv /\ [Next]_vars => PhaseInv'
<1> SUFFICES ASSUME PhaseInv, [Next]_vars PROVE PhaseInv'
  OBVIOUS
<1>1. PoolInv'
  BY StepIsPoolStep, NextPool DEF PhaseInv
<1>2. CASE Next
  BY <1>1, <1>2, StepTypes, StepAccounted, StepHonest DEF PhaseInv
<1>3. CASE UNCHANGED vars
  BY <1>1, <1>3 DEF PhaseInv, vars, boardVars, poolVars, TypeOK, PoolInv,
     TakenAccounted, HasGap, Honest, SalvageIsHonest
<1> QED
  BY <1>2, <1>3

LEMMA PhaseInvariant == Spec => []PhaseInv
  BY InitPhase, NextPhase, PTL DEF Spec

\* The pool's and the blackboard's state keep their types.
THEOREM AnalystTypes == Spec => []TypeOK
<1>1. PhaseInv => TypeOK
  BY DEF PhaseInv
<1> QED BY <1>1, PhaseInvariant, PTL

\* No file that a worker took is lost.
THEOREM NoTakenFileLost == Spec => []TakenAccounted
<1>1. PhaseInv => TakenAccounted
  BY DEF PhaseInv
<1> QED BY <1>1, PhaseInvariant, PTL

\* What was salvaged says so and replaced nothing.
THEOREM SalvageHonest == Spec => []SalvageIsHonest
<1>1. PhaseInv => SalvageIsHonest
  BY DEF PhaseInv, Honest
<1> QED BY <1>1, PhaseInvariant, PTL
=============================================================================
