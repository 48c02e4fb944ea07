------------------------------- MODULE FanOut -------------------------------
(***************************************************************************)
(* The bounded fan-out of the Analyst (agent/analyst.go, Analyse) and of   *)
(* the Author (agent/author.go, writeForRisks): a dispatcher offers the    *)
(* jobs in order on an unbuffered channel that the workers range over,     *)
(* gives up when the phase's context is done, closes the channel and waits *)
(* for the workers.                                                        *)
(*                                                                         *)
(* A job is its position in the list.  What a worker does with one is left *)
(* to the module that EXTENDS this one; here it ends sooner or later.      *)
(***************************************************************************)
EXTENDS Integers, FiniteSets

CONSTANTS
  JobCount,   \* files selected by the survey, or risks to write for
  Workers,    \* the goroutines
  Idle,       \* a worker at the channel
  Exited      \* a worker whose goroutine has returned

Jobs == 1..JobCount

ASSUME FanOutAssumption ==
  /\ JobCount \in Nat
  /\ IsFiniteSet(Workers) /\ Workers # {}
  /\ Idle \notin Jobs /\ Exited \notin Jobs /\ Idle # Exited

VARIABLES
  dispatcher, \* "dispatching", "waiting" for the workers, or "returned"
  sent,       \* how many jobs were handed over
  worker,     \* the job of each worker, or Idle, or Exited
  finished,   \* the jobs a worker is through with
  ctxDone     \* the phase's context is cancelled or past its deadline

poolVars == <<dispatcher, sent, worker, finished, ctxDone>>

PoolInit ==
  /\ dispatcher = "dispatching"
  /\ sent = 0
  /\ worker = [w \in Workers |-> Idle]
  /\ finished = {}
  /\ ctxDone = FALSE

Busy(w) == worker[w] \in Jobs

\* The channel has no buffer: sending a job and receiving it is one step.
HandOver(w) ==
  /\ dispatcher = "dispatching"
  /\ sent < JobCount
  /\ worker[w] = Idle
  /\ sent' = sent + 1
  /\ worker' = [worker EXCEPT ![w] = sent + 1]
  /\ UNCHANGED <<dispatcher, finished, ctxDone>>

\* Every job is sent: close the channel.
DispatchEnds ==
  /\ dispatcher = "dispatching"
  /\ sent = JobCount
  /\ dispatcher' = "waiting"
  /\ UNCHANGED <<sent, worker, finished, ctxDone>>

\* Mutant of DispatchStops: return from the loop without closing the channel.
DispatchStopsOpen ==
  /\ dispatcher = "dispatching"
  /\ sent < JobCount
  /\ ctxDone
  /\ dispatcher' = "abandoned"
  /\ UNCHANGED <<sent, worker, finished, ctxDone>>

\* The select takes the context's branch, which it may do although a worker
\* is ready: close the channel.
DispatchStops ==
  /\ dispatcher = "dispatching"
  /\ sent < JobCount
  /\ ctxDone
  /\ dispatcher' = "waiting"
  /\ UNCHANGED <<sent, worker, finished, ctxDone>>

\* The worker is through with its job and goes back to the channel.
FinishJob(w) ==
  /\ Busy(w)
  /\ finished' = finished \cup {worker[w]}
  /\ worker' = [worker EXCEPT ![w] = Idle]
  /\ UNCHANGED <<dispatcher, sent, ctxDone>>

\* The channel is closed and empty.
WorkerExits(w) ==
  /\ dispatcher = "waiting"
  /\ worker[w] = Idle
  /\ worker' = [worker EXCEPT ![w] = Exited]
  /\ UNCHANGED <<dispatcher, sent, finished, ctxDone>>

\* Mutant of Return: wait until the channel is drained, not until the workers
\* are done.
ReturnEarly ==
  /\ dispatcher = "waiting"
  /\ dispatcher' = "returned"
  /\ UNCHANGED <<sent, worker, finished, ctxDone>>

\* waitGroup.Wait.
Return ==
  /\ dispatcher = "waiting"
  /\ \A w \in Workers : worker[w] = Exited
  /\ dispatcher' = "returned"
  /\ UNCHANGED <<sent, worker, finished, ctxDone>>

ContextEnds ==
  /\ ~ctxDone
  /\ ctxDone' = TRUE
  /\ UNCHANGED <<dispatcher, sent, worker, finished>>

PoolNext ==
  \/ \E w \in Workers : HandOver(w) \/ FinishJob(w) \/ WorkerExits(w)
  \/ DispatchEnds
  \/ DispatchStops
  \/ Return
  \/ ContextEnds

PoolSpec == PoolInit /\ [][PoolNext]_poolVars

-----------------------------------------------------------------------------

PoolTypes ==
  /\ dispatcher \in {"dispatching", "waiting", "returned"}
  /\ sent \in 0..JobCount
  /\ worker \in [Workers -> Jobs \cup {Idle, Exited}]
  /\ finished \subseteq Jobs
  /\ ctxDone \in BOOLEAN

\* The pool seen as its contract.
JobStatus(j) ==
  IF \E w \in Workers : worker[w] = j THEN "running"
  ELSE IF j \in finished THEN "done" ELSE "waiting"

Contract == INSTANCE JobPool WITH
  Limit <- Cardinality(Workers),
  status <- [j \in Jobs |-> JobStatus(j)],
  cancelled <- ctxDone,
  answered <- dispatcher = "returned"

\* The fan-out keeps its contract: no job twice, none left out but by
\* cancellation, no answer while a worker is still at it.
KeepsContract == Contract!Spec
=============================================================================
