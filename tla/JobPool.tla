------------------------------- MODULE JobPool -------------------------------
(***************************************************************************)
(* What a fan-out promises the phase that runs it: every job is started at *)
(* most once, at most Limit of them run at a time, and the phase is        *)
(* answered when nothing runs any more, with no job left out unless the    *)
(* run was cancelled.  FanOut is shown to implement it.                    *)
(***************************************************************************)
EXTENDS Integers, FiniteSets

CONSTANTS
  Jobs,   \* the work of the phase
  Limit   \* the concurrency

VARIABLES
  status,    \* of each job
  cancelled, \* the phase's context is done
  answered   \* the phase has its answer

vars == <<status, cancelled, answered>>

Running == {j \in Jobs : status[j] = "running"}

Init ==
  /\ status = [j \in Jobs |-> "waiting"]
  /\ cancelled = FALSE
  /\ answered = FALSE

Start(j) ==
  /\ ~answered
  /\ status[j] = "waiting"
  /\ Cardinality(Running) < Limit
  /\ status' = [status EXCEPT ![j] = "running"]
  /\ UNCHANGED <<cancelled, answered>>

Finish(j) ==
  /\ status[j] = "running"
  /\ status' = [status EXCEPT ![j] = "done"]
  /\ UNCHANGED <<cancelled, answered>>

Cancel ==
  /\ ~cancelled
  /\ cancelled' = TRUE
  /\ UNCHANGED <<status, answered>>

Answer ==
  /\ ~answered
  /\ \A j \in Jobs : status[j] = "done" \/ (cancelled /\ status[j] = "waiting")
  /\ answered' = TRUE
  /\ UNCHANGED <<status, cancelled>>

Next ==
  \/ \E j \in Jobs : Start(j) \/ Finish(j)
  \/ Cancel
  \/ Answer

Spec == Init /\ [][Next]_vars
=============================================================================
