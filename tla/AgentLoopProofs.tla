--------------------------- MODULE AgentLoopProofs ---------------------------
(***************************************************************************)
(* The safety properties of AgentLoop for every number of agents, calls    *)
(* and writes of the phase, and every budget.                              *)
(*                                                                         *)
(* None of them is inductive.  Typed adds to the types what keeps the      *)
(* count of calls left from going below zero; WithinLimits, Counted,       *)
(* Tracked and Earned add what each guard knows between its check and the  *)
(* step that relies on it.                                                 *)
(***************************************************************************)
EXTENDS AgentLoop, TLAPS

-----------------------------------------------------------------------------
(* Types. *)

\* A response being handled has a call left, and a running call is a call.
CallPending ==
  \A a \in Agents :
    /\ pc[a] \in {"turn", "invoking"} => callsLeft[a] > 0
    /\ pc[a] = "invoking" => inFlight[a] \in Calls

Typed == TypeOK /\ CallPending

LEMMA InitTyped == Init => Typed
<1> SUFFICES ASSUME Init PROVE Typed
  OBVIOUS
<1>1. LoopTypes
  BY DEF Init, LoopTypes, Outcomes
<1>2. RepeatTypes
  BY DEF Init, RepeatTypes
<1>3. ProgressTypes
  BY DEF Init, ProgressTypes
<1>4. BoardTypes
  BY DEF Init, BoardTypes
<1>5. CallPending
  BY DEF Init, CallPending
<1> QED
  BY <1>1, <1>2, <1>3, <1>4, <1>5 DEF Typed, TypeOK

\* The four groups of types and CallPending, one action at a time.
LEMMA StepTyped ==
  ASSUME Typed, NEW a \in Agents, Step(a)
  PROVE  Typed'
<1>1. CASE StopOverBudget(a)
  <2> USE <1>1 DEF StopOverBudget, Typed, TypeOK
  <2>1. LoopTypes' /\ CallPending'
    BY DEF LoopTypes, CallPending, Finish, Outcomes
  <2>2. RepeatTypes' /\ ProgressTypes' /\ BoardTypes'
    BY DEF RepeatTypes, ProgressTypes, BoardTypes, repeatVars, progressVars,
           boardVars, phaseVars
  <2> QED BY <2>1, <2>2
<1>2. CASE StartIteration(a)
  <2> USE <1>2 DEF StartIteration, Typed, TypeOK
  <2>1. LoopTypes' /\ CallPending'
    BY DEF LoopTypes, CallPending, Finish, Outcomes
  <2>2. ProgressTypes'
    BY DEF ProgressTypes, BoardTypes, ObserveRevision, ProgressCount
  <2>3. RepeatTypes' /\ BoardTypes'
    BY DEF RepeatTypes, BoardTypes, repeatVars, boardVars, phaseVars
  <2> QED BY <2>1, <2>2, <2>3
<1>3. ASSUME NEW n \in 0..MaxTurnCalls, NEW usage \in TurnTokens,
             Complete(a, n, usage)
      PROVE  Typed'
  <2> USE <1>3 DEF Complete, Typed, TypeOK
  <2>1. usage \in Nat /\ n \in Nat
    BY LoopAssumption
  <2>2. LoopTypes' /\ CallPending'
    BY <2>1 DEF LoopTypes, CallPending, Finish, Outcomes
  <2>3. RepeatTypes' /\ ProgressTypes' /\ BoardTypes'
    BY DEF RepeatTypes, ProgressTypes, BoardTypes, repeatVars, progressVars,
           boardVars, phaseVars
  <2> QED BY <2>2, <2>3
<1>4. CASE CompleteFails(a)
  <2> USE <1>4 DEF CompleteFails, Typed, TypeOK
  <2>1. LoopTypes' /\ CallPending'
    BY DEF LoopTypes, CallPending, Finish, Outcomes
  <2>2. RepeatTypes' /\ ProgressTypes' /\ BoardTypes'
    BY DEF RepeatTypes, ProgressTypes, BoardTypes, repeatVars, progressVars,
           boardVars, phaseVars
  <2> QED BY <2>1, <2>2
<1>5. CASE StopOverToolCalls(a)
  <2> USE <1>5 DEF StopOverToolCalls, Typed, TypeOK
  <2>1. LoopTypes' /\ CallPending'
    BY DEF LoopTypes, CallPending, Finish, Outcomes
  <2>2. RepeatTypes' /\ ProgressTypes' /\ BoardTypes'
    BY DEF RepeatTypes, ProgressTypes, BoardTypes, repeatVars, progressVars,
           boardVars, phaseVars
  <2> QED BY <2>1, <2>2
<1>6. ASSUME NEW c \in Calls, RefuseCall(a, c)
      PROVE  Typed'
  <2> USE <1>6 DEF RefuseCall, Typed, TypeOK
  <2>1. LoopTypes' /\ CallPending'
    BY DEF LoopTypes, CallPending, Finish, Outcomes
  <2>2. RepeatTypes'
    BY DEF RepeatTypes, Count, Occurrence
  <2>3. ProgressTypes' /\ BoardTypes'
    BY DEF ProgressTypes, BoardTypes, progressVars, boardVars, phaseVars
  <2> QED BY <2>1, <2>2, <2>3
<1>7. ASSUME NEW c \in Calls, AnswerRepeat(a, c)
      PROVE  Typed'
  <2> USE <1>7 DEF AnswerRepeat, Admitted, Typed, TypeOK
  <2>1. LoopTypes' /\ CallPending'
    BY DEF LoopTypes, CallPending, Handled
  <2>2. RepeatTypes'
    BY DEF RepeatTypes, Count, Occurrence
  <2>3. ProgressTypes'
    BY DEF ProgressTypes, progressVars
  <2>4. BoardTypes'
    BY DEF BoardTypes, boardVars, phaseVars
  <2> QED BY <2>1, <2>2, <2>3, <2>4
<1>8. ASSUME NEW c \in Calls, StartInvoke(a, c)
      PROVE  Typed'
  <2> USE <1>8 DEF StartInvoke, Admitted, Typed, TypeOK
  <2>1. LoopTypes' /\ CallPending'
    BY DEF LoopTypes, CallPending
  <2>2. RepeatTypes'
    BY DEF RepeatTypes, Count, Occurrence
  <2>3. ProgressTypes' /\ BoardTypes'
    BY DEF ProgressTypes, BoardTypes, progressVars, boardVars, phaseVars
  <2> QED BY <2>1, <2>2, <2>3
<1>9. CASE InvokeSucceeds(a)
  <2> USE <1>9 DEF InvokeSucceeds, Typed, TypeOK
  <2>1. LoopTypes' /\ CallPending'
    BY DEF LoopTypes, CallPending, Handled
  <2>2. RepeatTypes'
    BY DEF RepeatTypes, CallPending
  <2>3. ProgressTypes'
    BY DEF ProgressTypes, progressVars
  <2>4. BoardTypes'
    BY DEF BoardTypes, CallPending, phaseVars
  <2> QED BY <2>1, <2>2, <2>3, <2>4
<1>10. CASE InvokeFails(a)
  <2> USE <1>10 DEF InvokeFails, Typed, TypeOK
  <2>1. LoopTypes' /\ CallPending'
    BY DEF LoopTypes, CallPending, Handled
  <2>2. RepeatTypes' /\ ProgressTypes'
    BY DEF RepeatTypes, ProgressTypes, repeatVars, progressVars
  <2>3. ToolOf[inFlight[a]] \in Tools
    BY LoopAssumption DEF CallPending
  <2>4. BoardTypes'
    BY <2>3 DEF BoardTypes, phaseVars
  <2> QED BY <2>1, <2>2, <2>4
<1> QED
  BY <1>1, <1>2, <1>3, <1>4, <1>5, <1>6, <1>7, <1>8, <1>9, <1>10 DEF Step

LEMMA NextTyped == Typed /\ [Next]_vars => Typed'
<1> SUFFICES ASSUME Typed, [Next]_vars PROVE Typed'
  OBVIOUS
<1>1. ASSUME NEW a \in Agents, Step(a) PROVE Typed'
  BY <1>1, StepTyped
<1>2. CASE \/ OthersWrite \/ ContextEnds \/ UNCHANGED vars
           \/ \E a \in Agents : WallClockPasses(a)
  <2> USE <1>2 DEF OthersWrite, ContextEnds, WallClockPasses, vars, Typed, TypeOK
  <2>1. LoopTypes' /\ CallPending'
    BY DEF LoopTypes, CallPending, loopVars
  <2>2. RepeatTypes' /\ ProgressTypes'
    BY DEF RepeatTypes, ProgressTypes, repeatVars, progressVars
  <2>3. CASE OthersWrite
    BY <2>1, <2>2, <2>3 DEF BoardTypes
  <2>4. CASE ContextEnds
    <3>1. ctxDone' \in BOOLEAN
      BY <2>4
    <3>2. UNCHANGED <<degraded, revision, otherWrites, late, timedOut>>
      BY <2>4 DEF boardVars
    <3> QED BY <2>1, <2>2, <3>1, <3>2 DEF BoardTypes
  <2>6. ASSUME NEW a \in Agents, WallClockPasses(a)
        PROVE  Typed'
    <3>1. late' \subseteq Agents
      BY <2>6 DEF BoardTypes
    <3>2. UNCHANGED <<degraded, revision, otherWrites, ctxDone, timedOut>>
      BY <2>6 DEF boardVars
    <3> QED BY <2>1, <2>2, <3>1, <3>2 DEF BoardTypes
  <2>5. CASE UNCHANGED vars
    BY <2>1, <2>2, <2>5 DEF BoardTypes, boardVars, phaseVars
  <2> QED BY <1>2, <2>3, <2>4, <2>5, <2>6
<1> QED
  BY <1>1, <1>2 DEF Next, Terminated

\* The counters, the guards' memory and the blackboard keep their types.
THEOREM TypeCorrect == Spec => []TypeOK
<1>1. Typed => TypeOK
  BY DEF Typed
<1> QED
  BY <1>1, InitTyped, NextTyped, PTL DEF Spec

-----------------------------------------------------------------------------
(* Budget. *)

\* Between a budget check and the step that spends, nothing is spent.
Solvent ==
  \A a \in Agents :
    /\ pc[a] = "completing" => ~OverIterations(a) /\ ~OverTokens(a)
    /\ pc[a] = "invoking" => ~OverToolCalls(a)

WithinLimits == WithinBudget /\ Solvent

LEMMA InitWithinLimits == Init => WithinLimits
  BY LoopAssumption DEF Init, WithinLimits, WithinBudget, Solvent

LEMMA StepWithinLimits ==
  ASSUME Typed, WithinLimits, NEW a \in Agents, Step(a)
  PROVE  WithinLimits'
<1> USE DEF WithinLimits, WithinBudget, Solvent, Typed, TypeOK, LoopTypes,
            OverIterations, OverTokens, OverToolCalls, Over
<1>0. /\ MaxIterations \in Nat /\ MaxToolCalls \in Nat /\ MaxTokens \in Nat
      /\ TurnTokens \subseteq Nat
  BY LoopAssumption
<1>1. CASE StopOverBudget(a)
  BY <1>0, <1>1 DEF StopOverBudget, Finish
<1>2. CASE StartIteration(a)
  BY <1>0, <1>2 DEF StartIteration, Finish
<1>3. ASSUME NEW n \in 0..MaxTurnCalls, NEW usage \in TurnTokens,
             Complete(a, n, usage)
      PROVE  WithinLimits'
  BY <1>0, <1>3 DEF Complete, Finish
<1>4. CASE CompleteFails(a)
  BY <1>0, <1>4 DEF CompleteFails, Finish
<1>5. CASE StopOverToolCalls(a)
  BY <1>0, <1>5 DEF StopOverToolCalls, Finish
<1>6. ASSUME NEW c \in Calls, RefuseCall(a, c)
      PROVE  WithinLimits'
  BY <1>0, <1>6 DEF RefuseCall, Finish
<1>7. ASSUME NEW c \in Calls, AnswerRepeat(a, c)
      PROVE  WithinLimits'
  BY <1>0, <1>7 DEF AnswerRepeat, Admitted, Handled
<1>8. ASSUME NEW c \in Calls, StartInvoke(a, c)
      PROVE  WithinLimits'
  BY <1>0, <1>8 DEF StartInvoke, Admitted
<1>9. CASE InvokeSucceeds(a)
  BY <1>0, <1>9 DEF InvokeSucceeds, Handled
<1>10. CASE InvokeFails(a)
  BY <1>0, <1>10 DEF InvokeFails, Handled
<1> QED
  BY <1>1, <1>2, <1>3, <1>4, <1>5, <1>6, <1>7, <1>8, <1>9, <1>10 DEF Step

LEMMA NextWithinLimits == Typed /\ WithinLimits /\ [Next]_vars => WithinLimits'
<1> SUFFICES ASSUME Typed, WithinLimits, [Next]_vars PROVE WithinLimits'
  OBVIOUS
<1>1. ASSUME NEW a \in Agents, Step(a) PROVE WithinLimits'
  BY <1>1, StepWithinLimits
<1>2. CASE UNCHANGED loopVars
  BY <1>2 DEF loopVars, WithinLimits, WithinBudget, Solvent, OverIterations,
     OverTokens, OverToolCalls
<1> QED
  BY <1>1, <1>2 DEF Next, OthersWrite, ContextEnds, WallClockPasses,
     Terminated, vars

\* Whatever the responses ask for, no agent overruns its budget.
THEOREM BudgetHolds == Spec => []WithinBudget
<1>1. Typed /\ WithinLimits => WithinBudget
  BY DEF WithinLimits
<1> QED
  BY <1>1, InitTyped, NextTyped, InitWithinLimits, NextWithinLimits, PTL
     DEF Spec

-----------------------------------------------------------------------------
(* Repeated calls. *)

\* A tool is reached only by a counted call, and a result is remembered only
\* for a call that was counted.
Counted ==
  /\ RepeatsContained
  /\ \A a \in Agents, c \in Calls :
       /\ invoked[a][c] <= counts[a][c]
       /\ c \in cached[a] => counts[a][c] > 0
  /\ \A a \in Agents : pc[a] = "invoking" => counts[a][inFlight[a]] > 0

LEMMA InitCounted == Init => Counted
  BY LoopAssumption DEF Init, Counted, RepeatsContained

LEMMA StepCounted ==
  ASSUME Typed, Counted, NEW a \in Agents, Step(a)
  PROVE  Counted'
<1> USE DEF Counted, RepeatsContained, Typed, TypeOK, LoopTypes, RepeatTypes,
            CallPending
<1>0. CacheAt \in Nat /\ AdviseAt \in Nat /\ TerminateAt \in Nat
  BY LoopAssumption
<1>1. CASE StopOverBudget(a)
  BY <1>0, <1>1 DEF StopOverBudget, Finish, repeatVars
<1>2. CASE StartIteration(a)
  BY <1>0, <1>2 DEF StartIteration, Finish, repeatVars
<1>3. ASSUME NEW n \in 0..MaxTurnCalls, NEW usage \in TurnTokens,
             Complete(a, n, usage)
      PROVE  Counted'
  BY <1>0, <1>3 DEF Complete, Finish, repeatVars
<1>4. CASE CompleteFails(a)
  BY <1>0, <1>4 DEF CompleteFails, Finish, repeatVars
<1>5. CASE StopOverToolCalls(a)
  BY <1>0, <1>5 DEF StopOverToolCalls, Finish, repeatVars
<1>6. ASSUME NEW c \in Calls, RefuseCall(a, c)
      PROVE  Counted'
  BY <1>0, <1>6 DEF RefuseCall, Finish, Count, Occurrence
<1>7. ASSUME NEW c \in Calls, AnswerRepeat(a, c)
      PROVE  Counted'
  BY <1>0, <1>7 DEF AnswerRepeat, Admitted, Handled, Count, Occurrence,
     Exhausted
<1>8. ASSUME NEW c \in Calls, StartInvoke(a, c)
      PROVE  Counted'
  BY <1>0, <1>8 DEF StartInvoke, Admitted, Count, Occurrence, Exhausted,
     Advised
<1>9. CASE InvokeSucceeds(a)
  BY <1>0, <1>9 DEF InvokeSucceeds, Handled
<1>10. CASE InvokeFails(a)
  BY <1>0, <1>10 DEF InvokeFails, Handled, repeatVars
<1> QED
  BY <1>1, <1>2, <1>3, <1>4, <1>5, <1>6, <1>7, <1>8, <1>9, <1>10 DEF Step

LEMMA NextCounted == Typed /\ Counted /\ [Next]_vars => Counted'
<1> SUFFICES ASSUME Typed, Counted, [Next]_vars PROVE Counted'
  OBVIOUS
<1>1. ASSUME NEW a \in Agents, Step(a) PROVE Counted'
  BY <1>1, StepCounted
<1>2. CASE UNCHANGED <<loopVars, repeatVars, invoked>>
  BY <1>2 DEF loopVars, repeatVars, Counted, RepeatsContained
<1> QED
  BY <1>1, <1>2 DEF Next, OthersWrite, ContextEnds, WallClockPasses,
     Terminated, vars

\* However the model repeats itself, a tool sees few of the repeats and the
\* agent is stopped.
THEOREM RepeatsHold == Spec => []RepeatsContained
<1>1. Counted => RepeatsContained
  BY DEF Counted
<1> QED
  BY <1>1, InitTyped, NextTyped, InitCounted, NextCounted, PTL DEF Spec

\* What a step may not do: reach a tool with a call that is cached.
LEMMA CachedNotInvoked ==
  ASSUME Typed, Counted, NEW b \in Agents, NEW a \in Agents,
         NEW c \in cached[a], Step(b)
  PROVE  invoked'[a][c] = invoked[a][c]
<1> USE DEF Typed, TypeOK, RepeatTypes
<1>1. ASSUME NEW d \in Calls, StartInvoke(b, d)
      PROVE  invoked'[a][c] = invoked[a][c]
  <2>1. CASE a = b /\ c = d
    <3>1. c \in Calls /\ counts[a][c] \in Nat /\ counts[a][c] > 0
      BY <2>1 DEF Counted
    <3>2. CacheAt > 0 /\ Occurrence(a, c) >= CacheAt
      BY <3>1, LoopAssumption DEF Occurrence
    <3>3. Advised(a, c) \/ Served(a, c)
      BY <3>2 DEF Served
    <3> QED
      BY <1>1, <2>1, <3>3 DEF StartInvoke
  <2>2. CASE a # b \/ c # d
    BY <1>1, <2>2 DEF StartInvoke
  <2> QED BY <2>1, <2>2
<1>2. CASE UNCHANGED invoked
  BY <1>2
<1> QED
  BY <1>1, <1>2 DEF Step, StopOverBudget, StartIteration, Complete,
     CompleteFails, StopOverToolCalls, RefuseCall, AnswerRepeat,
     InvokeSucceeds, InvokeFails

\* A call that succeeded is never run again.
THEOREM CacheHolds == Spec => SucceededCallNotRedone
<1>1. Typed /\ Counted /\ [Next]_vars =>
        [\A a \in Agents : \A c \in cached[a] :
           invoked'[a][c] = invoked[a][c]]_vars
  <2> SUFFICES ASSUME Typed, Counted, [Next]_vars,
                      NEW a \in Agents, NEW c \in cached[a]
               PROVE  invoked'[a][c] = invoked[a][c]
    OBVIOUS
  <2>1. ASSUME NEW b \in Agents, Step(b) PROVE invoked'[a][c] = invoked[a][c]
    BY <2>1, CachedNotInvoked
  <2>2. CASE UNCHANGED invoked
    BY <2>2
  <2> QED
    BY <2>1, <2>2 DEF Next, OthersWrite, ContextEnds, WallClockPasses,
     Terminated, vars
<1> QED
  BY <1>1, InitTyped, NextTyped, InitCounted, NextCounted, PTL
     DEF Spec, SucceededCallNotRedone

-----------------------------------------------------------------------------
(* Progress. *)

\* What the count of barren iterations says of the iteration starts so far:
\* the last barren[a] + 1 of them saw one revision, and the one before, if
\* there is one, saw another.
Tally(a) ==
  LET n == Len(seen[a]) IN
  /\ n = 0 => lastSeen[a] = NoRevision /\ barren[a] = 0
  /\ n > 0 =>
       /\ lastSeen[a] = seen[a][n]
       /\ barren[a] < n
       /\ \A i \in (n - barren[a])..n : seen[a][i] = lastSeen[a]
       /\ barren[a] < n - 1 => seen[a][n - barren[a] - 1] # lastSeen[a]

Tracked ==
  \A a \in Agents :
    /\ Tally(a)
    /\ Working(a) /\ BarrenLimit > 0 => barren[a] < BarrenLimit

LEMMA InitTracked == Init => Tracked
  BY DEF Init, Tracked, Tally, Working

\* ProgressGuard keeps the tally.
LEMMA ObserveKeepsTally ==
  ASSUME Typed, NEW a \in Agents, Tally(a), ObserveRevision(a)
  PROVE  Tally(a)' /\ barren'[a] = ProgressCount(a)
<1> DEFINE n == Len(seen[a])
<1>1. /\ barren[a] \in Nat /\ revision \in Nat
      /\ seen[a] \in Seq(Nat) /\ n \in Nat
  BY DEF Typed, TypeOK, ProgressTypes, BoardTypes
<1>2. /\ seen'[a] = Append(seen[a], revision)
      /\ lastSeen'[a] = revision
      /\ barren'[a] = ProgressCount(a)
  BY DEF ObserveRevision, Typed, TypeOK, ProgressTypes
<1>3. /\ Len(seen'[a]) = n + 1
      /\ seen'[a][n + 1] = revision
      /\ \A i \in 1..n : seen'[a][i] = seen[a][i]
  BY <1>1, <1>2
<1> HIDE DEF n
<1>4. /\ n = 0 => lastSeen[a] = NoRevision /\ barren[a] = 0
      /\ n > 0 =>
           /\ lastSeen[a] = seen[a][n]
           /\ barren[a] < n
           /\ \A i \in (n - barren[a])..n : seen[a][i] = lastSeen[a]
           /\ barren[a] < n - 1 =>
                seen[a][n - barren[a] - 1] # lastSeen[a]
  BY DEF Tally, n
<1> DEFINE k == barren'[a]
<1>fold. ASSUME k \in Nat, k < n + 1,
             \A i \in ((n + 1) - k)..(n + 1) : seen'[a][i] = revision,
             k < n => seen'[a][n - k] # revision
      PROVE  Tally(a)'
  <2> HIDE DEF k
  <2>0. n \in Nat /\ k \in Nat
    BY <1>1, <1>fold
  <2>1. n + 1 # 0 /\ (n + 1) - 1 = n /\ (n + 1) - k - 1 = n - k
    BY ONLY <2>0
  <2>2. lastSeen'[a] = seen'[a][n + 1]
    BY <1>1, <1>2, <1>3
  <2>3. lastSeen'[a] = revision
    BY <1>2
  <2>4. \A i \in ((n + 1) - k)..(n + 1) :
          seen'[a][i] = lastSeen'[a]
    BY ONLY <1>fold, <2>3
  <2>5. k < (n + 1) - 1 =>
          seen'[a][(n + 1) - k - 1] # lastSeen'[a]
    BY ONLY <1>fold, <2>1, <2>3
  <2> QED BY ONLY <1>3, <1>fold, <2>1, <2>2, <2>4, <2>5 DEF Tally, k
<1> HIDE DEF k
<1>5. ASSUME revision = lastSeen[a] PROVE Tally(a)'
  <2>1. n > 0 /\ barren'[a] = barren[a] + 1
    BY <1>1, <1>2, <1>4, <1>5 DEF ProgressCount, NoRevision
  <2>2. \A i \in (n - barren[a])..n : i \in 1..n
    BY <1>1, <1>4, <2>1
  <2>3. \A i \in (n - barren[a])..(n + 1) : seen'[a][i] = revision
    <3> SUFFICES ASSUME NEW i \in (n - barren[a])..(n + 1)
                 PROVE  seen'[a][i] = revision
      OBVIOUS
    <3>1. CASE i = n + 1
      BY <1>1, <1>3, <3>1
    <3>2. CASE i # n + 1
      <4>1. i \in (n - barren[a])..n
        BY <1>1, <3>2
      <4> QED BY <1>3, <1>4, <1>5, <2>1, <2>2, <4>1
    <3> QED BY <3>1, <3>2
  <2>4. barren[a] < n - 1 => seen'[a][n - barren[a] - 1] # revision
    <3>1. barren[a] < n - 1 => n - barren[a] - 1 \in 1..n
      BY <1>1
    <3> QED BY <1>3, <1>4, <1>5, <2>1, <3>1
  <2>5. /\ k = barren[a] + 1 /\ k \in Nat /\ k < n + 1
        /\ (n + 1) - k = n - barren[a] /\ n - k = n - barren[a] - 1
    <3>1. barren[a] \in Nat /\ n \in Nat /\ barren[a] < n /\ k = barren[a] + 1
      BY <1>1, <1>4, <2>1 DEF k
    <3> QED BY ONLY <3>1
  <2>6. \A i \in ((n + 1) - k)..(n + 1) : seen'[a][i] = revision
    BY ONLY <2>3, <2>5
  <2>7. k < n => seen'[a][n - k] # revision
    BY ONLY <1>1, <2>4, <2>5
  <2> QED
    BY ONLY <1>fold, <2>5, <2>6, <2>7
<1>6. ASSUME revision # lastSeen[a] PROVE Tally(a)'
  <2>1. barren'[a] = 0
    BY <1>2, <1>6 DEF ProgressCount
  <2>2. n > 0 => seen'[a][n] # revision
    <3>1. n > 0 => n \in 1..n
      BY <1>1
    <3>2. n > 0 => seen'[a][n] = seen[a][n] /\ seen[a][n] = lastSeen[a]
      BY ONLY <1>3, <1>4, <3>1
    <3> QED BY ONLY <1>6, <3>2
  <2>3. k = 0 /\ k < n + 1 /\ (n + 1) - k = n + 1 /\ n - k = n
    BY <1>1, <2>1 DEF k
  <2>4. \A i \in ((n + 1) - k)..(n + 1) : seen'[a][i] = revision
    BY <1>1, <1>3, <2>3
  <2>5. k < n => seen'[a][n - k] # revision
    BY <2>2, <2>3
  <2> QED
    BY <1>fold, <2>3, <2>4, <2>5
<1> QED
  BY <1>2, <1>5, <1>6 DEF k

LEMMA NextTracked == Typed /\ Tracked /\ [Next]_vars => Tracked'
<1> SUFFICES ASSUME Typed, Tracked, [Next]_vars PROVE Tracked'
  OBVIOUS
<1> USE DEF Typed, TypeOK, LoopTypes, ProgressTypes
<1>1. ASSUME NEW a \in Agents, StartIteration(a) PROVE Tracked'
  <2>1. Tally(a)' /\ barren'[a] = ProgressCount(a)
    BY <1>1, ObserveKeepsTally DEF StartIteration, Tracked
  <2>2. Working(a)' /\ BarrenLimit > 0 => barren'[a] < BarrenLimit
    <3>1. NoProgress(a) => pc'[a] = "stopped"
      BY <1>1 DEF StartIteration, Finish
    <3>2. barren'[a] \in Nat /\ BarrenLimit \in Nat
      BY <1>1, LoopAssumption DEF StartIteration, ObserveRevision, ProgressCount
    <3> QED BY <2>1, <3>1, <3>2 DEF NoProgress, Working
  <2>3. ASSUME NEW b \in Agents, b # a
        PROVE  /\ Tally(b)'
               /\ Working(b)' /\ BarrenLimit > 0 => barren'[b] < BarrenLimit
    <3>1. UNCHANGED <<pc[b], seen[b], lastSeen[b], barren[b]>>
      BY <1>1, <2>3 DEF StartIteration, ObserveRevision, Finish
    <3> QED BY <3>1 DEF Tracked, Tally, Working
  <2> QED BY <2>1, <2>2, <2>3 DEF Tracked
<1>2. CASE /\ UNCHANGED <<seen, lastSeen, barren>>
           /\ \A a \in Agents : Working(a)' => Working(a)
  BY <1>2 DEF Tracked, Tally
<1>3. ASSUME NEW a \in Agents, Step(a), ~StartIteration(a)
      PROVE  /\ UNCHANGED <<seen, lastSeen, barren>>
             /\ \A b \in Agents : Working(b)' => Working(b)
  BY <1>3 DEF Step, StopOverBudget, Complete, CompleteFails, StopOverToolCalls,
     RefuseCall, AnswerRepeat, StartInvoke, InvokeSucceeds, InvokeFails,
     Admitted, Handled, Finish, progressVars, Working
<1>4. CASE \/ OthersWrite \/ ContextEnds \/ UNCHANGED vars
           \/ \E a \in Agents : WallClockPasses(a)
  BY <1>2, <1>4 DEF OthersWrite, ContextEnds, WallClockPasses, vars, loopVars,
     progressVars, Working
<1> QED
  BY <1>1, <1>2, <1>3, <1>4 DEF Next, Terminated

LEMMA TrackedSuffices == Typed /\ Tracked => NoBarrenSpin
<1> SUFFICES ASSUME Typed, Tracked, NEW a \in Agents, Working(a), BarrenTail(a)
             PROVE  FALSE
  BY DEF NoBarrenSpin
<1> DEFINE n == Len(seen[a])
<1>1. n \in Nat /\ barren[a] \in Nat /\ BarrenLimit \in Nat
  BY LoopAssumption DEF Typed, TypeOK, ProgressTypes
<1>2. BarrenLimit > 0 /\ n > BarrenLimit /\ barren[a] < BarrenLimit
  BY DEF Tracked, BarrenTail
<1>3. n - barren[a] - 1 \in (n - BarrenLimit)..n
  BY <1>1, <1>2
<1>4. seen[a][n - barren[a] - 1] = seen[a][n]
  BY <1>3 DEF BarrenTail
<1> QED
  BY <1>1, <1>2, <1>4 DEF Tracked, Tally

\* No completion is bought after BarrenLimit barren iterations.
THEOREM ProgressHolds == Spec => []NoBarrenSpin
<1> QED
  BY InitTyped, NextTyped, InitTracked, NextTracked, TrackedSuffices, PTL
     DEF Spec

-----------------------------------------------------------------------------
(* Reasons. *)

\* A reason is given once, when the loop stops.
Earned ==
  /\ StopIsEarned
  /\ \A a \in Agents : outcome[a] # "running" => pc[a] = "stopped"

LEMMA InitEarned == Init => Earned
  BY DEF Init, Earned, StopIsEarned, ReasonHolds

\* The no-progress stop: the tally it follows is a barren tail.
LEMMA NoProgressIsBarren ==
  ASSUME Typed, Tracked, NEW a \in Agents, ObserveRevision(a), NoProgress(a)
  PROVE  BarrenTail(a)'
<1> DEFINE m == Len(seen'[a])
           k == barren'[a]
<1>1. Tally(a)' /\ k = ProgressCount(a)
  BY ObserveKeepsTally DEF Tracked
<1>2. /\ BarrenLimit > 0 /\ k >= BarrenLimit
      /\ k \in Nat /\ BarrenLimit \in Nat
  BY <1>1, LoopAssumption
     DEF NoProgress, ProgressCount, Typed, TypeOK, ProgressTypes
<1>3. m \in Nat
  <2>1. seen'[a] \in Seq(Nat)
    BY DEF ObserveRevision, Typed, TypeOK, ProgressTypes, BoardTypes
  <2> QED BY <2>1
<1>4. /\ m = 0 => k = 0
      /\ m > 0 =>
           /\ lastSeen'[a] = seen'[a][m]
           /\ k < m
           /\ \A i \in (m - k)..m : seen'[a][i] = lastSeen'[a]
  BY <1>1 DEF Tally
<1> HIDE DEF m, k
<1>5. m > 0 /\ m > BarrenLimit
  BY <1>2, <1>3, <1>4
<1>6. \A i \in (m - BarrenLimit)..m :
        i \in (m - k)..m /\ seen'[a][i] = seen'[a][m]
  BY <1>2, <1>3, <1>4, <1>5
<1> QED
  BY <1>2, <1>5, <1>6 DEF BarrenTail, m

\* An agent's step leaves the other loops alone.
LEMMA StepIsLocal ==
  ASSUME Typed, NEW a \in Agents, Step(a), NEW b \in Agents, b # a
  PROVE  UNCHANGED <<pc[b], outcome[b], iterations[b], tokens[b], toolCalls[b],
                     counts[b], seen[b]>>
<1> USE DEF Typed, TypeOK, LoopTypes, RepeatTypes, ProgressTypes
<1>1. CASE StopOverBudget(a) \/ CompleteFails(a) \/ StopOverToolCalls(a)
  BY <1>1 DEF StopOverBudget, CompleteFails, StopOverToolCalls, Finish,
     repeatVars, progressVars, phaseVars
<1>2. CASE StartIteration(a)
  BY <1>2 DEF StartIteration, ObserveRevision, Finish, repeatVars, phaseVars
<1>3. ASSUME NEW n \in 0..MaxTurnCalls, NEW usage \in TurnTokens,
             Complete(a, n, usage)
      PROVE  UNCHANGED <<pc[b], outcome[b], iterations[b], tokens[b],
               toolCalls[b], counts[b], seen[b]>>
  BY <1>3 DEF Complete, Finish, repeatVars, progressVars, phaseVars
<1>4. ASSUME NEW c \in Calls,
             RefuseCall(a, c) \/ AnswerRepeat(a, c) \/ StartInvoke(a, c)
      PROVE  UNCHANGED <<pc[b], outcome[b], iterations[b], tokens[b],
               toolCalls[b], counts[b], seen[b]>>
  BY <1>4 DEF RefuseCall, AnswerRepeat, StartInvoke, Admitted, Handled, Finish,
     Count, progressVars, phaseVars
<1>5. CASE InvokeSucceeds(a) \/ InvokeFails(a)
  BY <1>5 DEF InvokeSucceeds, InvokeFails, Handled, repeatVars, progressVars,
     phaseVars
<1> QED
  BY <1>1, <1>2, <1>3, <1>4, <1>5 DEF Step

\* The agent that steps was running; if it stops, its guard says why.
LEMMA StepGivesReason ==
  ASSUME Typed, WithinLimits, Counted, Tracked, Earned,
         NEW a \in Agents, Step(a)
  PROVE  ReasonHolds(a)' /\ (outcome'[a] # "running" => pc'[a] = "stopped")
<1> USE DEF Typed, TypeOK, LoopTypes
<1>0. pc[a] # "stopped" /\ outcome[a] = "running"
  <2>1. pc[a] # "stopped"
    BY DEF Step, StopOverBudget, StartIteration, Complete, CompleteFails,
       StopOverToolCalls, RefuseCall, AnswerRepeat, StartInvoke, Admitted,
       InvokeSucceeds, InvokeFails
  <2> QED BY <2>1 DEF Earned
<1>1. CASE outcome'[a] = "running"
  BY <1>1 DEF ReasonHolds
<1>2. CASE StopOverBudget(a)
  <2>1. OverIterations(a) => iterations[a] = MaxIterations
    BY LoopAssumption DEF OverIterations, Over, WithinLimits, WithinBudget
  <2>2. OverTokens(a)' = OverTokens(a) /\ iterations'[a] = iterations[a]
    BY <1>2 DEF StopOverBudget, OverTokens
  <2>3. late' = late
    BY <1>2 DEF StopOverBudget, phaseVars
  <2>4. \/ OverIterations(a) /\ outcome'[a] = "iteration_cap"
        \/ OverTokens(a) /\ outcome'[a] = "budget_exhausted"
        \/ a \in late /\ outcome'[a] = "wall_clock"
    BY <1>2 DEF StopOverBudget, Finish
  <2>5. pc'[a] = "stopped"
    BY <1>2 DEF StopOverBudget, Finish
  <2> QED BY <2>1, <2>2, <2>3, <2>4, <2>5 DEF ReasonHolds
<1>3. CASE StartIteration(a)
  <2>1. NoProgress(a) => BarrenTail(a)'
    BY <1>3, NoProgressIsBarren DEF StartIteration
  <2> QED
    BY <1>0, <1>3, <2>1 DEF StartIteration, Finish, ReasonHolds, phaseVars
<1>4. ASSUME NEW n \in 0..MaxTurnCalls, NEW usage \in TurnTokens,
             Complete(a, n, usage)
      PROVE  ReasonHolds(a)' /\ (outcome'[a] # "running" => pc'[a] = "stopped")
  BY <1>0, <1>4 DEF Complete, Finish, ReasonHolds
<1>5. CASE CompleteFails(a)
  BY <1>5 DEF CompleteFails, Finish, ReasonHolds, phaseVars
<1>6. CASE StopOverToolCalls(a)
  <2>1. OverToolCalls(a)'
    BY <1>6 DEF StopOverToolCalls, OverToolCalls
  <2> QED BY <1>6, <2>1 DEF StopOverToolCalls, Finish, ReasonHolds
<1>7. ASSUME NEW c \in Calls, RefuseCall(a, c)
      PROVE  ReasonHolds(a)' /\ (outcome'[a] # "running" => pc'[a] = "stopped")
  <2>1. counts'[a][c] = counts[a][c] + 1 /\ counts[a][c] \in Nat
    BY <1>7 DEF RefuseCall, Count, Occurrence, RepeatTypes
  <2>2. Exhausted(a, c) => TerminateAt > 0 /\ counts'[a][c] = TerminateAt
    <3>1. TerminateAt > 0 => ~(counts[a][c] >= TerminateAt)
      BY <1>0 DEF Counted, RepeatsContained
    <3>2. TerminateAt \in Nat
      BY LoopAssumption
    <3> QED BY <2>1, <3>1, <3>2 DEF Exhausted, Occurrence
  <2>3. \/ Exhausted(a, c) /\ outcome'[a] = "repeated_tool_calls"
        \/ ~InScope(c) /\ counts'[a][c] > 0 /\ outcome'[a] = "out_of_scope"
    BY <1>7, <2>1 DEF RefuseCall, Finish
  <2>4. pc'[a] = "stopped"
    BY <1>7 DEF RefuseCall, Finish
  <2> QED BY <2>2, <2>3, <2>4 DEF ReasonHolds
<1>8. CASE UNCHANGED outcome
  BY <1>0, <1>1, <1>8
<1> QED
  BY <1>1, <1>2, <1>3, <1>4, <1>5, <1>6, <1>7, <1>8 DEF Step, AnswerRepeat,
     StartInvoke, InvokeSucceeds, InvokeFails

\* What has passed stays so: the context, the wall clock, a request's timeout.
LEMMA TimePasses ==
  ASSUME [Next]_vars
  PROVE  /\ ctxDone => ctxDone'
         /\ late \subseteq late' /\ timedOut \subseteq timedOut'
<1>1. ASSUME NEW a \in Agents, Step(a)
      PROVE  /\ ctxDone' = ctxDone /\ late' = late
             /\ timedOut \subseteq timedOut'
  BY <1>1 DEF Step, StopOverBudget, StartIteration, Complete, CompleteFails,
     StopOverToolCalls, RefuseCall, AnswerRepeat, StartInvoke, InvokeSucceeds,
     InvokeFails, phaseVars
<1> QED
  BY <1>1 DEF Next, OthersWrite, ContextEnds, WallClockPasses, Terminated, vars,
     phaseVars

\* A stopped agent whose state is left alone keeps its reason.
LEMMA ReasonStays ==
  ASSUME NEW b \in Agents, ReasonHolds(b),
         UNCHANGED <<outcome[b], iterations[b], tokens[b], toolCalls[b],
                     counts[b], seen[b]>>,
         ctxDone => ctxDone', late \subseteq late', timedOut \subseteq timedOut'
  PROVE  ReasonHolds(b)'
  BY DEF ReasonHolds, OverTokens, OverToolCalls, BarrenTail

LEMMA NextEarned ==
  Typed /\ WithinLimits /\ Counted /\ Tracked /\ Earned /\ [Next]_vars => Earned'
<1> SUFFICES ASSUME Typed, WithinLimits, Counted, Tracked, Earned, [Next]_vars,
                    NEW b \in Agents
             PROVE  /\ ReasonHolds(b)'
                    /\ outcome'[b] # "running" => pc'[b] = "stopped"
  BY DEF Earned, StopIsEarned
<1>0. ReasonHolds(b) /\ (outcome[b] # "running" => pc[b] = "stopped")
  BY DEF Earned, StopIsEarned
<1>1. ASSUME NEW a \in Agents, Step(a)
      PROVE  /\ ReasonHolds(b)'
             /\ outcome'[b] # "running" => pc'[b] = "stopped"
  <2>1. CASE a = b
    BY <1>1, <2>1, StepGivesReason
  <2>2. CASE a # b
    BY <1>0, <1>1, <2>2, StepIsLocal, ReasonStays, TimePasses
  <2> QED BY <2>1, <2>2
<1>2. CASE UNCHANGED <<pc, outcome, iterations, tokens, toolCalls, counts, seen>>
  BY <1>0, <1>2, ReasonStays, TimePasses
<1> QED
  BY <1>1, <1>2 DEF Next, OthersWrite, ContextEnds, WallClockPasses,
     Terminated, vars, loopVars,
     repeatVars, progressVars, phaseVars

\* Every guard that stops a loop reports what is the case; the context's end is
\* reported for that or for a request that ran into the client's timeout.
THEOREM ReasonsHold == Spec => []StopIsEarned
<1>1. Earned => StopIsEarned
  BY DEF Earned
<1> QED
  BY <1>1, InitTyped, NextTyped, InitWithinLimits, NextWithinLimits,
     InitCounted, NextCounted, InitTracked, NextTracked, InitEarned, NextEarned,
     PTL DEF Spec
=============================================================================
