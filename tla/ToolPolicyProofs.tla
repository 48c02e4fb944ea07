-------------------------- MODULE ToolPolicyProofs ---------------------------
(***************************************************************************)
(* Safety of a guarded tool, for any number of callers, any limit on the   *)
(* attempts and any threshold, with or without a breaker.                  *)
(***************************************************************************)
EXTENDS ToolPolicy, TLAPS

\* The history counts what the code counts, a call that sleeps has an attempt
\* left, and one that was begun is within its limit.
Attempts ==
  \A c \in Callers :
    /\ executed[c] = attempt[c]
    /\ attempt[c] <= AttemptLimit
    /\ pc[c] = "backoff" => attempt[c] < AttemptLimit

\* While the cooldown that follows the last failure of a full streak runs, the
\* breaker is open.
Shut ==
  Threshold > 0 /\ streak = Threshold /\ ~rested =>
    failures >= Threshold /\ ~cooled

Inv == TypeOK /\ Attempts /\ CountsTheStreak /\ Shut

LEMMA LimitRange ==
  ASSUME TypeOK
  PROVE  AttemptLimit \in 1..MaxAttempts
BY PolicyAssumption DEF TypeOK, AttemptLimit

LEMMA InitInv == Init => Inv
<1> SUFFICES ASSUME Init PROVE Inv
  OBVIOUS
<1> USE PolicyAssumption DEF Init
<1>1. TypeOK
  <2>1. cooled \in BOOLEAN /\ idempotent \in BOOLEAN
    OBVIOUS
  <2>2. ctxDone \in BOOLEAN /\ recovered \in BOOLEAN /\ rested \in BOOLEAN
    OBVIOUS
  <2> QED
    BY <2>1, <2>2 DEF TypeOK
<1>2. Attempts
  <2>1. 0 <= AttemptLimit
    BY ONLY <1>1, LimitRange, PolicyAssumption
  <2>2. \A c \in Callers : executed[c] = 0 /\ attempt[c] = 0 /\ pc[c] = "idle"
    OBVIOUS
  <2> QED
    BY <2>1, <2>2 DEF Attempts
<1>3. CountsTheStreak /\ Shut
  BY DEF CountsTheStreak, Shut
<1> QED
  BY <1>1, <1>2, <1>3 DEF Inv

-----------------------------------------------------------------------------
(* Steps. *)

LEMMA TypeStep ==
  ASSUME Inv, Next
  PROVE  TypeOK'
<1> USE PolicyAssumption DEF Inv
<1>1. /\ cooled' \in BOOLEAN /\ idempotent' \in BOOLEAN
      /\ ctxDone' \in BOOLEAN /\ recovered' \in BOOLEAN
      /\ rested' \in BOOLEAN
  BY DEF TypeOK, Next, List, Admit, Refuse, Ending, Succeed, Correctable,
     Lasting, Retryable, RecordFailure, RecordSuccess, NextAttempt, Cancelled,
     CooldownPasses, ContextEnds, Recover, vars, breakerVars, worldVars, history
<1>2. offered' \in [Callers -> BOOLEAN]
  BY DEF TypeOK, Next, List, Admit, Refuse, Ending, Succeed, Correctable,
     Lasting, Retryable, NextAttempt, Cancelled, CooldownPasses, ContextEnds,
     Recover, vars
<1>3. failures' \in Nat /\ streak' \in 0..Threshold
  BY DEF TypeOK, Next, List, Admit, Refuse, Ending, Succeed, Correctable,
     Lasting, Retryable, RecordFailure, RecordSuccess, NextAttempt, Cancelled,
     CooldownPasses, ContextEnds, Recover, Probe, HalfOpen, Tripped, vars,
     breakerVars, history
<1> DEFINE CallTypes ==
      /\ pc' \in [Callers -> {"idle", "attempt", "backoff"}]
      /\ attempt' \in [Callers -> 0..MaxAttempts]
      /\ executed' \in [Callers -> 0..(MaxAttempts + 1)]
<1>4. CallTypes
  <2> USE DEF TypeOK, Goto, Done
  <2>1. ASSUME NEW c \in Callers, Admit(c) PROVE CallTypes
    BY <2>1 DEF Admit
  <2>2. ASSUME NEW c \in Callers, Ending(c) PROVE CallTypes
    BY <2>2 DEF Ending, Succeed, Correctable, Lasting, Retryable
  <2>3. ASSUME NEW c \in Callers, NextAttempt(c) PROVE CallTypes
    <3>1. attempt[c] + 1 \in 0..MaxAttempts
      BY <2>3, LimitRange DEF NextAttempt, Attempts
    <3> QED
      BY <2>3, <3>1 DEF NextAttempt, Counted
  <2>4. ASSUME NEW c \in Callers, Cancelled(c) PROVE CallTypes
    BY <2>4 DEF Cancelled
  <2>5. CASE UNCHANGED callVars
    BY <2>5 DEF callVars
  <2> QED
    BY <2>1, <2>2, <2>3, <2>4, <2>5
    DEF Next, List, Refuse, CooldownPasses, ContextEnds, Recover, vars
<1> QED
  BY <1>1, <1>2, <1>3, <1>4 DEF TypeOK

LEMMA AttemptsStep ==
  ASSUME Inv, Next
  PROVE  Attempts'
<1> USE DEF Inv, TypeOK, Attempts, Goto, Done
<1>1. AttemptLimit \in 1..MaxAttempts /\ MaxAttempts \in Nat
  BY LimitRange, PolicyAssumption
<1>2. idempotent' = idempotent
  BY DEF Next, List, Admit, Refuse, Ending, Succeed, Correctable, Lasting,
     Retryable, NextAttempt, Cancelled, CooldownPasses, ContextEnds, Recover,
     worldVars, vars
<1>3. AttemptLimit' = AttemptLimit
  BY <1>2 DEF AttemptLimit
<1>4. ASSUME NEW c \in Callers, Admit(c) PROVE Attempts'
  BY <1>1, <1>3, <1>4 DEF Admit
<1>5. ASSUME NEW c \in Callers, Succeed(c) \/ Correctable(c) \/ Lasting(c)
      PROVE  Attempts'
  BY <1>3, <1>5 DEF Succeed, Correctable, Lasting
<1>6. ASSUME NEW c \in Callers, Retryable(c) PROVE Attempts'
  BY <1>1, <1>3, <1>6 DEF Retryable, LastAttempt
<1>7. ASSUME NEW c \in Callers, NextAttempt(c) PROVE Attempts'
  BY <1>1, <1>3, <1>7 DEF NextAttempt, Counted
<1>8. ASSUME NEW c \in Callers, Cancelled(c) PROVE Attempts'
  BY <1>3, <1>8 DEF Cancelled
<1>9. CASE UNCHANGED callVars
  BY <1>3, <1>9 DEF callVars
<1> QED
  BY <1>4, <1>5, <1>6, <1>7, <1>8, <1>9
  DEF Next, Ending, List, Refuse, CooldownPasses, ContextEnds, Recover, vars

LEMMA BreakerStep ==
  ASSUME Inv, Next
  PROVE  CountsTheStreak' /\ Shut'
<1> USE PolicyAssumption DEF Inv, TypeOK, CountsTheStreak, Shut
<1>1. CASE RecordFailure
  BY <1>1 DEF RecordFailure, Opens, breakerVars
<1>2. CASE RecordSuccess
  BY <1>2 DEF RecordSuccess
<1>3. CASE Probe /\ UNCHANGED <<cooled, history>>
  BY <1>3 DEF Probe, HalfOpen, Tripped, history
<1>4. CASE CooldownPasses
  BY <1>4 DEF CooldownPasses
<1>5. CASE UNCHANGED <<breakerVars, history>>
  BY <1>5 DEF breakerVars, history
<1> QED
  BY <1>1, <1>2, <1>3, <1>4, <1>5
  DEF Next, List, Admit, Refuse, Ending, Succeed, Correctable, Lasting,
      Retryable, NextAttempt, Cancelled, ContextEnds, Recover, vars, history

LEMMA StepInv == Inv /\ [Next]_vars => Inv'
<1> SUFFICES ASSUME Inv, [Next]_vars PROVE Inv'
  OBVIOUS
<1>1. CASE Next
  BY <1>1, TypeStep, AttemptsStep, BreakerStep DEF Inv
<1>2. CASE UNCHANGED vars
  BY <1>2 DEF Inv, TypeOK, Attempts, AttemptLimit, CountsTheStreak, Shut, vars,
              breakerVars, callVars, worldVars, history
<1> QED
  BY <1>1, <1>2

-----------------------------------------------------------------------------
(* The theorems. *)

\* The invariant holds in every reachable state (tool/policy.go).
THEOREM PolicyInvariant == Spec => []Inv
BY InitInv, StepInv, PTL DEF Spec

\* Types, and no attempt beyond the policy's limit (guarded.Invoke).
THEOREM PolicyTypes == Spec => []TypeOK
<1>1. Inv => TypeOK
  BY DEF Inv
<1> QED
  BY <1>1, PolicyInvariant, PTL

\* A tool is run at most MaxAttempts times by a call, and once if it is not
\* idempotent (guarded.Invoke).
THEOREM RetriesBounded == Spec => []NoBlindRetry
<1>1. Inv => NoBlindRetry
  BY DEF Inv, TypeOK, Attempts, AttemptLimit, NoBlindRetry
<1> QED
  BY <1>1, PolicyInvariant, PTL

\* The breaker's count is the number of failures since the last success, until
\* the threshold, and stays on its brink after that (recordOutcome,
\* breakerOpen).
THEOREM BreakerCounts == Spec => []CountsTheStreak
<1>1. Inv => CountsTheStreak
  BY DEF Inv
<1> QED
  BY <1>1, PolicyInvariant, PTL

\* After Threshold failures in a row no call is let through before the cooldown
\* has passed (breakerOpen).
THEOREM BrokenToolLeftAlone == Spec => LeftAlone
<1>1. ASSUME Inv, [Next]_vars, NEW c \in Callers,
             pc[c] = "idle", pc'[c] = "attempt", Threshold > 0,
             streak = Threshold
      PROVE  rested
  <2>1. ~Open
    BY <1>1 DEF Inv, TypeOK, Next, List, Admit, Refuse, Ending, Succeed,
       Correctable, Lasting, Retryable, NextAttempt, Cancelled, Done, Goto,
       CooldownPasses, ContextEnds, Recover, vars, callVars
  <2> QED
    BY <1>1, <2>1 DEF Inv, Shut, Open, HalfOpen, Tripped
<1>2. Inv /\ [Next]_vars =>
        [\A c \in Callers :
           pc[c] = "idle" /\ pc'[c] = "attempt" /\ Threshold > 0
               /\ streak = Threshold
             => rested]_vars
  BY <1>1
<1> QED
  BY <1>2, PolicyInvariant, PTL DEF Spec, LeftAlone
=============================================================================
