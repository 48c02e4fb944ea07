----------------------------- MODULE ToolPolicy ------------------------------
(***************************************************************************)
(* One tool behind its policy (tool/policy.go): the attempts of a call and *)
(* the circuit breaker, and how the registry shows the tool to the models  *)
(* (tool/registry.go).  Several loops may call the tool: registries made   *)
(* by Scoped share it, which is what its mutex is for.                     *)
(*                                                                         *)
(* The clock matters only through the breaker's cooldown: `cooled` says    *)
(* that it has passed since openedAt.  The tool itself is external: any    *)
(* attempt may end in any way, until the tool has recovered.  Degradable   *)
(* and fatal failures are treated alike here: they are "lasting".          *)
(***************************************************************************)
EXTENDS Integers

CONSTANTS
  Callers,      \* the loops that hold the tool in their registry
  MaxAttempts,  \* Policy.MaxAttempts
  Threshold     \* Policy.BreakerThreshold; 0 means no breaker

ASSUME PolicyAssumption ==
  /\ MaxAttempts \in Nat \ {0}
  /\ Threshold \in Nat

VARIABLES
  failures,    \* breaker.consecutiveFailures
  cooled,      \* BreakerCooldown has passed since breaker.openedAt
  idempotent,  \* what the tool's Idempotent says
  pc,          \* of each caller: "idle", in an "attempt", or in "backoff"
  attempt,     \* attemptNumber of its call
  offered,     \* the tool was in the schemas that its loop saw last
  ctxDone,     \* the context of the calls
  recovered,   \* the tool works from now on
  \* history, read by the properties only
  executed,    \* how often its call ran the tool, up to once too often
  streak,      \* failures since the last success, up to Threshold
  rested       \* BreakerCooldown has passed since streak became Threshold

breakerVars == <<failures, cooled>>
callVars == <<pc, attempt, executed>>
worldVars == <<idempotent, ctxDone, recovered>>
history == <<streak, rested>>
vars == <<breakerVars, callVars, worldVars, offered, history>>

Init ==
  /\ failures = 0
  /\ cooled = TRUE
  /\ idempotent \in BOOLEAN
  /\ pc = [c \in Callers |-> "idle"]
  /\ attempt = [c \in Callers |-> 0]
  /\ offered = [c \in Callers |-> FALSE]
  /\ ctxDone = FALSE
  /\ recovered = FALSE
  /\ executed = [c \in Callers |-> 0]
  /\ streak = 0
  /\ rested = TRUE

Goto(c, where) == pc' = [pc EXCEPT ![c] = where]

-----------------------------------------------------------------------------
(* The breaker. *)

Tripped == Threshold > 0 /\ failures >= Threshold

\* Mutant of HalfOpen: a tool that is out stays out.
HalfOpenNever == FALSE

HalfOpen == Tripped /\ cooled

\* What breakerOpen answers; once the cooldown has passed it lets a call
\* through, by lowering the count.
Open == Tripped /\ ~HalfOpen

Probe == failures' = IF HalfOpen THEN Threshold - 1 ELSE failures

\* Mutant of Opens: the failure after the one that trips the breaker.
OpensLate == failures = Threshold

\* This failure is the one that trips the breaker.
Opens == failures + 1 = Threshold

\* recordOutcome(false), with the history.
RecordFailure ==
  /\ IF Threshold > 0
       THEN /\ failures' = failures + 1
            /\ cooled' = (cooled /\ ~Opens)
       ELSE UNCHANGED breakerVars
  /\ streak' = IF streak < Threshold THEN streak + 1 ELSE streak
  /\ rested' = (rested /\ streak + 1 # Threshold)

\* Mutant of RecordSuccess: one success takes back one failure.
RecordSuccessOnce ==
  /\ failures' = IF failures > 0 THEN failures - 1 ELSE 0
  /\ streak' = 0 /\ rested' = TRUE
  /\ UNCHANGED cooled

\* recordOutcome(true).
RecordSuccess ==
  /\ failures' = 0
  /\ streak' = 0 /\ rested' = TRUE
  /\ UNCHANGED cooled

CooldownPasses ==
  /\ ~(cooled /\ rested)
  /\ cooled' = TRUE
  /\ rested' = TRUE
  /\ UNCHANGED <<failures, callVars, worldVars, offered, streak>>

-----------------------------------------------------------------------------
(* The registry. *)

\* Schemas and DegradedTools ask breakerOpen, and so may use the probe up.
List(c) ==
  /\ pc[c] = "idle"
  /\ Probe
  /\ offered' = [offered EXCEPT ![c] = ~Open]
  /\ UNCHANGED <<cooled, callVars, worldVars, history>>

-----------------------------------------------------------------------------
(* guarded.Invoke. *)

\* A call begins; a model may call a tool that it was not offered.
Admit(c) ==
  /\ pc[c] = "idle"
  /\ ~Open
  /\ Probe
  /\ Goto(c, "attempt")
  /\ attempt' = [attempt EXCEPT ![c] = 1]
  /\ executed' = [executed EXCEPT ![c] = 1]
  /\ UNCHANGED <<cooled, worldVars, offered, history>>

\* ErrBreakerOpen: the call returns at once and changes nothing.
Refuse(c) ==
  /\ pc[c] = "idle"
  /\ Open
  /\ UNCHANGED vars

Done(c) == Goto(c, "idle") /\ UNCHANGED <<attempt, executed>>

Succeed(c) ==
  /\ pc[c] = "attempt"
  /\ RecordSuccess
  /\ Done(c)
  /\ UNCHANGED <<worldVars, offered>>

\* The model's mistake: no retry, and nothing for the breaker to count.
Correctable(c) ==
  /\ pc[c] = "attempt"
  /\ Done(c)
  /\ UNCHANGED <<breakerVars, worldVars, offered, history>>

Lasting(c) ==
  /\ pc[c] = "attempt"
  /\ ~recovered
  /\ RecordFailure
  /\ Done(c)
  /\ UNCHANGED <<worldVars, offered>>

\* Mutant of AttemptLimit: every tool is tried again.
AttemptLimitOfPolicy == MaxAttempts

\* A tool that is not idempotent is never tried again.
AttemptLimit == IF idempotent THEN MaxAttempts ELSE 1

LastAttempt(c) == attempt[c] = AttemptLimit

\* A failure that another attempt may cure.  The breaker does not interrupt the
\* attempts of a call.
Retryable(c) ==
  /\ pc[c] = "attempt"
  /\ ~recovered
  /\ RecordFailure
  /\ IF LastAttempt(c)
       THEN Done(c)
       ELSE Goto(c, "backoff") /\ UNCHANGED <<attempt, executed>>
  /\ UNCHANGED <<worldVars, offered>>

\* Mutant of Counted: attempts are not counted.
NotCounted(c) == UNCHANGED attempt

Counted(c) == attempt' = [attempt EXCEPT ![c] = @ + 1]

NextAttempt(c) ==
  /\ pc[c] = "backoff"
  /\ Goto(c, "attempt")
  /\ Counted(c)
  /\ executed' = [executed EXCEPT ![c] = IF @ <= MaxAttempts THEN @ + 1 ELSE @]
  /\ UNCHANGED <<breakerVars, worldVars, offered, history>>

\* The sleep ends with the context.
Cancelled(c) ==
  /\ pc[c] = "backoff"
  /\ ctxDone
  /\ Done(c)
  /\ UNCHANGED <<breakerVars, worldVars, offered, history>>

-----------------------------------------------------------------------------

ContextEnds ==
  /\ ~ctxDone
  /\ ctxDone' = TRUE
  /\ UNCHANGED <<breakerVars, callVars, idempotent, recovered, offered, history>>

Recover ==
  /\ ~recovered
  /\ recovered' = TRUE
  /\ UNCHANGED <<breakerVars, callVars, idempotent, ctxDone, offered, history>>

Ending(c) == Succeed(c) \/ Correctable(c) \/ Lasting(c) \/ Retryable(c)

Next ==
  \/ \E c \in Callers :
       \/ List(c) \/ Admit(c) \/ Refuse(c) \/ Ending(c)
       \/ NextAttempt(c) \/ Cancelled(c)
  \/ CooldownPasses
  \/ ContextEnds
  \/ Recover

Spec == Init /\ [][Next]_vars

\* A sleep has an end; time passes.  An attempt need not end: its timeout is a
\* context, which the tool may ignore (a read over MCP does), and Invoke waits for
\* the tool.  A loop asks for the schemas before each completion, so between two
\* listings it makes only the calls of one response: if those return, it is idle
\* again and again and lists again, which is what strong fairness says.  Nobody
\* need call the tool.
FairSpec ==
  /\ Spec
  /\ WF_vars(CooldownPasses)
  /\ \A c \in Callers :
       WF_vars(NextAttempt(c)) /\ SF_vars(List(c))

-----------------------------------------------------------------------------
(* Properties. *)

\* Types; no call counts an attempt beyond the policy's limit.
TypeOK ==
  /\ failures \in Nat
  /\ cooled \in BOOLEAN /\ idempotent \in BOOLEAN
  /\ pc \in [Callers -> {"idle", "attempt", "backoff"}]
  /\ attempt \in [Callers -> 0..MaxAttempts]
  /\ offered \in [Callers -> BOOLEAN]
  /\ ctxDone \in BOOLEAN /\ recovered \in BOOLEAN
  /\ executed \in [Callers -> 0..(MaxAttempts + 1)]
  /\ streak \in 0..Threshold
  /\ rested \in BOOLEAN

\* A call runs its tool at most MaxAttempts times, and only once if the tool is
\* not idempotent: that is how duplicate tickets come about (WritePolicy).
NoBlindRetry ==
  \A c \in Callers : executed[c] <= IF idempotent THEN MaxAttempts ELSE 1

\* Through retries, probes and the calls of others, the breaker counts what it
\* is about: below the threshold exactly the failures since the last success,
\* and once there were enough of them, one more failure opens it again.
CountsTheStreak ==
  /\ streak < Threshold => failures = streak
  /\ streak = Threshold => failures >= Threshold - 1

\* A tool that has failed Threshold times in a row is left alone for a cooldown,
\* whatever the calls that are still under way do (breakerOpen).
LeftAlone ==
  [][\A c \in Callers :
       pc[c] = "idle" /\ pc'[c] = "attempt" /\ Threshold > 0 /\ streak = Threshold
         => rested]_vars

\* The tool lets none of the attempts of a caller hang.
AttemptsEnd(c) == []<>(pc[c] # "attempt")

\* A call whose attempts end returns (guarded.Invoke): of itself the policy tries
\* and waits only so often.  That an attempt ends is up to the tool.
CallsReturn ==
  \A c \in Callers : AttemptsEnd(c) => (pc[c] # "idle" ~> pc[c] = "idle")

\* A tool that recovers is offered again to a loop none of whose calls hangs, for
\* as long as the loop goes on, even if its model calls only what it is offered,
\* and if other loops are left hanging: listing is enough (Schemas).
BackInService ==
  \A c \in Callers : AttemptsEnd(c) => <>[](recovered => offered[c])
=============================================================================
