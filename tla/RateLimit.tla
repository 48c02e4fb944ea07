----------------------------- MODULE RateLimit ------------------------------
(***************************************************************************)
(* Completions through one OpenAI-compatible provider                      *)
(* (llm/openaicompat/openaicompat.go, Complete): every agent of a phase    *)
(* calls the same provider, each call is tried up to MaxAttempts times,    *)
(* and a 429 sets a time before which no caller should send again.         *)
(*                                                                         *)
(* Time is a counter.  It passes only while somebody or the pause waits    *)
(* for it, for otherwise it makes no difference, so it needs no bound.     *)
(* The endpoint is external: any answer may come to any request.           *)
(***************************************************************************)
EXTENDS Integers, FiniteSets

CONSTANTS
  Callers,     \* calls of Complete
  MaxAttempts,
  Headers,     \* the waits a Retry-After header may state, 0 for no header
  Bodies,      \* the waits an error message may state, 0 for none
  Margin,      \* what is added to the latter
  BaseBackoff, MaxBackoff

ASSUME RateLimitAssumption ==
  /\ MaxAttempts \in Nat \ {0}
  /\ Headers \subseteq Nat
  /\ Bodies \subseteq Nat
  /\ Margin \in Nat

VARIABLES
  now,
  notBefore,  \* the shared pause ends
  pc,         \* of each call: "top" of the loop, in "cooldown", "ready" to
              \*   send, "sent", in "backoff", or what it returned
  attempt,    \* attemptNumber
  wake,       \* when the sleep of a call in cooldown or backoff ends
  ctxDone,    \* the context of the calls
  \* history, read by the properties only
  announced,  \* when the last of the pauses announced with a 429 so far ends, in
              \*   the words of the endpoint if it has stated any
  known       \* when the waits end that bind the attempt of each call: those
              \*   announced as of the top of its loop, and those it was told of

vars == <<now, notBefore, pc, attempt, wake, ctxDone, announced, known>>

Init ==
  /\ now = 0
  /\ notBefore = 0
  /\ pc = [c \in Callers |-> "top"]
  /\ attempt = [c \in Callers |-> 1]
  /\ wake = [c \in Callers |-> 0]
  /\ ctxDone = FALSE
  /\ announced = 0
  /\ known = [c \in Callers |-> 0]

Goto(c, where) == pc' = [pc EXCEPT ![c] = where]
Sleeping(c) == pc[c] \in {"cooldown", "backoff"}
SleepUntil(c, t) == wake' = [wake EXCEPT ![c] = t]
Later(s, t) == IF s > t THEN s ELSE t

\* waitForCooldown: notBefore is read once, under the lock, and slept on.
WaitForCooldown(c) ==
  /\ pc[c] = "top"
  /\ known' = [known EXCEPT ![c] = Later(announced, @)]
  /\ IF notBefore > now
       THEN Goto(c, "cooldown") /\ SleepUntil(c, notBefore)
       ELSE Goto(c, "ready") /\ UNCHANGED wake
  /\ UNCHANGED <<now, notBefore, attempt, ctxDone, announced>>

CooldownOver(c) == pc[c] = "cooldown" /\ now >= wake[c] /\ Goto(c, "ready")

\* Mutant of NextAttempt: attempts are not counted.
NextAttemptUncounted(c) == Goto(c, "top") /\ UNCHANGED attempt

NextAttempt(c) == Goto(c, "top") /\ attempt' = [attempt EXCEPT ![c] = @ + 1]

\* The timer fires: send, or begin the next attempt.
WakeUp(c) ==
  /\ \/ CooldownOver(c) /\ UNCHANGED attempt
     \/ pc[c] = "backoff" /\ now >= wake[c] /\ NextAttempt(c)
  /\ UNCHANGED <<now, notBefore, wake, ctxDone, announced, known>>

\* The sleep ends with the context.
Cancelled(c) ==
  /\ Sleeping(c)
  /\ ctxDone
  /\ Goto(c, "cancelled")
  /\ UNCHANGED <<now, notBefore, attempt, wake, ctxDone, announced, known>>

Send(c) ==
  /\ pc[c] = "ready"
  /\ Goto(c, "sent")
  /\ UNCHANGED <<now, notBefore, attempt, wake, ctxDone, announced, known>>

\* An answer, or an error that another attempt would not change.
Settled(c) ==
  /\ pc[c] = "sent"
  /\ Goto(c, "answered") \/ Goto(c, "failed")
  /\ UNCHANGED <<now, notBefore, attempt, wake, ctxDone, announced, known>>

\* retryDelayFor: the header is believed first.
RetryDelay(header, body) ==
  CASE header > 0 -> header
    [] header = 0 /\ body > 0 -> body + Margin
    [] header = 0 /\ body = 0 -> 0

\* What the endpoint has asked for, or the guess made without a word from it.
Told(header, body, wait) ==
  CASE header > 0 -> header
    [] header = 0 /\ body > 0 -> body
    [] header = 0 /\ body = 0 -> wait

Capped(n) ==
  IF BaseBackoff * 2 ^ (n - 1) > MaxBackoff THEN MaxBackoff ELSE BaseBackoff * 2 ^ (n - 1)

\* Mutant of Backoffs: a stated wait is spread out like a guess.
BackoffsJittered(n, delay) == 0..(IF delay > 0 THEN delay ELSE Capped(n))

\* backoffFor: a stated wait as it is, a guess with jitter.
Backoffs(n, delay) == IF delay > 0 THEN {delay} ELSE 0..Capped(n)

LastAttempt(c) == attempt[c] = MaxAttempts

\* Sleep before the next attempt, or give up.
BackOff(c, wait) ==
  IF LastAttempt(c)
    THEN Goto(c, "exhausted") /\ UNCHANGED wake
    ELSE Goto(c, "backoff") /\ SleepUntil(c, now + wait)

Hears(c, told) == known' = [known EXCEPT ![c] = Later(now + told, @)]

\* enterCooldown: a pause is never shortened.
Extended(wait) == Later(now + wait, notBefore)

\* A 429: the pause is entered even when this call has no attempt left.
RateLimited(c, header, body) ==
  /\ pc[c] = "sent"
  /\ \E wait \in Backoffs(attempt[c], RetryDelay(header, body)) :
       /\ IF wait > 0
            THEN /\ notBefore' = Extended(wait)
                 /\ announced' = Later(now + Told(header, body, wait), announced)
            ELSE UNCHANGED <<notBefore, announced>>
       /\ BackOff(c, wait)
       /\ Hears(c, Told(header, body, wait))
  /\ UNCHANGED <<now, attempt, ctxDone>>

\* Another transient failure, which may state a wait as well (a 503 or a 408):
\* it is this call's alone.  The context ending is taken for one.
Transient(c, header, body) ==
  /\ pc[c] = "sent"
  /\ \E wait \in Backoffs(attempt[c], RetryDelay(header, body)) :
       /\ BackOff(c, wait)
       /\ Hears(c, Told(header, body, wait))
  /\ UNCHANGED <<now, notBefore, attempt, ctxDone, announced>>

Tick ==
  /\ notBefore > now \/ \E c \in Callers : Sleeping(c) /\ wake[c] > now
  /\ now' = now + 1
  /\ UNCHANGED <<notBefore, pc, attempt, wake, ctxDone, announced, known>>

ContextEnds ==
  /\ ~ctxDone
  /\ ctxDone' = TRUE
  /\ UNCHANGED <<now, notBefore, pc, attempt, wake, announced, known>>

Results == {"answered", "failed", "exhausted", "cancelled"}

Terminated == (\A c \in Callers : pc[c] \in Results) /\ UNCHANGED vars

Step(c) ==
  \/ WaitForCooldown(c)
  \/ WakeUp(c)
  \/ Cancelled(c)
  \/ Send(c)
  \/ Settled(c)
  \/ \E header \in Headers, body \in Bodies :
       RateLimited(c, header, body) \/ Transient(c, header, body)

Next ==
  \/ \E c \in Callers : Step(c)
  \/ Tick
  \/ ContextEnds
  \/ Terminated

Spec == Init /\ [][Next]_vars

\* Goroutines run, the clock ticks, and the HTTP client has a timeout.
FairSpec == Spec /\ WF_vars(Tick) /\ \A c \in Callers : WF_vars(Step(c))

-----------------------------------------------------------------------------
(* Properties. *)

TypeOK ==
  /\ now \in Nat /\ notBefore \in Nat
  /\ pc \in [Callers -> {"top", "cooldown", "ready", "sent", "backoff"}
                          \cup Results]
  /\ attempt \in [Callers -> 1..MaxAttempts]
  /\ wake \in [Callers -> Nat]
  /\ ctxDone \in BOOLEAN
  /\ announced \in Nat
  /\ known \in [Callers -> Nat]

\* No attempt is sent before the end of the waits that bind it: those stated
\* with a 429 to any call before the attempt began, and those stated to this very
\* call with any status, in whichever of the two places, later and shorter
\* announcements, other callers' successes and jitter notwithstanding
\* (waitForCooldown, enterCooldown, retryDelayFor, backoffFor).  A wait stated
\* with a 503 or a 408 binds no other call: others do send before it is over.
PauseHonoured ==
  \A c \in Callers : pc[c] \in {"ready", "sent"} => now >= known[c]

\* Every call returns: the pauses that others provoke cannot hold it back for
\* ever, since each call provokes only so many.
EveryCallReturns == \A c \in Callers : <>(pc[c] \in Results)
=============================================================================
