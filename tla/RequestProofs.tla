---------------------------- MODULE RequestProofs ----------------------------
(***************************************************************************)
(* What a loop sends, and how: proofs about RateLimit, for any number of   *)
(* callers and attempts and any waits, and about Conversation, for any     *)
(* files, caps, thresholds and numbers of calls.  In order: the pauses of  *)
(* RateLimit; induction, and what flattening, concatenating and cutting    *)
(* sequences gives; the working set (WorkingSetInv), whose every request   *)
(* is whole; reading and paging (ReadingInv), which loses nothing.         *)
(***************************************************************************)
EXTENDS Conversation, RateLimit, SequenceTheorems, WellFoundedInduction, TLAPS

-----------------------------------------------------------------------------
(* The attempts of RateLimit. *)

\* The pause in force covers the pauses announced, and a caller asleep, on it or
\* on its own backoff, wakes after the waits that it knows of; the backoff over,
\* none of those is left.
PauseInv ==
  /\ TypeOK
  /\ announced <= notBefore
  /\ \A c \in Callers : Sleeping(c) => wake[c] >= known[c]
  /\ \A c \in Callers : pc[c] = "top" => now >= known[c]
  /\ \A c \in Callers : pc[c] = "backoff" => attempt[c] # MaxAttempts
  /\ PauseHonoured

\* backoffFor never falls short of what the endpoint has asked for.
LEMMA WaitCovers ==
  ASSUME NEW n, NEW header \in Headers, NEW body \in Bodies,
         NEW wait \in Backoffs(n, RetryDelay(header, body))
  PROVE  /\ wait \in Nat
         /\ Told(header, body, wait) \in Nat
         /\ Told(header, body, wait) <= wait
<1>1. header \in Nat /\ body \in Nat /\ Margin \in Nat
  BY RateLimitAssumption
<1>2. CASE header > 0
  <2>1. RetryDelay(header, body) = header /\ Told(header, body, wait) = header
    BY <1>1, <1>2 DEF RetryDelay, Told
  <2> QED BY <1>1, <1>2, <2>1 DEF Backoffs
<1>3. CASE header = 0 /\ body > 0
  <2>1. RetryDelay(header, body) = body + Margin /\ Told(header, body, wait) = body
    BY <1>1, <1>3 DEF RetryDelay, Told
  <2> QED BY <1>1, <1>3, <2>1 DEF Backoffs
<1>4. CASE header = 0 /\ body = 0
  <2>1. RetryDelay(header, body) = 0 /\ Told(header, body, wait) = wait
    BY <1>4 DEF RetryDelay, Told
  <2>2. wait \in 0..Capped(n)
    BY <2>1 DEF Backoffs
  <2> QED BY <2>1, <2>2
<1> QED BY <1>1, <1>2, <1>3, <1>4

LEMMA PauseInit == Init => PauseInv
<1> SUFFICES ASSUME Init PROVE PauseInv
  OBVIOUS
<1>1. 1 \in 1..MaxAttempts
  BY RateLimitAssumption
<1>2. attempt \in [Callers -> 1..MaxAttempts]
  BY <1>1 DEF Init
<1>3. TypeOK
  BY <1>2 DEF Init, TypeOK, Results
<1> QED BY <1>3 DEF Init, PauseInv, PauseHonoured

\* A failing answer that is not the last: the call sleeps until what it has just
\* heard, and all it knew before, is over.
LEMMA BackOffKeeps ==
  ASSUME TypeOK, NEW c \in Callers, NEW wait \in Nat, NEW told \in Nat,
         told <= wait, now >= known[c], BackOff(c, wait), Hears(c, told),
         UNCHANGED <<now, attempt, ctxDone>>,
         notBefore' \in Nat, announced' \in Nat,
         \A d \in Callers : Sleeping(d) => wake[d] >= known[d]
  PROVE  /\ TypeOK'
         /\ \A d \in Callers : Sleeping(d)' => wake'[d] >= known'[d]
<1> USE DEF TypeOK, Results
<1>1. /\ known[c] \in Nat /\ now \in Nat /\ now + told \in Nat /\ now + wait \in Nat
      /\ now + told <= now + wait /\ known[c] <= now + wait
  OBVIOUS
<1>2. PICK heard \in Nat :
        heard = Later(now + told, known[c]) /\ heard <= now + wait
  <2>1. PICK s, t, bound \in Nat : s = now + told /\ t = known[c] /\ bound = now + wait
    BY <1>1
  <2>2. Later(s, t) \in Nat /\ Later(s, t) <= bound
    BY ONLY <1>1, <2>1, s \in Nat, t \in Nat DEF Later
  <2> QED BY <2>1, <2>2
<1>3. known' = [known EXCEPT ![c] = heard] /\ known' \in [Callers -> Nat]
  BY <1>2 DEF Hears
<1>4. \/ pc' = [pc EXCEPT ![c] = "exhausted"] /\ UNCHANGED wake
      \/ /\ pc' = [pc EXCEPT ![c] = "backoff"]
         /\ wake' = [wake EXCEPT ![c] = now + wait]
  BY DEF BackOff, Goto, SleepUntil
<1>5. wake' \in [Callers -> Nat]
  BY <1>1, <1>4
<1>6. TypeOK'
  <2>1. pc' \in [Callers -> {"top", "cooldown", "ready", "sent", "backoff"} \cup Results]
    BY <1>4
  <2> QED BY <1>3, <1>5, <2>1
<1>7. ASSUME NEW d \in Callers, Sleeping(d)'
      PROVE  wake'[d] >= known'[d]
  <2>1. CASE d = c
    <3>1. pc'[c] = "backoff"
      BY <1>4, <1>7, <2>1 DEF Sleeping
    <3>2. wake'[c] = now + wait /\ known'[c] = heard
      BY <1>3, <1>4, <3>1
    <3> QED BY <1>2, <2>1, <3>2
  <2>2. CASE d # c
    <3>1. pc'[d] = pc[d] /\ wake'[d] = wake[d] /\ known'[d] = known[d]
      BY <1>3, <1>4, <2>2
    <3> QED BY <1>7, <3>1 DEF Sleeping
  <2> QED BY <2>1, <2>2
<1> QED BY <1>6, <1>7

\* The other calls stay where they are, and this one is neither at the top of its
\* loop nor sending.
LEMMA BackOffLeaves ==
  ASSUME TypeOK, NEW c \in Callers, NEW wait, NEW told,
         BackOff(c, wait), Hears(c, told), UNCHANGED <<now, attempt>>
  PROVE  /\ \A d \in Callers : pc'[d] \in {"top", "ready", "sent"} =>
              pc'[d] = pc[d] /\ known'[d] = known[d] /\ now' = now
         /\ \A d \in Callers : pc'[d] = "backoff" =>
              \/ pc[d] = "backoff" /\ attempt'[d] = attempt[d]
              \/ d = c /\ attempt'[d] # MaxAttempts
BY DEF TypeOK, BackOff, Hears, Goto, LastAttempt

LEMMA PauseNext ==
  ASSUME PauseInv, [Next]_vars
  PROVE  PauseInv'
<1> USE RateLimitAssumption DEF PauseInv, TypeOK, PauseHonoured, Results, Sleeping
<1>1. ASSUME NEW c \in Callers, WaitForCooldown(c)
      PROVE  PauseInv'
  <2>1. PICK later \in Nat :
          /\ later = Later(announced, known[c])
          /\ (now >= known[c] /\ now >= notBefore) => now >= later
          /\ (now >= known[c] /\ notBefore > now) => notBefore >= later
    <3>1. announced \in Nat /\ known[c] \in Nat /\ now \in Nat /\ notBefore \in Nat
      OBVIOUS
    <3> QED BY <3>1 DEF Later
  <2>2. /\ pc[c] = "top" /\ now >= known[c]
        /\ known' = [known EXCEPT ![c] = later]
        /\ UNCHANGED <<now, notBefore, attempt, ctxDone, announced>>
    BY <1>1, <2>1 DEF WaitForCooldown
  <2>3. CASE notBefore > now
    <3>1. /\ pc' = [pc EXCEPT ![c] = "cooldown"]
          /\ wake' = [wake EXCEPT ![c] = notBefore]
      BY <1>1, <2>3 DEF WaitForCooldown, Goto, SleepUntil
    <3>2. notBefore >= later
      BY <2>1, <2>2, <2>3
    <3> QED BY <2>2, <3>1, <3>2
  <2>4. CASE ~(notBefore > now)
    <3>1. pc' = [pc EXCEPT ![c] = "ready"] /\ UNCHANGED wake
      BY <1>1, <2>4 DEF WaitForCooldown, Goto
    <3>2. now >= later
      BY <2>1, <2>2, <2>4
    <3> QED BY <2>2, <3>1, <3>2
  <2> QED BY <2>3, <2>4
<1>2. ASSUME NEW c \in Callers, WakeUp(c)
      PROVE  PauseInv'
  <2>1. CASE CooldownOver(c) /\ UNCHANGED attempt
    BY <1>2, <2>1 DEF WakeUp, CooldownOver, Goto
  <2>2. CASE pc[c] = "backoff" /\ now >= wake[c] /\ NextAttempt(c)
    <3>1. /\ pc' = [pc EXCEPT ![c] = "top"]
          /\ attempt' = [attempt EXCEPT ![c] = @ + 1]
          /\ UNCHANGED <<now, notBefore, wake, ctxDone, announced, known>>
      BY <1>2, <2>2 DEF WakeUp, NextAttempt, Goto, CooldownOver
    <3>2. attempt[c] \in 1..MaxAttempts /\ attempt[c] # MaxAttempts
      BY <2>2
    <3>3. attempt[c] + 1 \in 1..MaxAttempts
      BY ONLY <3>2, RateLimitAssumption
    <3>4. attempt' \in [Callers -> 1..MaxAttempts]
      BY ONLY <3>1, <3>3, attempt \in [Callers -> 1..MaxAttempts]
    <3>5. now >= known[c]
      BY <2>2
    <3> QED BY <3>1, <3>4, <3>5
  <2> QED BY <1>2, <2>1, <2>2 DEF WakeUp
<1>3. ASSUME NEW c \in Callers, Cancelled(c) \/ Send(c) \/ Settled(c)
      PROVE  PauseInv'
  BY <1>3 DEF Cancelled, Send, Settled, Goto
<1>4. ASSUME NEW c \in Callers, NEW header \in Headers, NEW body \in Bodies,
             RateLimited(c, header, body)
      PROVE  PauseInv'
  <2> DEFINE told(wait) == Told(header, body, wait)
  <2>0. PICK wait \in Backoffs(attempt[c], RetryDelay(header, body)) :
          /\ IF wait > 0
               THEN /\ notBefore' = Extended(wait)
                    /\ announced' = Later(now + told(wait), announced)
               ELSE UNCHANGED <<notBefore, announced>>
          /\ BackOff(c, wait)
          /\ Hears(c, told(wait))
    BY <1>4 DEF RateLimited
  <2> wait \in Nat /\ told(wait) \in Nat /\ told(wait) <= wait
    BY WaitCovers
  <2> now \in Nat /\ notBefore \in Nat
    OBVIOUS
  <2> HIDE DEF told
  <2>1. /\ notBefore' \in Nat /\ announced' \in Nat
        /\ announced' <= notBefore'
    <3>1. \/ UNCHANGED <<notBefore, announced>>
          \/ /\ notBefore' = Extended(wait)
             /\ announced' = Later(now + told(wait), announced)
      BY <2>0
    <3>2. /\ Extended(wait) \in Nat
          /\ Extended(wait) >= notBefore /\ Extended(wait) >= now + wait
      BY DEF Extended, Later
    <3>3. announced \in Nat /\ announced <= notBefore
      OBVIOUS
    <3>4. now + told(wait) \in Nat /\ now + told(wait) <= Extended(wait)
      BY <3>2
    <3>5. ASSUME notBefore' = Extended(wait), announced' = Later(now + told(wait), announced)
          PROVE  /\ notBefore' \in Nat /\ announced' \in Nat
                 /\ announced' <= notBefore'
      BY ONLY <3>2, <3>3, <3>4, <3>5, notBefore \in Nat DEF Later
    <3> QED BY <3>1, <3>3, <3>5
  <2>2. UNCHANGED <<now, attempt, ctxDone>> /\ pc[c] = "sent" /\ now >= known[c]
    BY <1>4 DEF RateLimited
  <2>3. /\ TypeOK'
        /\ \A d \in Callers : Sleeping(d)' => wake'[d] >= known'[d]
    BY <2>0, <2>1, <2>2, BackOffKeeps
  <2> QED BY <2>0, <2>1, <2>2, <2>3, BackOffLeaves
<1>5. ASSUME NEW c \in Callers, NEW header \in Headers, NEW body \in Bodies,
             Transient(c, header, body)
      PROVE  PauseInv'
  <2> DEFINE told(wait) == Told(header, body, wait)
  <2>0. PICK wait \in Backoffs(attempt[c], RetryDelay(header, body)) :
          BackOff(c, wait) /\ Hears(c, told(wait))
    BY <1>5 DEF Transient
  <2> wait \in Nat /\ told(wait) \in Nat /\ told(wait) <= wait
    BY WaitCovers
  <2> HIDE DEF told
  <2>1. /\ UNCHANGED <<now, notBefore, attempt, ctxDone, announced>>
        /\ pc[c] = "sent" /\ now >= known[c]
    BY <1>5 DEF Transient
  <2>2. /\ TypeOK'
        /\ \A d \in Callers : Sleeping(d)' => wake'[d] >= known'[d]
    BY <2>0, <2>1, BackOffKeeps
  <2> QED BY <2>0, <2>1, <2>2, BackOffLeaves
<1>6. CASE Tick
  BY <1>6 DEF Tick
<1>7. CASE ContextEnds
  BY <1>7 DEF ContextEnds
<1>8. CASE UNCHANGED vars
  BY <1>8 DEF vars
<1> QED
  BY <1>1, <1>2, <1>3, <1>4, <1>5, <1>6, <1>7, <1>8
     DEF Next, Step, Terminated

\* The strengthened invariant holds throughout.
THEOREM PauseInvariant == Spec => []PauseInv
<1>1. Init => PauseInv
  BY PauseInit
<1>2. PauseInv /\ [Next]_vars => PauseInv'
  BY PauseNext
<1> QED BY <1>1, <1>2, PTL DEF Spec

\* The state of the calls has its type: no call makes more than MaxAttempts.
THEOREM CallTypes == Spec => []TypeOK
<1>1. PauseInv => TypeOK
  BY DEF PauseInv
<1> QED BY <1>1, PauseInvariant, PTL

\* No attempt goes out before the end of the waits stated with a 429, to whichever
\* call, before the attempt began, nor before the end of those stated to its own
\* call with any status (waitForCooldown, enterCooldown, backoffFor).
THEOREM PausesHonoured == Spec => []PauseHonoured
<1>1. PauseInv => PauseHonoured
  BY DEF PauseInv
<1> QED BY <1>1, PauseInvariant, PTL

-----------------------------------------------------------------------------
(* Sequences. *)

\* A set of numbers that has 0 and the successor of each of its members is the
\* set of all: induction, for any property a set can be made of.
LEMMA Induction ==
  ASSUME NEW numbers \in SUBSET Nat, 0 \in numbers,
         \A n \in numbers : n + 1 \in numbers
  PROVE  \A n \in Nat : n \in numbers
<1> DEFINE Less == OpToRel(<, Nat)
           others == Nat \ numbers
<1>1. IsWellFoundedOn(Less, Nat)
  BY NatLessThanWellFounded
<1>2. \A x, y \in Nat : x < y => <<x, y>> \in Less
  BY DEF OpToRel
<1> HIDE DEF Less
<1>3. ASSUME others # {}
      PROVE  FALSE
  <2>1. PICK m \in others : \A k \in others : ~(<<k, m>> \in Less)
    BY <1>1, <1>3, WFMin
  <2>2. m \in Nat /\ m # 0 /\ m \notin numbers
    OBVIOUS
  <2>3. m - 1 \in Nat /\ m - 1 < m
    BY <2>2
  <2>4. m - 1 \in others
    BY <2>2, <2>3
  <2> QED BY <1>2, <2>1, <2>2, <2>3, <2>4
<1> QED BY <1>3

\* The parts flattened so far, as FlattenSeq keeps them.
Flattened(g, n, parts) ==
  \A i \in 1..n : g[i] = IF i = 1 THEN parts[i] ELSE g[i - 1] \o parts[i]

\* There is such a record of what was flattened, and
LEMMA FlattenedExists ==
  ASSUME NEW S, NEW parts \in Seq(Seq(S)), NEW n \in 0..Len(parts)
  PROVE  \E g \in [1..n -> Seq(S)] : Flattened(g, n, parts)
<1> DEFINE good == {k \in Nat : k <= Len(parts) =>
                      \E g \in [1..k -> Seq(S)] : Flattened(g, k, parts)}
<1>1. Len(parts) \in Nat /\ \A i \in 1..Len(parts) : parts[i] \in Seq(S)
  OBVIOUS
<1>2. 0 \in good
  <2>1. [i \in 1..0 |-> <<>>] \in [1..0 -> Seq(S)] /\ Flattened([i \in 1..0 |-> <<>>], 0, parts)
    BY DEF Flattened
  <2> QED BY <2>1
<1>3. ASSUME NEW k \in good
      PROVE  k + 1 \in good
  <2> SUFFICES ASSUME k + 1 <= Len(parts)
               PROVE  \E g \in [1..(k + 1) -> Seq(S)] : Flattened(g, k + 1, parts)
    OBVIOUS
  <2>1. PICK g \in [1..k -> Seq(S)] : Flattened(g, k, parts)
    BY <1>1, <1>3
  <2> DEFINE new == IF k + 1 = 1 THEN parts[k + 1] ELSE g[k] \o parts[k + 1]
             h == [i \in 1..(k + 1) |-> IF i = k + 1 THEN new ELSE g[i]]
  <2>2. k \in Nat /\ k + 1 \in 1..Len(parts) /\ parts[k + 1] \in Seq(S)
    BY <1>1
  <2>3. new \in Seq(S)
    <3>1. CASE k + 1 = 1
      BY <2>2, <3>1
    <3>2. CASE k + 1 # 1
      <4>1. g[k] \in Seq(S)
        BY <2>2, <3>2
      <4> QED BY <2>2, <3>2, <4>1
    <3> QED BY <3>1, <3>2
  <2> HIDE DEF new
  <2>4. h \in [1..(k + 1) -> Seq(S)]
    BY <2>2, <2>3
  <2>5. Flattened(h, k + 1, parts)
    <3> SUFFICES ASSUME NEW i \in 1..(k + 1)
                 PROVE  h[i] = IF i = 1 THEN parts[i] ELSE h[i - 1] \o parts[i]
      BY DEF Flattened
    <3>1. CASE i = k + 1
      BY <2>2, <3>1 DEF new
    <3>2. CASE i # k + 1
      <4>1. i \in 1..k /\ h[i] = g[i] /\ (i # 1 => h[i - 1] = g[i - 1])
        BY <2>2, <3>2
      <4> QED BY <2>1, <4>1 DEF Flattened
    <3> QED BY <3>1, <3>2
  <2> QED BY <2>4, <2>5
<1> HIDE DEF good
<1>4. \A k \in Nat : k \in good
  <2>1. good \in SUBSET Nat
    BY DEF good
  <2> QED BY <1>2, <1>3, <2>1, Induction
<1> QED BY <1>1, <1>4 DEF good

\* there is only one.
LEMMA FlattenedSame ==
  ASSUME NEW parts, NEW n \in Nat, NEW g, NEW h, NEW m \in Nat,
         Flattened(g, n, parts), Flattened(h, m, parts),
         NEW i \in 1..n, i <= m
  PROVE  g[i] = h[i]
<1> DEFINE good == {k \in Nat : k + 1 <= n /\ k + 1 <= m => g[k + 1] = h[k + 1]}
<1>1. 0 \in good
  BY DEF Flattened
<1>2. ASSUME NEW k \in good
      PROVE  k + 1 \in good
  <2> SUFFICES ASSUME k + 2 <= n, k + 2 <= m
               PROVE  g[k + 2] = h[k + 2]
    OBVIOUS
  <2>1. k \in Nat /\ g[k + 1] = h[k + 1] /\ k + 2 \in 1..n /\ k + 2 \in 1..m /\ k + 2 - 1 = k + 1
    BY <1>2
  <2> QED BY <2>1 DEF Flattened
<1> HIDE DEF good
<1>3. \A k \in Nat : k \in good
  <2>1. good \in SUBSET Nat
    BY DEF good
  <2> QED BY <1>1, <1>2, <2>1, Induction
<1>4. i - 1 \in Nat /\ i - 1 + 1 = i
  OBVIOUS
<1> QED BY <1>3, <1>4 DEF good

\* FlattenSeq takes the parts as they are kept.
LEMMA FlattenIs ==
  ASSUME NEW S, NEW parts \in Seq(Seq(S)), Len(parts) # 0,
         NEW g, Flattened(g, Len(parts), parts)
  PROVE  FlattenSeq(parts) = g[Len(parts)]
<1> DEFINE n == Len(parts)
           is(f) == f = [i \in 1..n |-> IF i = 1 THEN parts[i] ELSE f[i - 1] \o parts[i]]
<1>1. n \in Nat /\ n \in 1..n /\ n \in 0..Len(parts)
  OBVIOUS
<1>2. PICK h \in [1..n -> Seq(S)] : Flattened(h, n, parts)
  BY <1>1, FlattenedExists
<1>3. is(h)
  <2>1. h = [i \in 1..n |-> h[i]]
    BY <1>2
  <2>2. \A i \in 1..n : h[i] = IF i = 1 THEN parts[i] ELSE h[i - 1] \o parts[i]
    BY <1>2 DEF Flattened
  <2> QED BY <2>1, <2>2
<1>4. is(CHOOSE f : is(f))
  BY <1>3
<1> DEFINE f == CHOOSE f : is(f)
<1>5. FlattenSeq(parts) = f[n]
  BY DEF FlattenSeq
<1>6. Flattened(f, n, parts)
  <2> HIDE DEF f
  <2>1. is(f)
    BY <1>4 DEF f
  <2> QED BY <2>1 DEF Flattened
<1> HIDE DEF f
<1> QED BY <1>1, <1>5, <1>6, FlattenedSame

\* One part more is concatenated at the end.
LEMMA FlattenAppend ==
  ASSUME NEW S, NEW parts \in Seq(Seq(S)), NEW part \in Seq(S)
  PROVE  /\ FlattenSeq(parts) \in Seq(S)
         /\ FlattenSeq(Append(parts, part)) = FlattenSeq(parts) \o part
<1> DEFINE n == Len(parts)
           more == Append(parts, part)
<1>1. /\ n \in Nat /\ more \in Seq(Seq(S)) /\ Len(more) = n + 1
      /\ more[n + 1] = part /\ \A i \in 1..n : more[i] = parts[i]
      /\ n + 1 \in 0..Len(more)
  OBVIOUS
<1> HIDE DEF n, more
<1>2. PICK g \in [1..(n + 1) -> Seq(S)] : Flattened(g, n + 1, more)
  BY <1>1, FlattenedExists
<1>3. FlattenSeq(more) = g[n + 1]
  <2>1. Len(more) # 0 /\ Flattened(g, Len(more), more)
    BY <1>1, <1>2
  <2> QED BY <1>1, <2>1, FlattenIs
<1>4. \A i \in 1..(n + 1) : g[i] \in Seq(S)
                          /\ g[i] = IF i = 1 THEN more[i] ELSE g[i - 1] \o more[i]
  BY <1>2 DEF Flattened
<1>5. CASE n = 0
  <2>1. parts = <<>> /\ FlattenSeq(parts) = <<>>
    BY <1>5 DEF n, FlattenSeq
  <2>2. g[n + 1] = part
    BY <1>1, <1>4, <1>5
  <2>3. <<>> \in Seq(S) /\ <<>> \o part = part
    OBVIOUS
  <2> QED BY <1>3, <2>1, <2>2, <2>3 DEF more
<1>6. CASE n # 0
  <2>1. Flattened(g, n, parts)
    <3> SUFFICES ASSUME NEW i \in 1..n
                 PROVE  g[i] = IF i = 1 THEN parts[i] ELSE g[i - 1] \o parts[i]
      BY DEF Flattened
    <3>1. i \in 1..(n + 1) /\ more[i] = parts[i]
      BY <1>1
    <3> QED BY <1>4, <3>1
  <2>2. FlattenSeq(parts) = g[n]
    BY <1>6, <2>1, FlattenIs DEF n
  <2>3. g[n + 1] = g[n] \o part
    <3>1. PICK m \in 1..(n + 1) : m = n + 1 /\ m # 1
      BY <1>1, <1>6
    <3>2. g[m] = g[m - 1] \o more[m]
      BY <1>4, <3>1
    <3>3. m - 1 = n
      BY <1>1, <3>1
    <3> QED BY <1>1, <3>1, <3>2, <3>3
  <2>4. g[n] \in Seq(S)
    <3>1. n \in 1..(n + 1)
      BY <1>1, <1>6
    <3> QED BY <1>4, <3>1
  <2> QED BY <1>3, <2>2, <2>3, <2>4 DEF more
<1> QED BY <1>5, <1>6

LEMMA FlattenNone == FlattenSeq(<<>>) = <<>>
  BY DEF FlattenSeq

\* Where the elements of two sequences are in their concatenation.
LEMMA ConcatAt ==
  ASSUME NEW T, NEW s \in Seq(T), NEW t \in Seq(T)
  PROVE  /\ s \o t \in Seq(T)
         /\ Len(s) \in Nat /\ Len(t) \in Nat /\ Len(s \o t) = Len(s) + Len(t)
         /\ \A k \in 1..Len(s) : k \in 1..Len(s \o t) /\ (s \o t)[k] = s[k]
         /\ \A k \in 1..Len(t) :
              Len(s) + k \in 1..Len(s \o t) /\ (s \o t)[Len(s) + k] = t[k]
<1>1. Len(s) \in Nat /\ Len(t) \in Nat
  OBVIOUS
<1>2. /\ s \o t \in Seq(T) /\ Len(s \o t) = Len(s) + Len(t)
      /\ \A k \in 1..(Len(s) + Len(t)) :
           (s \o t)[k] = IF k <= Len(s) THEN s[k] ELSE t[k - Len(s)]
  BY ConcatProperties
<1>3. ASSUME NEW k \in 1..Len(s)
      PROVE  k \in 1..Len(s \o t) /\ (s \o t)[k] = s[k]
  BY <1>1, <1>2
<1>4. ASSUME NEW k \in 1..Len(t)
      PROVE  Len(s) + k \in 1..Len(s \o t) /\ (s \o t)[Len(s) + k] = t[k]
  <2>1. PICK m : m = Len(s) + k
    OBVIOUS
  <2>2. m \in 1..(Len(s) + Len(t)) /\ ~(m <= Len(s)) /\ m - Len(s) = k
    BY <1>1, <2>1
  <2> QED BY <1>2, <2>1, <2>2
<1> QED BY <1>1, <1>2, <1>3, <1>4

\* Concatenation is associative, kept folded until the sequences are at hand.
Associative(S) == \A a, b, c \in Seq(S) : (a \o b) \o c = a \o (b \o c)

LEMMA AllAssociative == \A S : Associative(S)
  BY ConcatAssociative DEF Associative

\* Where the parts end in the whole.
Offset(parts, i) == Len(FlattenSeq(SubSeq(parts, 1, i)))

\* A sequence grows from its prefixes, one element at a time.
LEMMA PrefixFacts ==
  ASSUME NEW S, NEW parts \in Seq(S)
  PROVE  /\ Len(parts) \in Nat
         /\ SubSeq(parts, 1, 0) = <<>>
         /\ SubSeq(parts, 1, Len(parts)) = parts
         /\ \A i \in 0..Len(parts) : SubSeq(parts, 1, i) \in Seq(S)
         /\ \A i \in 1..Len(parts) :
              /\ parts[i] \in S
              /\ SubSeq(parts, 1, i) = Append(SubSeq(parts, 1, i - 1), parts[i])
<1>1. \A i \in 0..Len(parts) :
        /\ SubSeq(parts, 1, i) \in Seq(S) /\ Len(SubSeq(parts, 1, i)) = i
        /\ \A k \in 1..i : SubSeq(parts, 1, i)[k] = parts[k]
  OBVIOUS
<1>2. ASSUME NEW i \in 1..Len(parts)
      PROVE  /\ parts[i] \in S
             /\ SubSeq(parts, 1, i) = Append(SubSeq(parts, 1, i - 1), parts[i])
  <2> DEFINE front == SubSeq(parts, 1, i - 1)
             whole == SubSeq(parts, 1, i)
  <2>1. /\ front \in Seq(S) /\ Len(front) = i - 1
        /\ \A k \in 1..(i - 1) : front[k] = parts[k]
    BY <1>1
  <2>2. /\ whole \in Seq(S) /\ Len(whole) = i
        /\ \A k \in 1..i : whole[k] = parts[k]
    BY <1>1
  <2> HIDE DEF front, whole
  <2>3. parts[i] \in S
    OBVIOUS
  <2>4. whole = Append(front, parts[i])
    BY <2>1, <2>2, <2>3
  <2> QED BY <2>3, <2>4 DEF front, whole
<1>3. SubSeq(parts, 1, Len(parts)) = parts /\ SubSeq(parts, 1, 0) = <<>>
  OBVIOUS
<1> QED BY <1>1, <1>2, <1>3

\* Part by part, the whole grows by the part.
LEMMA OffsetFacts ==
  ASSUME NEW S, NEW parts \in Seq(Seq(S))
  PROVE  /\ FlattenSeq(parts) \in Seq(S)
         /\ Offset(parts, 0) = 0
         /\ Offset(parts, Len(parts)) = Len(FlattenSeq(parts))
         /\ \A i \in 0..Len(parts) : Offset(parts, i) \in Nat
         /\ \A i \in 1..Len(parts) :
              /\ FlattenSeq(SubSeq(parts, 1, i - 1)) \in Seq(S)
              /\ FlattenSeq(SubSeq(parts, 1, i))
                   = FlattenSeq(SubSeq(parts, 1, i - 1)) \o parts[i]
              /\ Offset(parts, i) = Offset(parts, i - 1) + Len(parts[i])
<1>1. /\ Len(parts) \in Nat
      /\ SubSeq(parts, 1, 0) = <<>> /\ SubSeq(parts, 1, Len(parts)) = parts
      /\ \A i \in 0..Len(parts) : SubSeq(parts, 1, i) \in Seq(Seq(S))
      /\ \A i \in 1..Len(parts) :
           /\ parts[i] \in Seq(S)
           /\ SubSeq(parts, 1, i) = Append(SubSeq(parts, 1, i - 1), parts[i])
  BY PrefixFacts
<1>2. \A i \in 0..Len(parts) : FlattenSeq(SubSeq(parts, 1, i)) \in Seq(S)
  <2>1. ASSUME NEW i \in 0..Len(parts)
        PROVE  FlattenSeq(SubSeq(parts, 1, i)) \in Seq(S)
    <3>1. SubSeq(parts, 1, i) \in Seq(Seq(S)) /\ <<>> \in Seq(S)
      BY <1>1
    <3> QED BY <3>1, FlattenAppend
  <2> QED BY <2>1
<1>3. ASSUME NEW i \in 1..Len(parts)
      PROVE  FlattenSeq(SubSeq(parts, 1, i)) = FlattenSeq(SubSeq(parts, 1, i - 1)) \o parts[i]
  <2>1. i - 1 \in 0..Len(parts)
    OBVIOUS
  <2>2. SubSeq(parts, 1, i - 1) \in Seq(Seq(S)) /\ parts[i] \in Seq(S)
    BY <1>1, <2>1
  <2>3. FlattenSeq(Append(SubSeq(parts, 1, i - 1), parts[i]))
          = FlattenSeq(SubSeq(parts, 1, i - 1)) \o parts[i]
    BY <2>2, FlattenAppend
  <2> QED BY <1>1, <2>3
<1>4. Offset(parts, 0) = 0 /\ Offset(parts, Len(parts)) = Len(FlattenSeq(parts))
  <2>1. Len(FlattenSeq(SubSeq(parts, 1, 0))) = 0
    <3>1. SubSeq(parts, 1, 0) = <<>>
      BY <1>1
    <3>2. FlattenSeq(SubSeq(parts, 1, 0)) = <<>>
      BY <3>1, FlattenNone
    <3> QED BY <3>2
  <2>2. FlattenSeq(SubSeq(parts, 1, Len(parts))) = FlattenSeq(parts)
    BY <1>1
  <2> QED BY <2>1, <2>2 DEF Offset
<1>5. ASSUME NEW i \in 1..Len(parts)
      PROVE  Offset(parts, i) = Offset(parts, i - 1) + Len(parts[i])
  <2>1. i - 1 \in 0..Len(parts)
    OBVIOUS
  <2>2. FlattenSeq(SubSeq(parts, 1, i - 1)) \in Seq(S) /\ parts[i] \in Seq(S)
    BY <1>1, <1>2, <2>1
  <2>3. Len(FlattenSeq(SubSeq(parts, 1, i - 1)) \o parts[i])
          = Len(FlattenSeq(SubSeq(parts, 1, i - 1))) + Len(parts[i])
    BY <2>2, ConcatProperties
  <2> QED BY <1>3, <2>3 DEF Offset
<1>6. \A i \in 0..Len(parts) : Offset(parts, i) \in Nat
  BY <1>2, LenProperties DEF Offset
<1>7. \A i \in 1..Len(parts) : i - 1 \in 0..Len(parts)
  BY <1>1
<1>8. FlattenSeq(parts) \in Seq(S)
  <2>1. Len(parts) \in 0..Len(parts)
    BY <1>1
  <2>2. FlattenSeq(SubSeq(parts, 1, Len(parts))) \in Seq(S)
    BY <1>2, <2>1
  <2> QED BY <1>1, <2>2
<1>9. \A i \in 1..Len(parts) : FlattenSeq(SubSeq(parts, 1, i - 1)) \in Seq(S)
  BY <1>2, <1>7
<1> QED BY <1>3, <1>4, <1>5, <1>6, <1>8, <1>9

\* Where each element of a part is in the whole.
LEMMA FlattenAt ==
  ASSUME NEW S, NEW parts \in Seq(Seq(S)),
         NEW i \in 1..Len(parts), NEW k \in 1..Len(parts[i])
  PROVE  /\ Offset(parts, i - 1) + k \in 1..Len(FlattenSeq(parts))
         /\ FlattenSeq(parts)[Offset(parts, i - 1) + k] = parts[i][k]
<1> DEFINE upTo(n) == FlattenSeq(SubSeq(parts, 1, n))
           place == Offset(parts, i - 1) + k
           good == {d \in Nat : i + d <= Len(parts) =>
                      /\ place \in 1..Len(upTo(i + d))
                      /\ upTo(i + d)[place] = parts[i][k]}
<1>1. /\ Len(parts) \in Nat
      /\ \A n \in 1..Len(parts) : parts[n] \in Seq(S)
      /\ SubSeq(parts, 1, Len(parts)) = parts
  BY PrefixFacts
<1>2. /\ \A n \in 0..Len(parts) : Offset(parts, n) \in Nat
      /\ \A n \in 1..Len(parts) :
           upTo(n - 1) \in Seq(S) /\ upTo(n) = upTo(n - 1) \o parts[n]
  BY OffsetFacts
<1>3. \A n \in 0..Len(parts) : Len(upTo(n)) = Offset(parts, n)
  BY DEF Offset
<1> HIDE DEF upTo
<1>4. 0 \in good
  <2>1. /\ upTo(i - 1) \in Seq(S) /\ parts[i] \in Seq(S)
        /\ Len(upTo(i - 1)) = Offset(parts, i - 1)
        /\ upTo(i) = upTo(i - 1) \o parts[i]
    BY <1>1, <1>2, <1>3
  <2>2. \A q \in 1..Len(parts[i]) :
          /\ Len(upTo(i - 1)) + q \in 1..Len(upTo(i - 1) \o parts[i])
          /\ (upTo(i - 1) \o parts[i])[Len(upTo(i - 1)) + q] = parts[i][q]
    <3>1. PICK s \in Seq(S), t \in Seq(S) : s = upTo(i - 1) /\ t = parts[i]
      BY <2>1
    <3>2. \A q \in 1..Len(t) :
            Len(s) + q \in 1..Len(s \o t) /\ (s \o t)[Len(s) + q] = t[q]
      BY ConcatAt
    <3> QED BY <3>1, <3>2
  <2>3. place \in 1..Len(upTo(i)) /\ upTo(i)[place] = parts[i][k]
    BY <2>1, <2>2
  <2> HIDE DEF place
  <2>4. i + 0 = i
    OBVIOUS
  <2> QED BY <2>3, <2>4
<1>5. ASSUME NEW d \in good
      PROVE  d + 1 \in good
  <2> SUFFICES ASSUME i + (d + 1) <= Len(parts)
               PROVE  /\ place \in 1..Len(upTo(i + (d + 1)))
                      /\ upTo(i + (d + 1))[place] = parts[i][k]
    OBVIOUS
  <2>1. PICK n \in 1..Len(parts) : n = i + (d + 1)
    BY <1>1, <1>5
  <2>2. n - 1 = i + d
    BY <1>5, <2>1
  <2>3. /\ upTo(n - 1) \in Seq(S) /\ parts[n] \in Seq(S)
        /\ upTo(n) = upTo(n - 1) \o parts[n]
    BY <1>1, <1>2
  <2>4. place \in 1..Len(upTo(n - 1)) /\ upTo(n - 1)[place] = parts[i][k]
    BY <1>1, <1>5, <2>1, <2>2
  <2> HIDE DEF place
  <2>5. place \in 1..Len(upTo(n)) /\ upTo(n)[place] = upTo(n - 1)[place]
    <3>1. PICK s \in Seq(S), t \in Seq(S) : s = upTo(n - 1) /\ t = parts[n]
      BY <2>3
    <3>2. \A q \in 1..Len(s) : q \in 1..Len(s \o t) /\ (s \o t)[q] = s[q]
      BY ConcatAt
    <3> QED BY <2>3, <2>4, <3>1, <3>2
  <2> QED BY <2>1, <2>4, <2>5
<1>6. Len(parts) - i \in Nat /\ i + (Len(parts) - i) = Len(parts)
  BY <1>1
<1> HIDE DEF place
<1>7. Len(parts) - i \in good
  <2> HIDE DEF good
  <2>1. good \in SUBSET Nat
    BY DEF good
  <2> QED BY <1>4, <1>5, <1>6, <2>1, Induction
<1>8. place \in 1..Len(FlattenSeq(parts)) /\ FlattenSeq(parts)[place] = parts[i][k]
  <2>1. upTo(Len(parts)) = FlattenSeq(parts)
    BY <1>1 DEF upTo
  <2> QED BY <1>1, <1>6, <1>7, <2>1
<1> QED BY <1>8 DEF place

\* What part each element of the whole is from.
LEMMA FlattenFrom ==
  ASSUME NEW S, NEW parts \in Seq(Seq(S)), NEW j \in 1..Len(FlattenSeq(parts))
  PROVE  \E i \in 1..Len(parts) : \E k \in 1..Len(parts[i]) :
           j = Offset(parts, i - 1) + k /\ FlattenSeq(parts)[j] = parts[i][k]
<1> DEFINE n == Len(parts)
           from == {i \in 0..n : j <= Offset(parts, i)}
           good == {i \in Nat : i <= n => ~(j <= Offset(parts, i))}
<1>1. /\ n \in Nat /\ j \in Nat /\ j >= 1
      /\ Offset(parts, 0) = 0 /\ Offset(parts, n) = Len(FlattenSeq(parts))
      /\ \A i \in 0..n : Offset(parts, i) \in Nat
      /\ \A i \in 1..n : /\ parts[i] \in Seq(S)
                         /\ Offset(parts, i) = Offset(parts, i - 1) + Len(parts[i])
  <2>1. n \in Nat /\ \A i \in 1..n : parts[i] \in Seq(S)
    BY PrefixFacts
  <2>2. j \in Nat /\ j >= 1
    <3>1. Len(FlattenSeq(parts)) \in Nat
      BY OffsetFacts, LenProperties
    <3> QED BY <3>1
  <2> QED BY <2>1, <2>2, OffsetFacts
<1> HIDE DEF n
<1>2. \E i \in 1..n : Offset(parts, i - 1) < j /\ j <= Offset(parts, i)
  <2> SUFFICES ASSUME \A i \in 1..n : ~(Offset(parts, i - 1) < j /\ j <= Offset(parts, i))
               PROVE  FALSE
    OBVIOUS
  <2>1. 0 \in good
    BY <1>1
  <2>2. ASSUME NEW i \in good PROVE i + 1 \in good
    <3> SUFFICES ASSUME i + 1 <= n PROVE ~(j <= Offset(parts, i + 1))
      OBVIOUS
    <3>1. PICK m \in 1..n : m = i + 1
      BY <1>1, <2>2
    <3>2. m - 1 = i /\ i \in 0..n /\ Offset(parts, i) \in Nat /\ ~(j <= Offset(parts, i))
      BY <1>1, <2>2, <3>1
    <3>3. ~(Offset(parts, m - 1) < j /\ j <= Offset(parts, m))
      OBVIOUS
    <3> QED BY <1>1, <3>1, <3>2, <3>3
  <2>3. n \in good
    <3> HIDE DEF good
    <3>1. good \in SUBSET Nat
      BY DEF good
    <3> QED BY <1>1, <2>1, <2>2, <3>1, Induction
  <2> QED BY <1>1, <2>3
<1>3. PICK i \in 1..n : Offset(parts, i - 1) < j /\ j <= Offset(parts, i)
  BY <1>2
<1> DEFINE k == j - Offset(parts, i - 1)
<1>4. /\ i - 1 \in 0..n /\ Offset(parts, i - 1) \in Nat /\ Offset(parts, i) \in Nat
      /\ Len(parts[i]) \in Nat
      /\ Offset(parts, i) = Offset(parts, i - 1) + Len(parts[i])
  BY <1>1
<1>5. k \in 1..Len(parts[i]) /\ j = Offset(parts, i - 1) + k
  <2> HIDE DEF n
  <2> QED BY <1>1, <1>3, <1>4
<1> HIDE DEF k
<1>6. FlattenSeq(parts)[j] = parts[i][k]
  BY <1>5, FlattenAt DEF n
<1> QED BY <1>5, <1>6 DEF n

\* Flattening distributes over concatenation.
LEMMA FlattenConcat ==
  ASSUME NEW S, NEW T, T = Seq(S), NEW some \in Seq(T), NEW more \in Seq(T)
  PROVE  FlattenSeq(some \o more) = FlattenSeq(some) \o FlattenSeq(more)
<1> DEFINE part(n) == SubSeq(more, 1, n)
           good == {n \in Nat : n <= Len(more) =>
                      FlattenSeq(some \o part(n)) = FlattenSeq(some) \o FlattenSeq(part(n))}
<1>1. /\ Len(more) \in Nat /\ part(0) = <<>> /\ part(Len(more)) = more
      /\ \A n \in 0..Len(more) : part(n) \in Seq(T)
      /\ \A n \in 1..Len(more) :
           more[n] \in Seq(S) /\ part(n) = Append(part(n - 1), more[n])
  BY PrefixFacts
<1>2. /\ FlattenSeq(some) \in Seq(S) /\ some \in Seq(T)
      /\ \A n \in 1..Len(more) : /\ FlattenSeq(part(n - 1)) \in Seq(S)
                                 /\ FlattenSeq(part(n)) = FlattenSeq(part(n - 1)) \o more[n]
  BY OffsetFacts
<1> HIDE DEF part
<1>6. Associative(S) /\ Associative(T)
  BY AllAssociative
<1>3. 0 \in good
  <2>1. some \o <<>> = some /\ FlattenSeq(some) \o <<>> = FlattenSeq(some)
    BY <1>2
  <2> QED BY <1>1, <2>1, FlattenNone
<1>4. ASSUME NEW d \in good PROVE d + 1 \in good
  <2> SUFFICES ASSUME d + 1 <= Len(more)
               PROVE  FlattenSeq(some \o part(d + 1)) = FlattenSeq(some) \o FlattenSeq(part(d + 1))
    OBVIOUS
  <2>1. PICK n \in 1..Len(more) : n = d + 1
    BY <1>1, <1>4
  <2>2. n - 1 = d /\ d \in 0..Len(more)
    BY <1>1, <1>4, <2>1
  <2>3. /\ part(d) \in Seq(T) /\ more[n] \in Seq(S)
        /\ part(n) = Append(part(d), more[n])
        /\ FlattenSeq(part(d)) \in Seq(S)
        /\ FlattenSeq(part(n)) = FlattenSeq(part(d)) \o more[n]
    BY <1>1, <1>2, <2>2
  <2>4. FlattenSeq(some \o part(d)) = FlattenSeq(some) \o FlattenSeq(part(d))
    BY <1>4, <2>2
  <2> HIDE DEF good
  <2>5. /\ some \o part(n) = Append(some \o part(d), more[n])
        /\ some \o part(d) \in Seq(T)
    <3>1. PICK t \in Seq(T), last \in Seq(S) : t = part(d) /\ last = more[n]
      BY <2>3
    <3>2. <<last>> \in Seq(T) /\ Append(t, last) = t \o <<last>>
      BY AppendIsConcat
    <3>3. PICK unit \in Seq(T) : unit = <<last>>
      BY <3>2
    <3>4. some \o t \in Seq(T)
      BY ConcatProperties
    <3>5. Append(some \o t, last) = (some \o t) \o <<last>>
      BY <3>4, AppendIsConcat
    <3>6. (some \o t) \o unit = some \o (t \o unit)
      BY <1>6 DEF Associative
    <3> QED BY <2>3, <3>1, <3>2, <3>3, <3>4, <3>5, <3>6
  <2>6. FlattenSeq(some \o part(n)) = FlattenSeq(some \o part(d)) \o more[n]
    BY <2>3, <2>5, FlattenAppend
  <2>7. (FlattenSeq(some) \o FlattenSeq(part(d))) \o more[n]
          = FlattenSeq(some) \o (FlattenSeq(part(d)) \o more[n])
    <3>1. PICK a \in Seq(S), b \in Seq(S), c \in Seq(S) :
            a = FlattenSeq(some) /\ b = FlattenSeq(part(d)) /\ c = more[n]
      BY <1>2, <2>3
    <3>2. (a \o b) \o c = a \o (b \o c)
      BY <1>6 DEF Associative
    <3> QED BY <3>1, <3>2
  <2> QED BY <2>1, <2>3, <2>4, <2>6, <2>7
<1>5. Len(more) \in good
  <2> HIDE DEF good
  <2>1. good \in SUBSET Nat
    BY DEF good
  <2> QED BY <1>1, <1>3, <1>4, <2>1, Induction
<1> QED BY <1>1, <1>5

-----------------------------------------------------------------------------
(* The working set of Conversation. *)

\* What the proofs need of a sequence whose elements they do not type.
IsSequence(s) == s \in Seq(Range(s))

\* The messages in view: the user's first one until it is summarised, then
\* each assistant's followed by the results of its calls.
Shaped(ms, said) ==
  /\ IsSequence(ms) /\ Len(ms) > 0
  /\ \A i \in 1..Len(ms) :
       /\ ms[i].role \in {"user", "assistant", "tool"}
       /\ ms[i].ids \in Seq(Nat)
       /\ ms[i].role = "user" <=> ms[i].ids = <<>>
       /\ ms[i].role = "user" => i = 1
       /\ i = 1 /\ ms[i].role # "user" => said # NoSummary
       /\ ms[i].role = "assistant" /\ i < Len(ms) =>
            ms[i + 1].role = "tool" /\ ms[i + 1].ids = ms[i].ids
       /\ ms[i].role = "tool" /\ 1 < i =>
            ms[i - 1].role = "assistant" /\ ms[i - 1].ids = ms[i].ids

\* Answered or not yet, the calls of the response last in view.
Open == Len(results) + Len(asked)

WorkingSetInv ==
  stage \in {"ready", "calling"} =>
    /\ summary \in [parts : Nat, turns : Nat, named : Seq(Nat)]
    /\ summary # NoSummary => summary.parts > 0
    /\ turns \in Nat /\ made \in Nat
    /\ IsSequence(asked) /\ IsSequence(results)
    /\ Shaped(messages, summary)
    /\ Accounted
    /\ stage = "ready" => messages[Len(messages)].role # "assistant"
    /\ stage = "calling" =>
         /\ messages[Len(messages)].role = "assistant"
         /\ messages[Len(messages)].ids = [i \in 1..Open |-> made - Open + i]

LEMMA SequenceIs ==
  /\ \A S : \A s \in Seq(S) : IsSequence(s)
  /\ \A s : IsSequence(s) => Len(s) \in Nat /\ DOMAIN s = 1..Len(s)
<1>1. \A S : \A s \in Seq(S) : IsSequence(s)
  BY SeqOfRange DEF IsSequence
<1>2. ASSUME NEW s, IsSequence(s)
      PROVE  Len(s) \in Nat /\ DOMAIN s = 1..Len(s)
  BY <1>2, LenProperties DEF IsSequence
<1> QED BY <1>1, <1>2

LEMMA NoneIsSequence == IsSequence(<<>>) /\ Len(<<>>) = 0 /\ <<>> \in Seq(Nat)
<1>1. <<>> \in Seq(Nat) /\ Len(<<>>) = 0
  BY EmptySeq
<1>2. PICK none \in Seq(Nat) : none = <<>>
  BY <1>1
<1>3. IsSequence(none)
  BY SequenceIs
<1> QED BY <1>1, <1>2, <1>3

LEMMA AppendedIs ==
  ASSUME NEW s, IsSequence(s), NEW e
  PROVE  /\ IsSequence(Append(s, e)) /\ Len(Append(s, e)) = Len(s) + 1
         /\ Append(s, e)[Len(s) + 1] = e
         /\ \A i \in 1..Len(s) : Append(s, e)[i] = s[i]
<1> DEFINE S == Range(s) \union {e}
<1>1. s \in Seq(Range(s)) /\ Range(s) \subseteq S
  BY DEF IsSequence
<1>2. s \in Seq(S) /\ e \in S
  BY <1>1, SeqMonotonic
<1> HIDE DEF S
<1>3. /\ Append(s, e) \in Seq(S) /\ Len(Append(s, e)) = Len(s) + 1
      /\ \A i \in 1..Len(s) : Append(s, e)[i] = s[i]
      /\ Append(s, e)[Len(s) + 1] = e
  BY <1>2, AppendProperties
<1> QED BY <1>3, SequenceIs

LEMMA SuffixIs ==
  ASSUME NEW s, IsSequence(s), NEW d \in 0..Len(s)
  PROVE  LET front == SubSeq(s, 1, d)
             back == SubSeq(s, d + 1, Len(s))
         IN /\ IsSequence(front) /\ Len(front) = d /\ \A i \in 1..d : front[i] = s[i]
            /\ IsSequence(back) /\ Len(back) = Len(s) - d
            /\ \A i \in 1..(Len(s) - d) : back[i] = s[d + i]
<1> DEFINE S == Range(s)
           front == SubSeq(s, 1, d)
           back == SubSeq(s, d + 1, Len(s))
<1>1. s \in Seq(S) /\ Len(s) \in Nat
  BY SequenceIs DEF IsSequence
<1> HIDE DEF S
<1>2. \A i \in 1..Len(s) : s[i] \in S
  BY <1>1
<1>3. /\ front \in Seq(S) /\ Len(front) = d /\ \A i \in 1..d : front[i] = s[i]
  BY <1>1
<1>4. /\ back \in Seq(S) /\ Len(back) = Len(s) - d
      /\ \A i \in 1..(Len(s) - d) : back[i] = s[d + i]
  BY <1>1
<1> HIDE DEF front, back
<1>5. IsSequence(front) /\ IsSequence(back)
  BY <1>3, <1>4, SequenceIs
<1> QED BY <1>3, <1>4, <1>5 DEF front, back

-----------------------------------------------------------------------------
\* The calls of each message.
CallLists(ms) == [i \in DOMAIN ms |-> ToolCalls(ms[i])]

Typed(ms) == IsSequence(ms) /\ \A i \in 1..Len(ms) : ToolCalls(ms[i]) \in Seq(Nat)

\* The calls of messages are their lists of calls, flattened;
LEMMA ListsFacts ==
  ASSUME NEW ms, Typed(ms)
  PROVE  /\ Len(ms) \in Nat /\ CallLists(ms) \in Seq(Seq(Nat)) /\ Len(CallLists(ms)) = Len(ms)
         /\ \A i \in 1..Len(ms) : CallLists(ms)[i] = ToolCalls(ms[i])
         /\ CallsOf(ms) = FlattenSeq(CallLists(ms)) /\ CallsOf(ms) \in Seq(Nat)
<1>1. Len(ms) \in Nat /\ DOMAIN ms = 1..Len(ms)
  BY SequenceIs DEF Typed
<1>2. \A i \in 1..Len(ms) : ToolCalls(ms[i]) \in Seq(Nat)
  BY DEF Typed
<1>3. /\ CallLists(ms) \in Seq(Seq(Nat)) /\ Len(CallLists(ms)) = Len(ms)
      /\ \A i \in 1..Len(ms) : CallLists(ms)[i] = ToolCalls(ms[i])
  BY <1>1, <1>2 DEF CallLists
<1>4. CallsOf(ms) = FlattenSeq(CallLists(ms))
  BY DEF CallsOf, CallLists
<1>5. FlattenSeq(CallLists(ms)) \in Seq(Nat)
  BY <1>3, OffsetFacts
<1> QED BY <1>1, <1>3, <1>4, <1>5

\* those of one message more come last;
LEMMA CallsAppended ==
  ASSUME NEW ms, Typed(ms), NEW m, ToolCalls(m) \in Seq(Nat)
  PROVE  Typed(Append(ms, m)) /\ CallsOf(Append(ms, m)) = CallsOf(ms) \o ToolCalls(m)
<1> DEFINE all == Append(ms, m)
<1>1. /\ IsSequence(all) /\ Len(all) = Len(ms) + 1 /\ all[Len(ms) + 1] = m
      /\ \A i \in 1..Len(ms) : all[i] = ms[i]
  BY AppendedIs DEF Typed
<1>2. /\ Len(ms) \in Nat /\ CallLists(ms) \in Seq(Seq(Nat)) /\ Len(CallLists(ms)) = Len(ms)
      /\ \A i \in 1..Len(ms) : CallLists(ms)[i] = ToolCalls(ms[i])
      /\ CallsOf(ms) = FlattenSeq(CallLists(ms))
  BY ListsFacts
<1> HIDE DEF all
<1>3. \A i \in 1..Len(all) : \/ i \in 1..Len(ms) /\ all[i] = ms[i]
                             \/ i = Len(ms) + 1 /\ all[i] = m
  BY <1>1, <1>2
<1>4. Typed(all)
  BY <1>1, <1>3 DEF Typed
<1>5. /\ CallLists(all) \in Seq(Seq(Nat)) /\ Len(CallLists(all)) = Len(ms) + 1
      /\ \A i \in 1..Len(all) : CallLists(all)[i] = ToolCalls(all[i])
      /\ CallsOf(all) = FlattenSeq(CallLists(all))
  BY <1>1, <1>4, ListsFacts
<1>6. CallLists(all) = Append(CallLists(ms), ToolCalls(m))
  <2>1. PICK lists \in Seq(Seq(Nat)), last \in Seq(Nat) : lists = CallLists(ms) /\ last = ToolCalls(m)
    BY <1>2
  <2>2. /\ Append(lists, last) \in Seq(Seq(Nat)) /\ Len(Append(lists, last)) = Len(lists) + 1
        /\ \A i \in 1..Len(lists) : Append(lists, last)[i] = lists[i]
        /\ Append(lists, last)[Len(lists) + 1] = last
    BY AppendProperties
  <2>3. PICK whole \in Seq(Seq(Nat)) : whole = Append(lists, last)
    BY <2>2
  <2>4. PICK had \in Seq(Seq(Nat)) : had = CallLists(all)
    BY <1>5
  <2>5. \A i \in 1..Len(had) : had[i] = whole[i]
    <3> SUFFICES ASSUME NEW i \in 1..Len(had)
                 PROVE  had[i] = whole[i]
      OBVIOUS
    <3>1. i \in 1..Len(all) /\ had[i] = ToolCalls(all[i])
      BY <1>1, <1>5, <2>4
    <3>2. CASE i \in 1..Len(ms) /\ all[i] = ms[i]
      BY <1>2, <2>1, <2>2, <2>3, <3>1, <3>2
    <3>3. CASE i = Len(ms) + 1 /\ all[i] = m
      BY <1>2, <2>1, <2>2, <2>3, <3>1, <3>3
    <3> QED BY <1>3, <3>1, <3>2, <3>3
  <2>6. Len(had) = Len(whole)
    BY <1>2, <1>5, <2>1, <2>2, <2>3, <2>4
  <2>7. had = whole
    BY <2>5, <2>6, SeqEqual
  <2> QED BY <2>1, <2>3, <2>4, <2>7
<1>7. FlattenSeq(Append(CallLists(ms), ToolCalls(m))) = FlattenSeq(CallLists(ms)) \o ToolCalls(m)
  BY <1>2, FlattenAppend
<1> QED BY <1>2, <1>4, <1>5, <1>6, <1>7 DEF all

\* and those of the older messages come first.
LEMMA CallsSplit ==
  ASSUME NEW ms, Typed(ms), NEW d \in 0..Len(ms)
  PROVE  /\ CallsOf(SubSeq(ms, 1, d)) \in Seq(Nat)
         /\ CallsOf(SubSeq(ms, d + 1, Len(ms))) \in Seq(Nat)
         /\ CallsOf(ms) = CallsOf(SubSeq(ms, 1, d)) \o CallsOf(SubSeq(ms, d + 1, Len(ms)))
<1> DEFINE front == SubSeq(ms, 1, d)
           back == SubSeq(ms, d + 1, Len(ms))
<1>1. /\ IsSequence(front) /\ Len(front) = d /\ \A i \in 1..d : front[i] = ms[i]
      /\ IsSequence(back) /\ Len(back) = Len(ms) - d
      /\ \A i \in 1..(Len(ms) - d) : back[i] = ms[d + i]
  BY SuffixIs DEF Typed
<1> HIDE DEF front, back
<1>2. /\ Len(ms) \in Nat /\ CallLists(ms) \in Seq(Seq(Nat)) /\ Len(CallLists(ms)) = Len(ms)
      /\ \A i \in 1..Len(ms) : CallLists(ms)[i] = ToolCalls(ms[i])
      /\ CallsOf(ms) = FlattenSeq(CallLists(ms))
      /\ \A i \in 1..Len(ms) : ToolCalls(ms[i]) \in Seq(Nat)
  BY ListsFacts DEF Typed
<1>3. Typed(front) /\ Typed(back)
  <2>1. \A i \in 1..d : i \in 1..Len(ms)
    BY <1>2
  <2>2. \A i \in 1..(Len(ms) - d) : d + i \in 1..Len(ms)
    BY <1>2
  <2> QED BY <1>1, <1>2, <2>1, <2>2 DEF Typed
<1>4. /\ CallLists(front) \in Seq(Seq(Nat)) /\ Len(CallLists(front)) = d
      /\ \A i \in 1..d : CallLists(front)[i] = ToolCalls(ms[i])
      /\ CallsOf(front) = FlattenSeq(CallLists(front)) /\ CallsOf(front) \in Seq(Nat)
  <2>1. \A i \in 1..d : CallLists(front)[i] = ToolCalls(front[i])
    BY <1>1, <1>3, ListsFacts
  <2> QED BY <1>1, <1>3, <2>1, ListsFacts
<1>5. /\ CallLists(back) \in Seq(Seq(Nat)) /\ Len(CallLists(back)) = Len(ms) - d
      /\ \A i \in 1..(Len(ms) - d) : CallLists(back)[i] = ToolCalls(ms[d + i])
      /\ CallsOf(back) = FlattenSeq(CallLists(back)) /\ CallsOf(back) \in Seq(Nat)
  <2>1. \A i \in 1..(Len(ms) - d) : CallLists(back)[i] = ToolCalls(back[i])
    BY <1>1, <1>3, ListsFacts
  <2> QED BY <1>1, <1>3, <2>1, ListsFacts
<1>6. CallLists(ms) = CallLists(front) \o CallLists(back)
  <2>1. PICK s \in Seq(Seq(Nat)), t \in Seq(Seq(Nat)), u \in Seq(Seq(Nat)) :
          s = CallLists(front) /\ t = CallLists(back) /\ u = CallLists(ms)
    BY <1>2, <1>4, <1>5
  <2>2. /\ s \o t \in Seq(Seq(Nat)) /\ Len(s \o t) = Len(s) + Len(t)
        /\ \A k \in 1..Len(s) : (s \o t)[k] = s[k]
        /\ \A k \in 1..Len(t) : (s \o t)[Len(s) + k] = t[k]
    BY ConcatAt
  <2>3. PICK w \in Seq(Seq(Nat)) : w = s \o t
    BY <2>2
  <2>4. Len(s) = d /\ Len(t) = Len(ms) - d /\ Len(u) = Len(ms) /\ Len(w) = Len(u)
    BY <1>2, <1>4, <1>5, <2>1, <2>2, <2>3
  <2>5. \A k \in 1..Len(u) : u[k] = w[k]
    <3> SUFFICES ASSUME NEW k \in 1..Len(u)
                 PROVE  u[k] = w[k]
      OBVIOUS
    <3>1. k \in 1..Len(ms) /\ u[k] = ToolCalls(ms[k])
      BY <1>2, <2>1, <2>4
    <3>2. CASE k \in 1..d
      BY <1>4, <2>1, <2>2, <2>3, <2>4, <3>1, <3>2
    <3>3. CASE k \notin 1..d
      <4>1. PICK j \in 1..(Len(ms) - d) : k = d + j
        <5>1. k - d \in 1..(Len(ms) - d) /\ k = d + (k - d)
          BY <1>2, <3>1, <3>3
        <5> QED BY <5>1
      <4>2. w[k] = t[j] /\ t[j] = ToolCalls(ms[k])
        BY <1>5, <2>1, <2>2, <2>3, <2>4, <4>1
      <4> QED BY <3>1, <4>2
    <3> QED BY <3>2, <3>3
  <2>6. u = w
    BY <2>4, <2>5, SeqEqual
  <2> QED BY <2>1, <2>3, <2>6
<1>7. FlattenSeq(CallLists(front) \o CallLists(back))
        = FlattenSeq(CallLists(front)) \o FlattenSeq(CallLists(back))
  <2>1. PICK lists : lists = Seq(Nat)
    OBVIOUS
  <2>2. PICK s \in Seq(lists), t \in Seq(lists) : s = CallLists(front) /\ t = CallLists(back)
    BY <1>4, <1>5, <2>1
  <2>3. FlattenSeq(s \o t) = FlattenSeq(s) \o FlattenSeq(t)
    BY <2>1, FlattenConcat
  <2> QED BY <2>2, <2>3
<1> QED BY <1>2, <1>4, <1>5, <1>6, <1>7 DEF front, back

-----------------------------------------------------------------------------
LEMMA KeepAtLeast ==
  ASSUME NEW n \in Nat
  PROVE  Keep(n) \in Nat /\ Keep(n) >= 2
<1>1. n \div 3 \in Nat
  OBVIOUS
<1>2. PICK k \in {2, n \div 3} : k \in Nat /\ \A x \in {2, n \div 3} : k >= x
  <2>1. CASE n \div 3 >= 2
    BY <1>1, <2>1
  <2>2. CASE ~(n \div 3 >= 2)
    BY <1>1, <2>2
  <2> QED BY <2>1, <2>2
<1>3. Keep(n) \in {2, n \div 3} /\ \A x \in {2, n \div 3} : Keep(n) >= x
  BY <1>2 DEF Keep, Max
<1> QED BY <1>1, <1>3

\* The first messages, d of them, make way for the new one and are summarised;
\* the last two are never among them.
Dropped(all, d) ==
  /\ messages' = SubSeq(all, d + 1, Len(all))
  /\ \/ d = 0 /\ summary' = summary
     \/ d > 0 /\ summary' = Summarise(SubSeq(all, 1, d))

\* AppendMessage drops the oldest messages, if any, and never all of them.
LEMMA AppendDrops ==
  ASSUME NEW m, IsSequence(messages), AppendMessage(m)
  PROVE  \E d \in 0..Len(messages) : Dropped(Append(messages, m), d)
<1> DEFINE all == Append(messages, m)
           drop == Len(all) - Keep(Len(all))
           fits == Estimate(all) <= Threshold \/ drop <= 0
<1>1. /\ Len(messages) \in Nat /\ IsSequence(all) /\ Len(all) = Len(messages) + 1
  BY AppendedIs, SequenceIs
<1>2. /\ messages' = IF fits THEN all ELSE SubSeq(all, drop + 1, Len(all))
      /\ summary' = IF fits THEN summary ELSE Summarise(SubSeq(all, 1, drop))
  BY DEF AppendMessage
<1>3. Keep(Len(all)) \in Nat /\ Keep(Len(all)) >= 2
  BY <1>1, KeepAtLeast
<1>4. CASE fits
  <2>1. SubSeq(all, 0 + 1, Len(all)) = all
    BY <1>1 DEF IsSequence
  <2>2. 0 \in 0..Len(messages)
    BY <1>1
  <2> QED BY <1>2, <1>4, <2>1, <2>2 DEF Dropped
<1>5. CASE ~fits
  <2>1. drop > 0 /\ drop \in 0..Len(messages)
    BY <1>1, <1>3, <1>5
  <2> QED BY <1>2, <1>5, <2>1 DEF Dropped
<1> QED BY <1>4, <1>5

\* A message that may follow what is in view.
Follows(ms, m) ==
  /\ m.ids \in Seq(Nat) /\ m.ids # <<>>
  /\ \/ m.role = "assistant" /\ ms[Len(ms)].role # "assistant"
     \/ m.role = "tool" /\ ms[Len(ms)].role = "assistant" /\ ms[Len(ms)].ids = m.ids

\* What follows keeps the shape, and
LEMMA ShapedAppended ==
  ASSUME NEW ms, NEW said, Shaped(ms, said), NEW m, Follows(ms, m)
  PROVE  Shaped(Append(ms, m), said)
<1> DEFINE all == Append(ms, m)
<1>1. /\ Len(ms) \in Nat /\ Len(ms) > 0
      /\ IsSequence(all) /\ Len(all) = Len(ms) + 1 /\ all[Len(ms) + 1] = m
      /\ \A i \in 1..Len(ms) : all[i] = ms[i]
  BY AppendedIs, SequenceIs DEF Shaped
<1> HIDE DEF all
<1> SUFFICES ASSUME NEW i \in 1..Len(all)
             PROVE  /\ all[i].role \in {"user", "assistant", "tool"}
                    /\ all[i].ids \in Seq(Nat)
                    /\ all[i].role = "user" <=> all[i].ids = <<>>
                    /\ all[i].role = "user" => i = 1
                    /\ i = 1 /\ all[i].role # "user" => said # NoSummary
                    /\ all[i].role = "assistant" /\ i < Len(all) =>
                         all[i + 1].role = "tool" /\ all[i + 1].ids = all[i].ids
                    /\ all[i].role = "tool" /\ 1 < i =>
                         all[i - 1].role = "assistant" /\ all[i - 1].ids = all[i].ids
  BY <1>1 DEF Shaped, all
<1>2. CASE i = Len(ms) + 1
  <2>1. all[i] = m /\ i # 1 /\ i - 1 = Len(ms) /\ all[i - 1] = ms[Len(ms)] /\ ~(i < Len(all))
    BY <1>1, <1>2
  <2> QED BY <2>1 DEF Follows
<1>3. CASE i = Len(ms)
  <2>1. all[i] = ms[i] /\ all[i + 1] = m /\ i \in 1..Len(ms) /\ (1 < i => all[i - 1] = ms[i - 1])
    BY <1>1, <1>3
  <2>2. all[i].role = "assistant" => all[i + 1].role = "tool" /\ all[i + 1].ids = all[i].ids
    BY <1>3, <2>1 DEF Follows
  <2> QED BY <2>1, <2>2 DEF Shaped
<1>4. CASE i < Len(ms)
  <2>1. /\ all[i] = ms[i] /\ all[i + 1] = ms[i + 1] /\ i \in 1..Len(ms)
        /\ (1 < i => all[i - 1] = ms[i - 1])
    BY <1>1, <1>4
  <2> QED BY <1>4, <2>1 DEF Shaped
<1> QED BY <1>1, <1>2, <1>3, <1>4

\* so does what is left when the oldest are summarised.
LEMMA ShapedSuffix ==
  ASSUME NEW all, NEW said, NEW later, Shaped(all, said), NEW d \in Nat, d < Len(all),
         (d = 0 /\ later = said) \/ later # NoSummary
  PROVE  Shaped(SubSeq(all, d + 1, Len(all)), later)
<1> DEFINE back == SubSeq(all, d + 1, Len(all))
<1>1. /\ Len(all) \in Nat /\ IsSequence(back) /\ Len(back) = Len(all) - d
      /\ \A i \in 1..(Len(all) - d) : back[i] = all[d + i]
  <2>1. IsSequence(all) /\ Len(all) \in Nat
    BY SequenceIs DEF Shaped
  <2>2. d \in 0..Len(all)
    BY <2>1
  <2> QED BY <2>1, <2>2, SuffixIs
<1> HIDE DEF back
<1> SUFFICES ASSUME NEW i \in 1..Len(back)
             PROVE  /\ back[i].role \in {"user", "assistant", "tool"}
                    /\ back[i].ids \in Seq(Nat)
                    /\ back[i].role = "user" <=> back[i].ids = <<>>
                    /\ back[i].role = "user" => i = 1
                    /\ i = 1 /\ back[i].role # "user" => later # NoSummary
                    /\ back[i].role = "assistant" /\ i < Len(back) =>
                         back[i + 1].role = "tool" /\ back[i + 1].ids = back[i].ids
                    /\ back[i].role = "tool" /\ 1 < i =>
                         back[i - 1].role = "assistant" /\ back[i - 1].ids = back[i].ids
  BY <1>1 DEF Shaped, back
<1>2. PICK j \in 1..Len(all) : j = d + i
  BY <1>1
<1>3. /\ back[i] = all[j] /\ (i < Len(back) => j < Len(all) /\ back[i + 1] = all[j + 1])
      /\ (1 < i => 1 < j /\ back[i - 1] = all[j - 1])
      /\ (j = 1 => i = 1 /\ d = 0) /\ (i = 1 /\ j # 1 => d # 0)
  <2>1. back[i] = all[j]
    BY <1>1, <1>2
  <2>2. ASSUME i < Len(back) PROVE j < Len(all) /\ back[i + 1] = all[j + 1]
    <3>1. PICK k \in 1..(Len(all) - d) : k = i + 1
      BY <1>1, <2>2
    <3>2. back[k] = all[d + k] /\ d + k = j + 1 /\ j < Len(all)
      BY <1>1, <1>2, <3>1
    <3> QED BY <3>1, <3>2
  <2>3. ASSUME 1 < i PROVE 1 < j /\ back[i - 1] = all[j - 1]
    <3>1. PICK k \in 1..(Len(all) - d) : k = i - 1
      BY <1>1, <2>3
    <3>2. back[k] = all[d + k] /\ d + k = j - 1 /\ 1 < j
      BY <1>1, <1>2, <2>3, <3>1
    <3> QED BY <3>1, <3>2
  <2>4. (j = 1 => i = 1 /\ d = 0) /\ (i = 1 /\ j # 1 => d # 0)
    BY <1>1, <1>2
  <2> QED BY <2>1, <2>2, <2>3, <2>4
<1>4. /\ all[j].role \in {"user", "assistant", "tool"}
      /\ all[j].ids \in Seq(Nat)
      /\ all[j].role = "user" <=> all[j].ids = <<>>
      /\ all[j].role = "user" => j = 1
      /\ j = 1 /\ all[j].role # "user" => said # NoSummary
      /\ all[j].role = "assistant" /\ j < Len(all) =>
           all[j + 1].role = "tool" /\ all[j + 1].ids = all[j].ids
      /\ all[j].role = "tool" /\ 1 < j =>
           all[j - 1].role = "assistant" /\ all[j - 1].ids = all[j].ids
  BY DEF Shaped
<1> QED BY <1>3, <1>4

\* What is dropped stays accounted for, in the summary.
LEMMA AccountKept ==
  ASSUME summary \in [parts : Nat, turns : Nat, named : Seq(Nat)],
         Typed(messages), NEW m, ToolCalls(m) \in Seq(Nat),
         NEW d \in 0..Len(messages), Dropped(Append(messages, m), d)
  PROVE  /\ summary' \in [parts : Nat, turns : Nat, named : Seq(Nat)]
         /\ \/ d = 0 /\ summary' = summary
            \/ summary'.parts > 0 /\ summary' # NoSummary
         /\ summary'.turns + Len(messages') = summary.turns + Len(messages) + 1
         /\ summary'.named \o CallsOf(messages')
              = summary.named \o (CallsOf(messages) \o ToolCalls(m))
<1> DEFINE all == Append(messages, m)
           front == SubSeq(all, 1, d)
           back == SubSeq(all, d + 1, Len(all))
<1>1. /\ Typed(all) /\ CallsOf(all) = CallsOf(messages) \o ToolCalls(m)
      /\ Len(all) = Len(messages) + 1 /\ Len(messages) \in Nat
  BY CallsAppended, AppendedIs, SequenceIs DEF Typed
<1>2. d \in 0..Len(all)
  BY <1>1
<1> HIDE DEF all
<1>3. /\ CallsOf(front) \in Seq(Nat) /\ CallsOf(back) \in Seq(Nat)
      /\ CallsOf(all) = CallsOf(front) \o CallsOf(back)
  BY <1>1, <1>2, CallsSplit
<1>4. Len(front) = d /\ Len(back) = Len(messages) + 1 - d
  BY <1>1, <1>2, SuffixIs DEF Typed
<1>5. /\ messages' = back
      /\ \/ d = 0 /\ summary' = summary
         \/ d > 0 /\ summary' = Summarise(front)
  BY DEF Dropped, all
<1> HIDE DEF front, back
<1>6. PICK n, a, b, c : /\ n = summary.named /\ a = CallsOf(front) /\ b = CallsOf(back)
                        /\ c = CallsOf(all)
  OBVIOUS
<1>7. n \in Seq(Nat) /\ a \in Seq(Nat) /\ b \in Seq(Nat) /\ c = a \o b
  BY <1>3, <1>6
<1>8. CASE d = 0 /\ summary' = summary
  <2>1. back = all
    <3>1. 0 + 1 = 1 /\ all = SubSeq(all, 1, Len(all))
      <4>1. all \in Seq(Range(all))
        BY <1>1 DEF Typed, IsSequence
      <4> QED BY <4>1, PrefixFacts
    <3> QED BY <1>8, <3>1 DEF back
  <2>2. summary'.named = summary.named /\ summary'.turns = summary.turns /\ summary.turns \in Nat
    BY <1>8
  <2>3. CallsOf(messages') = CallsOf(messages) \o ToolCalls(m)
    BY <1>1, <1>5, <2>1
  <2>4. summary'.named \o CallsOf(messages') = summary.named \o (CallsOf(messages) \o ToolCalls(m))
    BY <2>2, <2>3
  <2>5. Len(messages') = Len(messages) + 1
    BY <1>1, <1>5, <2>1
  <2>6. summary'.turns + Len(messages') = summary.turns + Len(messages) + 1
    BY <1>1, <2>2, <2>5
  <2> QED BY <1>8, <2>4, <2>6
<1>9. CASE d > 0 /\ summary' = Summarise(front)
  <2>1. (n \o a) \o b = n \o (a \o b) /\ n \o a \in Seq(Nat)
    <3>1. PICK x \in Seq(Nat), y \in Seq(Nat), z \in Seq(Nat) : x = n /\ y = a /\ z = b
      BY <1>7
    <3>2. Associative(Nat)
      BY AllAssociative
    <3>3. (x \o y) \o z = x \o (y \o z)
      BY <3>2 DEF Associative
    <3>4. x \o y \in Seq(Nat)
      BY ConcatProperties
    <3> QED BY <3>1, <3>3, <3>4
  <2>2. summary' = [parts |-> summary.parts + 1, turns |-> summary.turns + d, named |-> n \o a]
    BY <1>4, <1>6, <1>9 DEF Summarise
  <2>3. /\ summary' \in [parts : Nat, turns : Nat, named : Seq(Nat)]
        /\ summary'.parts > 0 /\ summary'.turns = summary.turns + d /\ summary'.named = n \o a
    <3>1. d \in Nat /\ summary.parts \in Nat /\ summary.turns \in Nat
      BY <1>2
    <3>2. PICK x \in Seq(Nat) : x = n \o a
      BY <2>1
    <3> QED BY <2>2, <3>1, <3>2
  <2>4. summary' # NoSummary
    BY <2>3 DEF NoSummary
  <2>5. summary'.turns + Len(messages') = summary.turns + Len(messages) + 1
    <3>1. d \in Nat /\ summary.turns \in Nat
      BY <1>2
    <3>2. Len(messages') = Len(messages) + 1 - d /\ summary'.turns = summary.turns + d
      BY <1>4, <1>5, <1>9, <2>3
    <3>3. PICK t \in Nat, n1 \in Nat, e \in Nat : t = summary.turns /\ n1 = Len(messages) /\ e = d
      BY <1>1, <3>1
    <3>4. t + e + (n1 + 1 - e) = t + n1 + 1
      OBVIOUS
    <3> QED BY <3>2, <3>3, <3>4
  <2>6. summary'.named \o CallsOf(messages') = n \o c
    BY <1>5, <1>6, <1>7, <2>1, <2>3
  <2> QED BY <1>1, <1>6, <2>3, <2>4, <2>5, <2>6
<1> QED BY <1>5, <1>8, <1>9

\* Calls are numbered on from those made.
LEMMA CountingOn ==
  ASSUME NEW n \in Nat, NEW k \in Nat
  PROVE  /\ [i \in 1..k |-> n + i] \in Seq(Nat)
         /\ [i \in 1..n |-> i] \o [i \in 1..k |-> n + i] = [i \in 1..(n + k) |-> i]
<1>1. PICK s \in Seq(Nat) : s = [i \in 1..n |-> i]
  <2>1. [i \in 1..n |-> i] \in Seq(Nat)
    OBVIOUS
  <2> QED BY <2>1
<1>2. PICK t \in Seq(Nat) : t = [i \in 1..k |-> n + i]
  <2>1. [i \in 1..k |-> n + i] \in Seq(Nat)
    OBVIOUS
  <2> QED BY <2>1
<1>3. PICK u \in Seq(Nat) : u = [i \in 1..(n + k) |-> i]
  <2>1. [i \in 1..(n + k) |-> i] \in Seq(Nat)
    OBVIOUS
  <2> QED BY <2>1
<1>4. /\ Len(s) = n /\ \A i \in 1..n : s[i] = i
      /\ Len(t) = k /\ \A i \in 1..k : t[i] = n + i
      /\ Len(u) = n + k /\ \A i \in 1..(n + k) : u[i] = i
  BY <1>1, <1>2, <1>3
<1>5. /\ s \o t \in Seq(Nat) /\ Len(s \o t) = Len(s) + Len(t)
      /\ \A i \in 1..Len(s) : (s \o t)[i] = s[i]
      /\ \A i \in 1..Len(t) : (s \o t)[Len(s) + i] = t[i]
  BY ConcatAt
<1>6. PICK w \in Seq(Nat) : w = s \o t
  BY <1>5
<1>7. \A i \in 1..Len(w) : w[i] = u[i]
  <2> SUFFICES ASSUME NEW i \in 1..(n + k)
               PROVE  w[i] = i
    BY <1>4, <1>5, <1>6
  <2>1. CASE i <= n
    BY <1>4, <1>5, <1>6, <2>1
  <2>2. CASE ~(i <= n)
    <3>1. PICK j \in 1..k : i = n + j
      <4>1. i - n \in 1..k /\ i = n + (i - n)
        BY <2>2
      <4> QED BY <4>1
    <3> QED BY <1>4, <1>5, <1>6, <3>1
  <2> QED BY <2>1, <2>2
<1>8. w = u
  BY <1>4, <1>5, <1>6, <1>7, SeqEqual
<1> QED BY <1>1, <1>2, <1>3, <1>6, <1>8

LEMMA ShapedTyped ==
  ASSUME NEW ms, NEW said, Shaped(ms, said)
  PROVE  Typed(ms)
<1>1. \A i \in 1..Len(ms) : ms[i].ids \in Seq(Nat) /\ <<>> \in Seq(Nat)
  BY DEF Shaped
<1> QED BY <1>1 DEF Shaped, Typed, ToolCalls

\* A message that follows is appended, and the working set keeps its shape.
LEMMA WorkingSetKept ==
  ASSUME summary \in [parts : Nat, turns : Nat, named : Seq(Nat)],
         summary # NoSummary => summary.parts > 0, turns \in Nat,
         Shaped(messages, summary), summary.turns + Len(messages) = turns,
         NEW m, Follows(messages, m), AppendMessage(m)
  PROVE  /\ summary' \in [parts : Nat, turns : Nat, named : Seq(Nat)]
         /\ summary' # NoSummary => summary'.parts > 0
         /\ turns' \in Nat
         /\ Shaped(messages', summary')
         /\ summary'.turns + Len(messages') = turns'
         /\ summary'.named \o CallsOf(messages')
              = summary.named \o (CallsOf(messages) \o ToolCalls(m))
         /\ messages'[Len(messages')] = m
<1> DEFINE all == Append(messages, m)
<1>1. Typed(messages) /\ ToolCalls(m) \in Seq(Nat) /\ IsSequence(messages)
  <2>1. ToolCalls(m) \in Seq(Nat)
    BY DEF Follows, ToolCalls
  <2> QED BY <2>1, ShapedTyped DEF Typed
<1>2. PICK d \in 0..Len(messages) : Dropped(all, d)
  BY <1>1, AppendDrops
<1>3. /\ summary' \in [parts : Nat, turns : Nat, named : Seq(Nat)]
      /\ \/ d = 0 /\ summary' = summary
         \/ summary'.parts > 0 /\ summary' # NoSummary
      /\ summary'.turns + Len(messages') = summary.turns + Len(messages) + 1
      /\ summary'.named \o CallsOf(messages')
           = summary.named \o (CallsOf(messages) \o ToolCalls(m))
  BY <1>1, <1>2, AccountKept
<1>4. /\ IsSequence(all) /\ Len(all) = Len(messages) + 1 /\ Len(messages) \in Nat
      /\ all[Len(messages) + 1] = m /\ d \in Nat /\ d < Len(all) /\ d \in 0..Len(all)
  <2>1. /\ IsSequence(all) /\ Len(all) = Len(messages) + 1 /\ Len(messages) \in Nat
        /\ all[Len(messages) + 1] = m
    BY <1>1, AppendedIs, SequenceIs
  <2> QED BY <1>2, <2>1
<1>5. Shaped(all, summary)
  BY ShapedAppended
<1> HIDE DEF all
<1>6. messages' = SubSeq(all, d + 1, Len(all))
  BY <1>2 DEF Dropped
<1>7. Shaped(messages', summary')
  <2>1. (d = 0 /\ summary' = summary) \/ summary' # NoSummary
    BY <1>3
  <2> QED BY <1>4, <1>5, <1>6, <2>1, ShapedSuffix
<1>8. messages'[Len(messages')] = m
  <2>1. Len(messages') = Len(all) - d /\ \A i \in 1..(Len(all) - d) : messages'[i] = all[d + i]
    BY <1>4, <1>6, SuffixIs
  <2>2. PICK k \in 1..(Len(all) - d) : k = Len(all) - d
    BY <1>4
  <2>3. messages'[k] = all[d + k] /\ d + k = Len(messages) + 1
    BY <1>4, <2>1, <2>2
  <2> QED BY <1>4, <2>1, <2>2, <2>3
<1>9. turns' = turns + 1
  BY DEF AppendMessage
<1> QED BY <1>3, <1>4, <1>7, <1>8, <1>9

LEMMA WorkingSetInit == ConversationInit => WorkingSetInv
<1> SUFFICES ASSUME ConversationInit
             PROVE  WorkingSetInv
  OBVIOUS
<1>1. /\ messages = <<[role |-> "user", ids |-> <<>>, size |-> 1]>>
      /\ summary = NoSummary /\ turns = 1 /\ made = 0
      /\ asked = <<>> /\ results = <<>> /\ stage = "ready"
  BY DEF ConversationInit
<1>2. <<>> \in Seq(Nat) /\ IsSequence(<<>>)
  BY NoneIsSequence
<1>3. /\ IsSequence(messages) /\ Len(messages) = 1
      /\ messages[1].role = "user" /\ messages[1].ids = <<>>
  <2>1. messages \in Seq({[role |-> "user", ids |-> <<>>, size |-> 1]})
    BY <1>1
  <2> QED BY <1>1, <2>1, SequenceIs
<1>4. Shaped(messages, summary)
  <2>1. ASSUME NEW i \in 1..Len(messages)
        PROVE  /\ messages[i].role = "user" /\ messages[i].ids = <<>> /\ i = 1
               /\ messages[i].ids \in Seq(Nat)
    <3>1. i = 1
      BY <1>3
    <3> QED BY <1>2, <1>3, <3>1
  <2>2. "user" # "assistant" /\ "user" # "tool" /\ "user" \in {"user", "assistant", "tool"}
    OBVIOUS
  <2>3. IsSequence(messages) /\ Len(messages) > 0
    BY <1>3
  <2> QED BY <2>1, <2>2, <2>3, Zenon DEF Shaped
<1>5. summary \in [parts : Nat, turns : Nat, named : Seq(Nat)] /\ summary.turns = 0 /\ summary.named = <<>>
  BY <1>1, <1>2 DEF NoSummary
<1>6. Accounted
  <2>1. Typed(messages)
    BY <1>4, ShapedTyped
  <2>2. CallLists(messages) = <<<<>>>> /\ CallsOf(messages) = FlattenSeq(CallLists(messages))
    <3>1. DOMAIN messages = {1} /\ ToolCalls(messages[1]) = <<>>
      BY <1>3, SequenceIs DEF ToolCalls
    <3>2. CallLists(messages) = [i \in {1} |-> <<>>]
      BY <3>1 DEF CallLists
    <3> QED BY <2>1, <3>2, ListsFacts
  <2>3. CallsOf(messages) = <<>>
    <3>1. <<>> \in Seq(Seq(Nat)) /\ Append(<<>>, <<>>) = <<<<>>>> /\ <<>> \o <<>> = <<>>
      OBVIOUS
    <3>2. FlattenSeq(Append(<<>>, <<>>)) = FlattenSeq(<<>>) \o <<>>
      BY <1>2, <3>1, FlattenAppend
    <3> QED BY <2>2, <3>1, <3>2, FlattenNone
  <2>4. [i \in 1..0 |-> i] = <<>> /\ <<>> \o <<>> = <<>>
    OBVIOUS
  <2> QED BY <1>1, <1>3, <1>5, <2>3, <2>4 DEF Accounted
<1> QED BY <1>1, <1>2, <1>3, <1>4, <1>5, <1>6 DEF WorkingSetInv

LEMMA WorkingSetStep == WorkingSetInv /\ [ConversationNext]_conversationVars => WorkingSetInv'
<1> SUFFICES ASSUME WorkingSetInv, [ConversationNext]_conversationVars
             PROVE  WorkingSetInv'
  OBVIOUS
<1>1. CASE Complete
  <2>1. /\ stage = "ready" /\ results' = <<>> /\ stage' = "calling"
    BY <1>1 DEF Complete
  <2>2. PICK calls \in UNION {[1..k -> Calls] : k \in 1..Fanout} :
          /\ asked' = calls /\ made' = made + Len(calls)
          /\ AppendMessage([role |-> "assistant", ids |-> [i \in DOMAIN calls |-> made + i],
                            size |-> Len(calls)])
    BY <1>1 DEF Complete
  <2>3. PICK k \in 1..Fanout : calls \in [1..k -> Calls]
    BY <2>2
  <2>4. k \in Nat /\ k > 0
    BY ConversationAssumption DEF ConversationAssumption
  <2>5. IsSequence(calls) /\ Len(calls) = k /\ DOMAIN calls = 1..k
    <3>1. calls \in Seq(Calls) /\ Len(calls) = k /\ DOMAIN calls = 1..k
      BY <2>3, <2>4
    <3> QED BY <3>1, SequenceIs
  <2> DEFINE ids == [i \in 1..k |-> made + i]
             m == [role |-> "assistant", ids |-> ids, size |-> Len(calls)]
  <2>6. /\ summary \in [parts : Nat, turns : Nat, named : Seq(Nat)]
        /\ summary # NoSummary => summary.parts > 0
        /\ turns \in Nat /\ made \in Nat /\ Shaped(messages, summary) /\ Accounted
        /\ messages[Len(messages)].role # "assistant"
    BY <2>1 DEF WorkingSetInv
  <2>7. /\ ids \in Seq(Nat) /\ Len(ids) = k
        /\ [i \in 1..made |-> i] \o ids = [i \in 1..(made + k) |-> i]
    BY <2>4, <2>6, CountingOn
  <2>8. AppendMessage(m) /\ m.role = "assistant" /\ m.ids = ids
    BY <2>2, <2>5
  <2> HIDE DEF m
  <2>9. Follows(messages, m) /\ ToolCalls(m) = ids
    <3>1. ids # <<>>
      BY <2>4, <2>7
    <3> QED BY <2>6, <2>7, <2>8, <3>1 DEF Follows, ToolCalls
  <2>10. /\ summary' \in [parts : Nat, turns : Nat, named : Seq(Nat)]
         /\ summary' # NoSummary => summary'.parts > 0
         /\ turns' \in Nat
         /\ Shaped(messages', summary')
         /\ summary'.turns + Len(messages') = turns'
         /\ summary'.named \o CallsOf(messages')
              = summary.named \o (CallsOf(messages) \o ids)
         /\ messages'[Len(messages')] = m
    BY <2>6, <2>8, <2>9, WorkingSetKept DEF Accounted
  <2>11. made' = made + k /\ made' \in Nat
    BY <2>2, <2>4, <2>5, <2>6
  <2>12. Accounted'
    <3>1. PICK a \in Seq(Nat), b \in Seq(Nat), c \in Seq(Nat) :
            a = summary.named /\ b = CallsOf(messages) /\ c = ids
      <4>1. summary.named \in Seq(Nat) /\ CallsOf(messages) \in Seq(Nat)
        BY <2>6, ShapedTyped, ListsFacts
      <4> QED BY <2>7, <4>1
    <3>2. a \o (b \o c) = (a \o b) \o c
      <4>1. Associative(Nat)
        BY AllAssociative
      <4> QED BY <4>1 DEF Associative
    <3>3. a \o b = [i \in 1..made |-> i]
      BY <2>6, <3>1 DEF Accounted
    <3>4. summary'.named \o CallsOf(messages') = [i \in 1..made' |-> i]
      BY <2>7, <2>10, <2>11, <3>1, <3>2, <3>3
    <3> QED BY <2>10, <3>4 DEF Accounted
  <2>13. IsSequence(asked') /\ IsSequence(results') /\ Open' = k
    <3>1. IsSequence(<<>>) /\ Len(<<>>) = 0
      BY NoneIsSequence
    <3> QED BY <2>1, <2>2, <2>4, <2>5, <3>1 DEF Open
  <2>14. messages'[Len(messages')].ids = [i \in 1..Open' |-> made' - Open' + i]
    <3>1. \A i \in 1..k : made + i = made + k - k + i
      BY <2>4, <2>6
    <3>2. ids = [i \in 1..k |-> made + k - k + i]
      BY <3>1
    <3> HIDE DEF ids
    <3>3. [i \in 1..Open' |-> made' - Open' + i] = [i \in 1..k |-> made + k - k + i]
      BY <2>4, <2>6, <2>11, <2>13
    <3> QED BY <2>8, <2>10, <3>2, <3>3
  <2> QED BY <2>1, <2>8, <2>10, <2>11, <2>12, <2>13, <2>14 DEF WorkingSetInv
<1>2. CASE InvokeOne
  <2>1. /\ stage = "calling" /\ asked # <<>> /\ asked' = Tail(asked)
        /\ UNCHANGED <<messages, summary, turns, made, rounds, stage>>
    BY <1>2 DEF InvokeOne
  <2>2. PICK size : results' = Append(results, size)
    BY <1>2 DEF InvokeOne
  <2>3. IsSequence(asked') /\ Len(asked') = Len(asked) - 1 /\ Len(asked) \in Nat
    <3>1. asked \in Seq(Range(asked))
      BY <2>1 DEF WorkingSetInv, IsSequence
    <3>2. Tail(asked) \in Seq(Range(asked)) /\ Len(Tail(asked)) = Len(asked) - 1
      BY <2>1, <3>1, HeadTailProperties
    <3> QED BY <2>1, <3>1, <3>2, SequenceIs, LenProperties
  <2>4. IsSequence(results') /\ Len(results') = Len(results) + 1 /\ Len(results) \in Nat
    BY <2>1, <2>2, AppendedIs, SequenceIs DEF WorkingSetInv
  <2>5. Open' = Open
    BY <2>3, <2>4 DEF Open
  <2>6. Accounted'
    BY <2>1 DEF WorkingSetInv, Accounted
  <2> QED BY <2>1, <2>3, <2>4, <2>5, <2>6 DEF WorkingSetInv
<1>3. CASE Reply
  <2>1. /\ asked = <<>> /\ stage = "calling" /\ asked' = <<>> /\ results' = <<>> /\ stage' = "ready"
        /\ made' = made
    BY <1>3 DEF Reply, AppendResults
  <2>2. PICK m : /\ m.role = "tool"
                 /\ m.ids = [i \in DOMAIN results |-> made - Len(results) - Len(asked) + i]
                 /\ AppendMessage(m)
    BY <1>3 DEF Reply, AppendResults
  <2>3. /\ summary \in [parts : Nat, turns : Nat, named : Seq(Nat)]
        /\ summary # NoSummary => summary.parts > 0
        /\ turns \in Nat /\ made \in Nat /\ Shaped(messages, summary) /\ Accounted
        /\ messages[Len(messages)].role = "assistant" /\ IsSequence(results)
        /\ messages[Len(messages)].ids = [i \in 1..Open |-> made - Open + i]
    BY <2>1 DEF WorkingSetInv
  <2>4. m.ids = messages[Len(messages)].ids
    <3>1. Len(results) \in Nat /\ DOMAIN results = 1..Len(results) /\ Len(asked) = 0
      BY <2>1, <2>3, SequenceIs
    <3>2. Open = Len(results)
      BY <3>1 DEF Open
    <3>3. \A i \in 1..Len(results) : made - Len(results) - Len(asked) + i = made - Len(results) + i
      BY <2>3, <3>1
    <3> QED BY <2>2, <2>3, <3>1, <3>2, <3>3
  <2>5. Len(messages) \in 1..Len(messages)
    BY <2>3, SequenceIs DEF Shaped
  <2>6. Follows(messages, m) /\ ToolCalls(m) = <<>>
    <3>1. messages[Len(messages)].ids \in Seq(Nat) /\ messages[Len(messages)].ids # <<>>
      BY <2>3, <2>5 DEF Shaped
    <3> QED BY <2>2, <2>3, <2>4, <3>1 DEF Follows, ToolCalls
  <2>7. /\ summary' \in [parts : Nat, turns : Nat, named : Seq(Nat)]
        /\ summary' # NoSummary => summary'.parts > 0
        /\ turns' \in Nat
        /\ Shaped(messages', summary')
        /\ summary'.turns + Len(messages') = turns'
        /\ summary'.named \o CallsOf(messages')
             = summary.named \o (CallsOf(messages) \o <<>>)
        /\ messages'[Len(messages')] = m
    BY <2>2, <2>3, <2>6, WorkingSetKept DEF Accounted
  <2>8. Accounted'
    <3>1. CallsOf(messages) \in Seq(Nat)
      BY <2>3, ShapedTyped, ListsFacts
    <3>2. CallsOf(messages) \o <<>> = CallsOf(messages)
      BY <3>1, ConcatEmptySeq
    <3> QED BY <2>1, <2>3, <2>7, <3>2 DEF Accounted
  <2>9. IsSequence(<<>>)
    BY NoneIsSequence
  <2> QED BY <2>1, <2>2, <2>3, <2>7, <2>8, <2>9 DEF WorkingSetInv
<1>4. CASE StopBetweenCalls
  BY <1>4 DEF StopBetweenCalls, AppendResults, WorkingSetInv
<1>5. CASE Finish
  BY <1>5 DEF Finish, WorkingSetInv
<1>6. CASE UNCHANGED conversationVars
  BY <1>6 DEF conversationVars, WorkingSetInv, Accounted, Open
<1> QED BY <1>1, <1>2, <1>3, <1>4, <1>5, <1>6 DEF ConversationNext

\* Every message in view stands where it belongs, and no turn or call is lost.
LEMMA WorkingSetHolds == ConversationSpec => []WorkingSetInv
<1> QED BY WorkingSetInit, WorkingSetStep, PTL DEF ConversationSpec

-----------------------------------------------------------------------------
(* The requests of Conversation. *)

\* What is sent: the working set, after its summary if there is one.
RequestShaped(req) ==
  /\ IsSequence(req) /\ Len(req) > 0
  /\ \A i \in 1..Len(req) :
       /\ req[i].role \in {"user", "assistant", "tool"}
       /\ req[i].ids \in Seq(Nat)
       /\ req[i].role = "user" <=> req[i].ids = <<>>
       /\ req[i].role = "assistant" =>
            i < Len(req) /\ req[i + 1].role = "tool" /\ req[i + 1].ids = req[i].ids
       /\ req[i].role = "tool" =>
            \/ 1 < i /\ req[i - 1].role = "assistant" /\ req[i - 1].ids = req[i].ids
            \/ i = 2 /\ summary # NoSummary /\ req[1].role = "user"

LEMMA Consed ==
  ASSUME NEW s, IsSequence(s), NEW e
  PROVE  /\ IsSequence(<<e>> \o s) /\ Len(<<e>> \o s) = Len(s) + 1
         /\ (<<e>> \o s)[1] = e /\ \A i \in 1..Len(s) : (<<e>> \o s)[i + 1] = s[i]
<1> DEFINE S == Range(s) \union {e}
<1>1. s \in Seq(Range(s)) /\ Range(s) \subseteq S
  BY DEF IsSequence
<1>2. s \in Seq(S) /\ <<e>> \in Seq(S)
  BY <1>1, SeqMonotonic
<1> HIDE DEF S
<1>3. PICK head \in Seq(S) : head = <<e>> /\ Len(head) = 1 /\ head[1] = e
  BY <1>2
<1>4. /\ head \o s \in Seq(S)
      /\ Len(head \o s) = Len(head) + Len(s) /\ Len(s) \in Nat
      /\ \A k \in 1..Len(head) : (head \o s)[k] = head[k]
      /\ \A k \in 1..Len(s) : (head \o s)[Len(head) + k] = s[k]
  BY <1>2, ConcatAt
<1>5. Len(head \o s) = Len(s) + 1 /\ (head \o s)[1] = e
  BY <1>3, <1>4
<1>6. ASSUME NEW i \in 1..Len(s) PROVE (head \o s)[i + 1] = s[i]
  <2>1. Len(head) + i = i + 1
    BY <1>3, <1>4
  <2> QED BY <1>4, <2>1
<1>7. IsSequence(head \o s)
  BY <1>4, SequenceIs
<1> QED BY <1>3, <1>5, <1>6, <1>7

\* Messages puts the summary first, and pairs each call with its result.
LEMMA RequestIs ==
  ASSUME WorkingSetInv, stage = "ready"
  PROVE  RequestShaped(Request)
<1>1. Shaped(messages, summary) /\ messages[Len(messages)].role # "assistant"
  BY DEF WorkingSetInv
<1>2. /\ IsSequence(messages) /\ Len(messages) \in Nat /\ Len(messages) > 0
  BY <1>1, SequenceIs DEF Shaped
<1>3. ASSUME NEW i \in 1..Len(messages)
      PROVE  /\ messages[i].role \in {"user", "assistant", "tool"}
             /\ messages[i].ids \in Seq(Nat)
             /\ messages[i].role = "user" <=> messages[i].ids = <<>>
             /\ i = 1 /\ messages[i].role # "user" => summary # NoSummary
             /\ messages[i].role = "assistant" =>
                  /\ i < Len(messages)
                  /\ messages[i + 1].role = "tool" /\ messages[i + 1].ids = messages[i].ids
             /\ messages[i].role = "tool" /\ 1 < i =>
                  messages[i - 1].role = "assistant" /\ messages[i - 1].ids = messages[i].ids
  <2>1. messages[i].role = "assistant" => i < Len(messages)
    <3>1. i < Len(messages) \/ i = Len(messages)
      BY <1>2
    <3> QED BY <1>1, <3>1
  <2> QED BY <1>1, <2>1 DEF Shaped
<1>4. CASE summary = NoSummary
  <2>1. Request = messages
    BY <1>4 DEF Request
  <2>2. ASSUME NEW i \in 1..Len(messages), messages[i].role = "tool"
        PROVE  1 < i
    <3>1. i # 1
      BY <1>3, <1>4, <2>2
    <3> QED BY <1>2, <3>1
  <2> QED BY <1>2, <1>3, <2>1, <2>2 DEF RequestShaped
<1>5. CASE summary # NoSummary
  <2> DEFINE req == Request
  <2>1. PICK s : req = <<s>> \o messages /\ s.role = "user" /\ s.ids = <<>>
    BY <1>5 DEF Request
  <2>2. /\ IsSequence(req) /\ Len(req) = Len(messages) + 1 /\ req[1] = s
        /\ \A i \in 1..Len(messages) : req[i + 1] = messages[i]
    BY <1>2, <2>1, Consed
  <2> HIDE DEF req
  <2>3. ASSUME NEW i \in 1..Len(req)
        PROVE  /\ req[i].role \in {"user", "assistant", "tool"}
               /\ req[i].ids \in Seq(Nat)
               /\ req[i].role = "user" <=> req[i].ids = <<>>
               /\ req[i].role = "assistant" =>
                    i < Len(req) /\ req[i + 1].role = "tool" /\ req[i + 1].ids = req[i].ids
               /\ req[i].role = "tool" =>
                    \/ 1 < i /\ req[i - 1].role = "assistant" /\ req[i - 1].ids = req[i].ids
                    \/ i = 2 /\ summary # NoSummary /\ req[1].role = "user"
    <3>1. CASE i = 1
      <4>1. req[i].role = "user" /\ req[i].ids = <<>>
        BY <2>1, <2>2, <3>1
      <4>2. <<>> \in Seq(Nat)
        BY NoneIsSequence
      <4> QED BY <4>1, <4>2
    <3>2. CASE i # 1
      <4>1. PICK j \in 1..Len(messages) : i = j + 1
        <5>1. i - 1 \in 1..Len(messages) /\ i = (i - 1) + 1
          BY <1>2, <2>2, <3>2
        <5> QED BY <5>1
      <4>2. req[i] = messages[j] /\ i - 1 = j
        BY <2>2, <4>1
      <4>3. j < Len(messages) => i < Len(req) /\ req[i + 1] = messages[j + 1]
        <5> HAVE j < Len(messages)
        <5>1. PICK k \in 1..Len(messages) : k = j + 1
          BY <1>2
        <5> QED BY <1>2, <2>2, <4>1, <5>1
      <4>4. 1 < j => 1 < i /\ req[i - 1] = messages[j - 1]
        <5> HAVE 1 < j
        <5>1. PICK k \in 1..Len(messages) : k = j - 1
          <6>1. j - 1 \in 1..Len(messages)
            BY <1>2
          <6> QED BY <6>1
        <5>2. k + 1 = j /\ k + 1 = i - 1
          BY <4>1, <5>1
        <5> QED BY <2>2, <4>1, <5>1, <5>2
      <4>5. j = 1 => i = 2 /\ req[1].role = "user"
        BY <2>1, <2>2, <4>1
      <4>6. j = 1 \/ 1 < j
        OBVIOUS
      <4> QED BY <1>3, <1>5, <4>2, <4>3, <4>4, <4>5, <4>6
    <3> QED BY <3>1, <3>2
  <2>4. Len(req) > 0
    BY <1>2, <2>2
  <2> QED BY <2>2, <2>3, <2>4 DEF RequestShaped, req
<1> QED BY <1>4, <1>5

\* Parts of one element each are as long as they are many.
LEMMA Singles ==
  ASSUME NEW S, NEW parts \in Seq(Seq(S)), \A i \in 1..Len(parts) : Len(parts[i]) = 1
  PROVE  /\ Len(FlattenSeq(parts)) = Len(parts)
         /\ \A i \in 1..Len(parts) : FlattenSeq(parts)[i] = parts[i][1]
<1> DEFINE good == {n \in Nat : n <= Len(parts) => Offset(parts, n) = n}
<1>1. /\ Offset(parts, 0) = 0 /\ Offset(parts, Len(parts)) = Len(FlattenSeq(parts))
      /\ \A i \in 1..Len(parts) : Offset(parts, i) = Offset(parts, i - 1) + Len(parts[i])
      /\ Len(parts) \in Nat
  BY OffsetFacts, PrefixFacts
<1>2. 0 \in good
  BY <1>1
<1>3. ASSUME NEW n \in good PROVE n + 1 \in good
  <2> SUFFICES ASSUME n + 1 <= Len(parts) PROVE Offset(parts, n + 1) = n + 1
    OBVIOUS
  <2>1. PICK m \in 1..Len(parts) : m = n + 1 /\ m - 1 = n
    <3>1. n \in Nat /\ n + 1 \in 1..Len(parts) /\ n + 1 - 1 = n
      BY <1>1
    <3> HIDE DEF good
    <3> QED BY <3>1
  <2>3. Offset(parts, n) = n
    BY <1>1, <2>1
  <2> HIDE DEF good
  <2>2. Offset(parts, m) = Offset(parts, m - 1) + 1
    <3>1. Len(parts[m]) = 1
      OBVIOUS
    <3> QED BY <1>1, <3>1
  <2> QED BY <2>1, <2>2, <2>3
<1>4. \A n \in Nat : n \in good
  <2> HIDE DEF good
  <2>1. good \in SUBSET Nat
    BY DEF good
  <2> QED BY <1>2, <1>3, <2>1, Induction
<1>5. Len(FlattenSeq(parts)) = Len(parts)
  BY <1>1, <1>4
<1>6. ASSUME NEW i \in 1..Len(parts) PROVE FlattenSeq(parts)[i] = parts[i][1]
  <2>1. i - 1 \in Nat /\ i - 1 <= Len(parts)
    BY <1>1
  <2>2. Offset(parts, i - 1) = i - 1
    BY <1>4, <2>1
  <2>3. PICK k \in 1..Len(parts[i]) : k = 1
    <3>1. Len(parts[i]) = 1 /\ 1 \in 1..1
      OBVIOUS
    <3> QED BY <3>1, Zenon
  <2>4. FlattenSeq(parts)[Offset(parts, i - 1) + k] = parts[i][k]
    BY FlattenAt
  <2>5. Offset(parts, i - 1) + k = i
    BY <1>1, <2>2, <2>3
  <2> QED BY <2>3, <2>4, <2>5
<1> QED BY <1>5, <1>6

Roles == {"user", "assistant", "tool", "system"}
WireMessage == [role : Roles, ids : Seq(Nat)]

AnthropicRole(m) == IF m.role = "assistant" THEN "assistant" ELSE "user"

\* Nothing in a request is without blocks: each message is sent as one.
LEMMA AnthropicIs ==
  ASSUME NEW req, RequestShaped(req)
  PROVE  LET wire == AnthropicWire(req)
         IN /\ Len(wire) = Len(req) /\ DOMAIN wire = 1..Len(req) /\ Len(req) \in Nat
            /\ \A i \in 1..Len(req) : wire[i] = [role |-> AnthropicRole(req[i]), ids |-> req[i].ids]
<1> DEFINE parts == [i \in DOMAIN req |-> AnthropicMessages(req[i])]
           one(i) == [role |-> AnthropicRole(req[i]), ids |-> req[i].ids]
<1>1. Len(req) \in Nat /\ DOMAIN req = 1..Len(req)
  BY SequenceIs DEF RequestShaped
<1>2. ASSUME NEW i \in 1..Len(req)
      PROVE  one(i) \in WireMessage /\ AnthropicMessages(req[i]) = <<one(i)>>
  <2>1. req[i].ids \in Seq(Nat) /\ (req[i].role = "user" \/ req[i].ids # <<>>)
    BY DEF RequestShaped
  <2>2. AnthropicRole(req[i]) \in Roles
    BY DEF AnthropicRole, Roles
  <2>3. AnthropicMessages(req[i]) = <<one(i)>>
    BY <2>1 DEF AnthropicMessages, AnthropicRole
  <2> QED BY <2>1, <2>2, <2>3 DEF WireMessage
<1> HIDE DEF one
<1>3. \A i \in 1..Len(req) : /\ AnthropicMessages(req[i]) \in Seq(WireMessage)
                             /\ Len(AnthropicMessages(req[i])) = 1
                             /\ AnthropicMessages(req[i])[1] = one(i)
  <2> SUFFICES ASSUME NEW i \in 1..Len(req)
               PROVE  /\ AnthropicMessages(req[i]) \in Seq(WireMessage)
                      /\ Len(AnthropicMessages(req[i])) = 1
                      /\ AnthropicMessages(req[i])[1] = one(i)
    OBVIOUS
  <2>1. PICK w \in WireMessage : w = one(i)
    BY <1>2
  <2>2. <<w>> \in Seq(WireMessage) /\ Len(<<w>>) = 1 /\ <<w>>[1] = w
    OBVIOUS
  <2> QED BY <1>2, <2>1, <2>2
<1>4. /\ parts \in Seq(Seq(WireMessage)) /\ Len(parts) = Len(req)
      /\ \A i \in 1..Len(req) : parts[i] = AnthropicMessages(req[i])
  BY <1>1, <1>3
<1>5. AnthropicWire(req) = FlattenSeq(parts)
  BY DEF AnthropicWire
<1> HIDE DEF parts
<1>6. /\ Len(FlattenSeq(parts)) = Len(req)
      /\ \A i \in 1..Len(req) : FlattenSeq(parts)[i] = one(i)
  <2>1. \A i \in 1..Len(parts) : Len(parts[i]) = 1 /\ parts[i][1] = one(i)
    BY <1>3, <1>4
  <2>2. /\ Len(FlattenSeq(parts)) = Len(parts)
        /\ \A i \in 1..Len(parts) : FlattenSeq(parts)[i] = parts[i][1]
    BY <1>4, <2>1, Singles
  <2> QED BY <1>4, <2>1, <2>2
<1>7. DOMAIN FlattenSeq(parts) = 1..Len(FlattenSeq(parts))
  BY <1>4, OffsetFacts, LenProperties
<1> QED BY <1>1, <1>5, <1>6, <1>7 DEF one

\* So results come right after their calls, in the Anthropic format.
LEMMA BlocksPaired ==
  ASSUME NEW req, RequestShaped(req)
  PROVE  PairedInBlocks(AnthropicWire(req))
<1> DEFINE wire == AnthropicWire(req)
<1>1. /\ DOMAIN wire = 1..Len(req) /\ Len(req) \in Nat
      /\ \A i \in 1..Len(req) : /\ wire[i] = [role |-> AnthropicRole(req[i]), ids |-> req[i].ids]
                                /\ wire[i].role = AnthropicRole(req[i])
                                /\ wire[i].ids = req[i].ids
  BY AnthropicIs
<1> HIDE DEF wire
<1> SUFFICES ASSUME NEW i \in 1..Len(req)
             PROVE  /\ wire[i].role = "assistant" =>
                         /\ i + 1 \in DOMAIN wire
                         /\ wire[i + 1] = [role |-> "user", ids |-> wire[i].ids]
                    /\ wire[i].role = "user" /\ wire[i].ids # <<>> =>
                         (IF wire[i - 1].role = "assistant" THEN wire[i - 1].ids = wire[i].ids
                          ELSE i = 2 /\ summary # NoSummary)
  BY <1>1 DEF PairedInBlocks, wire
<1>2. /\ req[i].role \in {"user", "assistant", "tool"}
      /\ req[i].role = "user" <=> req[i].ids = <<>>
      /\ req[i].role = "assistant" =>
           i < Len(req) /\ req[i + 1].role = "tool" /\ req[i + 1].ids = req[i].ids
      /\ req[i].role = "tool" =>
           \/ 1 < i /\ req[i - 1].role = "assistant" /\ req[i - 1].ids = req[i].ids
           \/ i = 2 /\ summary # NoSummary /\ req[1].role = "user"
  BY DEF RequestShaped
<1>3. ASSUME wire[i].role = "assistant"
      PROVE  i + 1 \in DOMAIN wire /\ wire[i + 1] = [role |-> "user", ids |-> wire[i].ids]
  <2>1. req[i].role = "assistant"
    BY <1>1, <1>3 DEF AnthropicRole
  <2>2. PICK j \in 1..Len(req) : j = i + 1
    BY <1>1, <1>2, <2>1
  <2>3. AnthropicRole(req[j]) = "user" /\ req[j].ids = wire[i].ids
    BY <1>1, <1>2, <2>1, <2>2 DEF AnthropicRole
  <2> QED BY <1>1, <2>2, <2>3
<1>4. ASSUME wire[i].role = "user", wire[i].ids # <<>>
      PROVE  IF wire[i - 1].role = "assistant" THEN wire[i - 1].ids = wire[i].ids
             ELSE i = 2 /\ summary # NoSummary
  <2>1. req[i].role = "tool"
    BY <1>1, <1>2, <1>4 DEF AnthropicRole
  <2>2. CASE 1 < i /\ req[i - 1].role = "assistant" /\ req[i - 1].ids = req[i].ids
    <3>1. PICK j \in 1..Len(req) : j = i - 1
      <4>1. i - 1 \in 1..Len(req)
        BY <1>1, <2>2
      <4> QED BY <4>1
    <3>2. wire[j].role = "assistant" /\ wire[j].ids = wire[i].ids
      BY <1>1, <2>2, <3>1 DEF AnthropicRole
    <3> QED BY <3>1, <3>2
  <2>3. CASE i = 2 /\ summary # NoSummary /\ req[1].role = "user"
    <3>1. PICK j \in 1..Len(req) : j = 1 /\ j = i - 1
      BY <1>1, <2>3
    <3>2. wire[j].role = "user"
      BY <1>1, <2>3, <3>1 DEF AnthropicRole
    <3> QED BY <2>3, <3>1, <3>2
  <2> QED BY <1>2, <2>1, <2>2, <2>3
<1> QED BY <1>3, <1>4

\* The message for the b-th result of a message, or for all of it, and where
\* it is in the other wire format.
Block(m, b) ==
  [role |-> m.role, ids |-> IF m.role = "tool" THEN <<m.ids[b]>> ELSE m.ids]
Place(parts, a, b) == 1 + Offset(parts, a - 1) + b
Placed(parts, i) == \E a \in 1..Len(parts) : \E b \in 1..Len(parts[a]) : i = Place(parts, a, b)

\* The other format sends a message per result: where each of them is.
LEMMA OpenAIIs ==
  ASSUME NEW req, RequestShaped(req),
         NEW parts, parts = [i \in DOMAIN req |-> OpenAIMessages(req[i])],
         NEW wire, wire = OpenAIWire(req)
  PROVE  /\ parts \in Seq(Seq(WireMessage)) /\ Len(parts) = Len(req) /\ Len(req) \in Nat
         /\ Offset(parts, 0) = 0
         /\ \A a \in 0..Len(req) : Offset(parts, a) \in Nat
         /\ \A a \in 1..Len(req) :
              /\ Offset(parts, a) = Offset(parts, a - 1) + Len(parts[a])
              /\ req[a].role = "tool" => Len(parts[a]) = Len(req[a].ids)
              /\ req[a].role # "tool" => Len(parts[a]) = 1
         /\ \A a \in 1..Len(req) : \A b \in 1..Len(parts[a]) :
              Place(parts, a, b) \in DOMAIN wire /\ wire[Place(parts, a, b)] = Block(req[a], b)
         /\ wire[1] = [role |-> "system", ids |-> <<>>]
         /\ \A i \in DOMAIN wire : i = 1 \/ Placed(parts, i)
<1>1. Len(req) \in Nat /\ DOMAIN req = 1..Len(req)
  BY SequenceIs DEF RequestShaped
<1>2. ASSUME NEW a \in 1..Len(req)
      PROVE  LET part == OpenAIMessages(req[a])
             IN /\ part \in Seq(WireMessage)
                /\ req[a].role = "tool" => Len(part) = Len(req[a].ids)
                /\ req[a].role # "tool" => Len(part) = 1
                /\ \A b \in 1..Len(part) : part[b] = Block(req[a], b)
  <2>1. PICK ids \in Seq(Nat), role \in {"user", "assistant", "tool"} :
          ids = req[a].ids /\ role = req[a].role
    BY DEF RequestShaped
  <2>2. \A k \in 1..Len(ids) : ids[k] \in Nat /\ <<ids[k]>> \in Seq(Nat)
    OBVIOUS
  <2>3. CASE role = "tool"
    <3> DEFINE part == [k \in 1..Len(ids) |-> [role |-> "tool", ids |-> <<ids[k]>>]]
    <3>1. OpenAIMessages(req[a]) = part
      BY <2>1, <2>3 DEF OpenAIMessages
    <3>2. \A k \in 1..Len(ids) : [role |-> "tool", ids |-> <<ids[k]>>] \in WireMessage
      BY <2>2 DEF WireMessage, Roles
    <3>3. Len(ids) \in Nat
      OBVIOUS
    <3>4. /\ part \in Seq(WireMessage) /\ Len(part) = Len(ids)
          /\ \A k \in 1..Len(ids) : part[k] = [role |-> "tool", ids |-> <<ids[k]>>]
      BY <3>2, <3>3
    <3> HIDE DEF part
    <3>5. \A k \in 1..Len(ids) : Block(req[a], k) = [role |-> "tool", ids |-> <<ids[k]>>]
      BY <2>1, <2>3 DEF Block
    <3> QED BY <2>1, <2>3, <3>1, <3>4, <3>5
  <2>4. CASE role # "tool"
    <3>1. PICK m \in WireMessage : m = [role |-> role, ids |-> ids]
      BY DEF WireMessage, Roles
    <3>2. OpenAIMessages(req[a]) = <<m>> /\ \A b : Block(req[a], b) = m
      BY <2>1, <2>4, <3>1 DEF OpenAIMessages, Block
    <3>3. <<m>> \in Seq(WireMessage) /\ Len(<<m>>) = 1 /\ \A b \in 1..Len(<<m>>) : <<m>>[b] = m
      OBVIOUS
    <3> QED BY <2>1, <2>4, <3>1, <3>2, <3>3
  <2> QED BY <2>3, <2>4
<1>3. /\ parts \in Seq(Seq(WireMessage)) /\ Len(parts) = Len(req)
      /\ \A a \in 1..Len(req) : parts[a] = OpenAIMessages(req[a])
  <2>1. \A a \in 1..Len(req) : OpenAIMessages(req[a]) \in Seq(WireMessage)
    BY <1>2
  <2>2. parts = [a \in 1..Len(req) |-> OpenAIMessages(req[a])]
    BY <1>1
  <2> QED BY <1>1, <2>1, <2>2
<1>4. ASSUME NEW a \in 1..Len(req)
      PROVE  /\ parts[a] \in Seq(WireMessage)
             /\ req[a].role = "tool" => Len(parts[a]) = Len(req[a].ids)
             /\ req[a].role # "tool" => Len(parts[a]) = 1
             /\ \A b \in 1..Len(parts[a]) : parts[a][b] = Block(req[a], b)
  BY <1>2, <1>3
<1> DEFINE flat == FlattenSeq(parts)
<1>5. /\ flat \in Seq(WireMessage)
      /\ Offset(parts, 0) = 0
      /\ \A a \in 0..Len(parts) : Offset(parts, a) \in Nat
      /\ \A a \in 1..Len(parts) : Offset(parts, a) = Offset(parts, a - 1) + Len(parts[a])
  BY <1>3, OffsetFacts
<1>6. \A a \in 1..Len(parts) : \A b \in 1..Len(parts[a]) :
        Offset(parts, a - 1) + b \in 1..Len(flat) /\ flat[Offset(parts, a - 1) + b] = parts[a][b]
  <2>1. PICK p \in Seq(Seq(WireMessage)) : p = parts
    BY <1>3
  <2>2. \A a \in 1..Len(p) : \A b \in 1..Len(p[a]) :
          /\ Offset(p, a - 1) + b \in 1..Len(FlattenSeq(p))
          /\ FlattenSeq(p)[Offset(p, a - 1) + b] = p[a][b]
    BY FlattenAt
  <2> QED BY <2>1, <2>2
<1>7. \A j \in 1..Len(flat) : \E a \in 1..Len(parts) : \E b \in 1..Len(parts[a]) :
        j = Offset(parts, a - 1) + b
  <2>1. PICK p \in Seq(Seq(WireMessage)) : p = parts
    BY <1>3
  <2>2. \A j \in 1..Len(FlattenSeq(p)) : \E a \in 1..Len(p) : \E b \in 1..Len(p[a]) :
          j = Offset(p, a - 1) + b
    BY FlattenFrom
  <2> QED BY <2>1, <2>2
<1>8. /\ DOMAIN wire = 1..(Len(flat) + 1) /\ Len(flat) \in Nat
      /\ wire[1] = [role |-> "system", ids |-> <<>>]
      /\ \A j \in 1..Len(flat) : wire[j + 1] = flat[j]
  <2>1. wire = <<[role |-> "system", ids |-> <<>>]>> \o flat
    BY <1>3 DEF OpenAIWire
  <2>2. IsSequence(flat)
    BY <1>5, SequenceIs
  <2> HIDE DEF flat
  <2>3. /\ IsSequence(wire) /\ Len(wire) = Len(flat) + 1 /\ wire[1] = [role |-> "system", ids |-> <<>>]
        /\ \A j \in 1..Len(flat) : wire[j + 1] = flat[j]
    BY <2>1, <2>2, Consed
  <2> QED BY <2>2, <2>3, SequenceIs
<1> HIDE DEF flat
<1>9. ASSUME NEW a \in 1..Len(req), NEW b \in 1..Len(parts[a])
      PROVE  Place(parts, a, b) \in DOMAIN wire /\ wire[Place(parts, a, b)] = Block(req[a], b)
  <2>1. PICK j \in 1..Len(flat) : j = Offset(parts, a - 1) + b /\ flat[j] = parts[a][b]
    BY <1>3, <1>6
  <2>2. a - 1 \in 0..Len(parts) /\ Offset(parts, a - 1) \in Nat /\ b \in Nat
    <3>1. a - 1 \in 0..Len(parts)
      BY <1>1, <1>3
    <3>2. Len(parts[a]) \in Nat
      BY <1>4, LenProperties
    <3> QED BY <1>5, <3>1, <3>2
  <2>3. Place(parts, a, b) = j + 1 /\ j + 1 \in DOMAIN wire
    BY <1>8, <2>1, <2>2 DEF Place
  <2>4. parts[a][b] = Block(req[a], b)
    BY <1>4
  <2> QED BY <1>8, <2>1, <2>3, <2>4
<1>10. ASSUME NEW i \in DOMAIN wire, i # 1
       PROVE  Placed(parts, i)
  <2>1. PICK j \in 1..Len(flat) : i = j + 1
    <3>1. i - 1 \in 1..Len(flat) /\ i = (i - 1) + 1
      BY <1>8, <1>10
    <3> QED BY <3>1
  <2>2. PICK a \in 1..Len(parts) : \E b \in 1..Len(parts[a]) : j = Offset(parts, a - 1) + b
    BY <1>7
  <2>3. PICK b \in 1..Len(parts[a]) : j = Offset(parts, a - 1) + b
    BY <2>2
  <2>4. a \in 1..Len(req) /\ a - 1 \in 0..Len(parts) /\ Len(parts[a]) \in Nat
    BY <1>1, <1>3, <1>4, LenProperties
  <2>5. Offset(parts, a - 1) \in Nat
    BY <1>5, <2>4
  <2>6. i = Place(parts, a, b)
    BY <2>1, <2>3, <2>4, <2>5 DEF Place
  <2> QED BY <2>6 DEF Placed
<1>11. \A a \in 1..Len(req) :
         /\ Offset(parts, a) = Offset(parts, a - 1) + Len(parts[a])
         /\ req[a].role = "tool" => Len(parts[a]) = Len(req[a].ids)
         /\ req[a].role # "tool" => Len(parts[a]) = 1
  BY <1>3, <1>4, <1>5
<1>12. \A a \in 0..Len(req) : Offset(parts, a) \in Nat
  BY <1>3, <1>5
<1>13. /\ parts \in Seq(Seq(WireMessage)) /\ Len(parts) = Len(req) /\ Len(req) \in Nat
       /\ Offset(parts, 0) = 0 /\ wire[1] = [role |-> "system", ids |-> <<>>]
  BY <1>1, <1>3, <1>5, <1>8
<1> QED BY <1>9, <1>10, <1>11, <1>12, <1>13, Zenon

\* So there, too, results come right after their calls, one by one.
LEMMA MessagesPaired ==
  ASSUME NEW req, RequestShaped(req)
  PROVE  PairedInMessages(OpenAIWire(req))
<1>1. PICK parts, wire : /\ parts = [i \in DOMAIN req |-> OpenAIMessages(req[i])]
                         /\ wire = OpenAIWire(req)
  OBVIOUS
<1>2. /\ Len(req) \in Nat /\ Offset(parts, 0) = 0
      /\ wire[1] = [role |-> "system", ids |-> <<>>]
      /\ \A a \in 0..Len(req) : Offset(parts, a) \in Nat
  BY <1>1, OpenAIIs
<1>3. \A a \in 1..Len(req) :
        /\ Offset(parts, a) = Offset(parts, a - 1) + Len(parts[a])
        /\ req[a].role = "tool" => Len(parts[a]) = Len(req[a].ids)
        /\ req[a].role # "tool" => Len(parts[a]) = 1
  BY <1>1, OpenAIIs
<1>4. \A a \in 1..Len(req) : \A b \in 1..Len(parts[a]) :
        Place(parts, a, b) \in DOMAIN wire /\ wire[Place(parts, a, b)] = Block(req[a], b)
  BY <1>1, OpenAIIs
<1>5. /\ \A i \in DOMAIN wire : i = 1 \/ Placed(parts, i)
      /\ Len(parts) = Len(req)
  BY <1>1, OpenAIIs
<1>6. \A a \in 1..Len(req) :
        /\ req[a].role \in {"user", "assistant", "tool"}
        /\ req[a].ids \in Seq(Nat)
        /\ req[a].role = "user" <=> req[a].ids = <<>>
        /\ req[a].role = "assistant" =>
             a < Len(req) /\ req[a + 1].role = "tool" /\ req[a + 1].ids = req[a].ids
        /\ req[a].role = "tool" =>
             \/ 1 < a /\ req[a - 1].role = "assistant" /\ req[a - 1].ids = req[a].ids
             \/ a = 2 /\ summary # NoSummary /\ req[1].role = "user"
  BY DEF RequestShaped
<1>7. \A a \in 1..Len(req) : a - 1 \in 0..Len(req) /\ Offset(parts, a - 1) \in Nat /\ a \in Nat
  BY <1>2
<1>8. ASSUME NEW i \in DOMAIN wire, NEW k \in DOMAIN wire[i].ids, wire[i].role = "assistant"
      PROVE  i + k \in DOMAIN wire /\ wire[i + k] = [role |-> "tool", ids |-> <<wire[i].ids[k]>>]
  <2>1. i # 1
    BY <1>2, <1>8
  <2>0. PICK a \in 1..Len(req) : \E b \in 1..Len(parts[a]) : i = Place(parts, a, b)
    <3>1. Placed(parts, i)
      BY <1>5, <2>1
    <3> QED BY <1>5, <3>1 DEF Placed
  <2>2. PICK b \in 1..Len(parts[a]) : i = Place(parts, a, b)
    BY <2>0
  <2>3. req[a].role = "assistant" /\ wire[i].ids = req[a].ids
    <3>1. wire[i] = Block(req[a], b)
      BY <1>4, <2>2
    <3> QED BY <1>8, <3>1 DEF Block
  <2>4. b = 1 /\ Offset(parts, a) = Offset(parts, a - 1) + 1
    <3>1. Len(parts[a]) = 1 /\ Offset(parts, a) = Offset(parts, a - 1) + Len(parts[a])
      BY <1>3, <2>3
    <3>2. b \in 1..1
      BY <3>1
    <3> QED BY <3>1, <3>2
  <2>5. PICK c \in 1..Len(req) : c = a + 1 /\ c - 1 = a
    <3>1. a + 1 \in 1..Len(req) /\ a + 1 - 1 = a
      BY <1>2, <1>6, <1>7, <2>3
    <3> QED BY <3>1
  <2>6. req[c].role = "tool" /\ req[c].ids = req[a].ids
    BY <1>6, <2>3, <2>5
  <2>7. k \in 1..Len(parts[c]) /\ k \in Nat
    <3>1. req[a].ids \in Seq(Nat)
      BY <1>6
    <3>2. DOMAIN req[a].ids = 1..Len(req[a].ids) /\ Len(req[a].ids) \in Nat
      BY <3>1, LenProperties
    <3> QED BY <1>3, <2>3, <2>6, <3>2
  <2>8. Place(parts, c, k) = i + k
    <3>1. Place(parts, c, k) = 1 + Offset(parts, a) + k
      BY <2>5 DEF Place
    <3>2. i = 1 + Offset(parts, a - 1) + 1
      BY <2>2, <2>4 DEF Place
    <3>3. PICK o \in Nat : o = Offset(parts, a - 1)
      BY <1>7
    <3> QED BY <2>4, <2>7, <3>1, <3>2, <3>3
  <2>9. i + k \in DOMAIN wire /\ wire[i + k] = Block(req[c], k)
    BY <1>4, <2>7, <2>8
  <2>10. Block(req[c], k) = [role |-> "tool", ids |-> <<wire[i].ids[k]>>]
    BY <2>3, <2>6 DEF Block
  <2> QED BY <2>9, <2>10
<1>9. ASSUME NEW i \in DOMAIN wire, wire[i].role = "tool"
      PROVE  \/ \E a \in 1..(i - 1) : wire[a].role = "assistant" /\ Contains(wire[a].ids, wire[i].ids[1])
             \/ summary # NoSummary /\ \A j \in 3..i : wire[j].role = "tool"
  <2>1. i # 1
    BY <1>2, <1>9
  <2>0. PICK a \in 1..Len(req) : \E b \in 1..Len(parts[a]) : i = Place(parts, a, b)
    <3>1. Placed(parts, i)
      BY <1>5, <2>1
    <3> QED BY <1>5, <3>1 DEF Placed
  <2>2. PICK b \in 1..Len(parts[a]) : i = Place(parts, a, b)
    BY <2>0
  <2>3. req[a].role = "tool" /\ wire[i].ids[1] = req[a].ids[b]
    <3>1. wire[i] = Block(req[a], b)
      BY <1>4, <2>2
    <3>2. req[a].role = "tool"
      BY <1>9, <3>1 DEF Block
    <3>3. wire[i] = [role |-> "tool", ids |-> <<req[a].ids[b]>>]
      BY <3>1, <3>2 DEF Block
    <3> QED BY <3>2, <3>3
  <2>4. b \in 1..Len(req[a].ids) /\ Len(parts[a]) = Len(req[a].ids) /\ b \in Nat
    <3>1. req[a].ids \in Seq(Nat)
      BY <1>6
    <3>2. Len(req[a].ids) \in Nat
      BY <3>1, LenProperties
    <3> QED BY <1>3, <2>3, <3>2
  <2>5. CASE 1 < a /\ req[a - 1].role = "assistant" /\ req[a - 1].ids = req[a].ids
    <3>1. PICK c \in 1..Len(req) : c = a - 1
      <4>1. a - 1 \in 1..Len(req)
        BY <1>2, <1>7, <2>5
      <4> QED BY <4>1
    <3>2. Len(parts[c]) = 1 /\ Offset(parts, c) = Offset(parts, c - 1) + 1 /\ 1 \in 1..Len(parts[c])
      <4>1. Len(parts[c]) = 1 /\ Offset(parts, c) = Offset(parts, c - 1) + Len(parts[c])
        BY <1>3, <2>5, <3>1
      <4> QED BY <4>1
    <3>3. PICK p : p = Place(parts, c, 1)
      OBVIOUS
    <3>4. p \in DOMAIN wire /\ wire[p].role = "assistant" /\ wire[p].ids = req[a].ids
      <4>1. p \in DOMAIN wire /\ wire[p] = Block(req[c], 1)
        BY <1>4, <3>2, <3>3
      <4>2. req[c].role = "assistant" /\ req[c].ids = req[a].ids
        BY <2>5, <3>1
      <4> QED BY <4>1, <4>2 DEF Block
    <3>5. p \in 1..(i - 1)
      <4>1. PICK o \in Nat : o = Offset(parts, c - 1)
        BY <1>7
      <4>2. p = 1 + o + 1 /\ i = 1 + (o + 1) + b
        BY <2>2, <3>1, <3>2, <3>3, <4>1 DEF Place
      <4> QED BY <2>4, <4>1, <4>2
    <3>6. Contains(wire[p].ids, wire[i].ids[1])
      BY <2>3, <2>4, <3>4 DEF Contains
    <3> QED BY <3>4, <3>5, <3>6
  <2>6. CASE a = 2 /\ summary # NoSummary /\ req[1].role = "user"
    <3>1. 1 \in 1..Len(req) /\ Offset(parts, 1) = 1
      <4>1. PICK c \in 1..Len(req) : c = 1 /\ c - 1 = 0
        BY <1>2, <2>6
      <4>2. Offset(parts, c) = Offset(parts, c - 1) + 1
        BY <1>3, <2>6, <4>1
      <4> QED BY <1>2, <4>1, <4>2
    <3>2. ASSUME NEW j \in 3..i PROVE wire[j].role = "tool"
      <4>1. i = 2 + b
        BY <2>2, <2>4, <2>6, <3>1 DEF Place
      <4>2. PICK q \in 1..Len(parts[a]) : j = 2 + q
        <5>1. j - 2 \in 1..Len(parts[a]) /\ j = 2 + (j - 2)
          <6>1. Len(parts[a]) \in Nat /\ b <= Len(parts[a])
            BY <2>4
          <6> QED BY <2>4, <4>1, <6>1
        <5> QED BY <5>1
      <4>3. Place(parts, a, q) = j
        BY <2>6, <3>1, <4>2 DEF Place
      <4>4. wire[j] = Block(req[a], q)
        BY <1>4, <4>2, <4>3
      <4> QED BY <2>3, <4>4 DEF Block
    <3> QED BY <2>6, <3>2
  <2> QED BY <1>6, <2>3, <2>5, <2>6
<1> QED BY <1>1, <1>8, <1>9 DEF PairedInMessages

\* Every request an agent loop sends pairs each call with its results, in both
\* wire formats, and with its summary accounts for every turn and every call,
\* however often the working set was compacted (working.go:115).
THEOREM RequestsAreWhole == ConversationSpec => []RequestsWhole
<1>1. WorkingSetInv => RequestsWhole
  <2> SUFFICES ASSUME WorkingSetInv, stage = "ready"
               PROVE  /\ PairedInBlocks(AnthropicWire(Request))
                      /\ PairedInMessages(OpenAIWire(Request))
                      /\ Accounted
    BY DEF RequestsWhole
  <2>1. RequestShaped(Request)
    BY RequestIs
  <2>2. Accounted
    BY DEF WorkingSetInv
  <2> QED BY <2>1, <2>2, BlocksPaired, MessagesPaired
<1> QED BY <1>1, WorkingSetHolds, PTL

-----------------------------------------------------------------------------
(* Reading and paging in Conversation. *)

\* What has been shown or can be paged through.
Reach == seen \union UNION {ToSet(store[h]) : h \in DOMAIN store}

LineIn(f, n, atoms) == \A k \in 1..Files[f][n] : <<"line", f, n, k>> \in atoms

\* The lines of f from n to shown are among these, and where to read on.
ReadUpTo(f, n, shown, atoms) ==
  /\ shown \in n..Len(Files[f])
  /\ \A m \in n..shown : LineIn(f, m, atoms)
  /\ shown < Len(Files[f]) => <<"more", f, shown + 1>> \in atoms

\* The page of payload h after k was shown, and where to go on.
PageShown(h, k) ==
  /\ \A i \in (k + 1)..Len(store[h]) : i <= k + Page => store[h][i] \in seen
  /\ k + Page < Len(store[h]) => <<"rest", h, k + Page>> \in seen

Askable(c) ==
  \/ c.tool = "read" /\ c.of \in DOMAIN Files /\ c.from \in 1..(Len(Files[c.of]) + 1) /\ c.to \in {0, 1}
  \/ c.tool = "fetch" /\ c.of \in 0..Len(store) /\ c.from \in Nat

ReadingInv ==
  /\ IsSequence(store) /\ \A h \in 1..Len(store) : IsSequence(store[h])
  /\ IsSequence(asked) /\ \A i \in 1..Len(asked) : Askable(asked[i])
  /\ \A call \in tried : call[1] = "fetch" => call[2] \in 0..Len(store)
  /\ \A h \in 1..Len(store) : \A k \in 0..Len(store[h]) :
       <<"fetch", h, k>> \in tried => PageShown(h, k)
  /\ \A f \in DOMAIN Files : \A n \in 1..Len(Files[f]) :
       <<"read", f, n>> \in tried =>
         \E shown \in n..Len(Files[f]) : ReadUpTo(f, n, shown, Reach)

LEMMA ToSetIs ==
  ASSUME NEW s, IsSequence(s)
  PROVE  /\ \A i \in 1..Len(s) : s[i] \in ToSet(s)
         /\ \A x \in ToSet(s) : \E i \in 1..Len(s) : x = s[i]
<1>1. DOMAIN s = 1..Len(s)
  BY SequenceIs
<1> QED BY <1>1 DEF ToSet

LEMMA Unit ==
  ASSUME NEW e
  PROVE  IsSequence(<<e>>) /\ Len(<<e>>) = 1 /\ e \in ToSet(<<e>>)
<1>1. PICK s \in Seq({e}) : s = <<e>> /\ Len(s) = 1 /\ s[1] = e
  <2>1. <<e>> \in Seq({e}) /\ Len(<<e>>) = 1 /\ <<e>>[1] = e
    OBVIOUS
  <2> QED BY <2>1
<1>2. IsSequence(s)
  BY SequenceIs
<1> QED BY <1>1, <1>2, ToSetIs

LEMMA Joined ==
  ASSUME NEW s, IsSequence(s), NEW t, IsSequence(t)
  PROVE  /\ IsSequence(s \o t) /\ Len(s \o t) = Len(s) + Len(t)
         /\ \A x \in ToSet(s) : x \in ToSet(s \o t)
         /\ \A x \in ToSet(t) : x \in ToSet(s \o t)
<1>1. PICK S : S = Range(s) \union Range(t)
  OBVIOUS
<1>2. s \in Seq(Range(s)) /\ t \in Seq(Range(t)) /\ Range(s) \subseteq S /\ Range(t) \subseteq S
  BY <1>1 DEF IsSequence
<1>3. s \in Seq(S) /\ t \in Seq(S)
  BY <1>2, SeqMonotonic
<1>4. /\ s \o t \in Seq(S) /\ Len(s \o t) = Len(s) + Len(t)
      /\ \A k \in 1..Len(s) : k \in 1..Len(s \o t) /\ (s \o t)[k] = s[k]
      /\ \A k \in 1..Len(t) : Len(s) + k \in 1..Len(s \o t) /\ (s \o t)[Len(s) + k] = t[k]
  BY <1>3, ConcatAt
<1>5. PICK u : u = s \o t
  OBVIOUS
<1>6. IsSequence(u)
  BY <1>4, <1>5, SequenceIs
<1>7. ASSUME NEW x \in ToSet(s) PROVE x \in ToSet(u)
  <2>1. PICK i \in 1..Len(s) : x = s[i]
    BY ToSetIs
  <2>2. PICK j \in 1..Len(u) : u[j] = x
    BY <1>4, <1>5, <2>1
  <2> QED BY <1>6, <2>2, ToSetIs
<1>8. ASSUME NEW x \in ToSet(t) PROVE x \in ToSet(u)
  <2>1. PICK i \in 1..Len(t) : x = t[i]
    BY ToSetIs
  <2>2. PICK j \in 1..Len(u) : u[j] = x
    BY <1>4, <1>5, <2>1
  <2> QED BY <1>6, <2>2, ToSetIs
<1> QED BY <1>4, <1>5, <1>6, <1>7, <1>8

\* A bounded set of numbers has a largest.
LEMMA LargestIs ==
  ASSUME NEW S \in SUBSET Nat, S # {}, NEW b \in Nat, \A x \in S : x <= b
  PROVE  Max(S) \in S /\ \A x \in S : x <= Max(S)
<1> DEFINE good == {d \in Nat : \A x \in S : x + d <= b}
<1>1. \E m \in S : \A x \in S : m >= x
  <2> SUFFICES ASSUME \A m \in S : \E x \in S : ~(m >= x)
               PROVE  FALSE
    OBVIOUS
  <2>1. 0 \in good
    OBVIOUS
  <2>2. ASSUME NEW d \in good PROVE d + 1 \in good
    <3> SUFFICES ASSUME NEW m \in S PROVE m + (d + 1) <= b
      OBVIOUS
    <3>1. PICK x \in S : ~(m >= x)
      OBVIOUS
    <3>2. x + d <= b /\ x \in Nat /\ m \in Nat /\ d \in Nat
      OBVIOUS
    <3> QED BY <3>1, <3>2
  <2>3. b + 1 \in good
    <3> HIDE DEF good
    <3>1. good \in SUBSET Nat /\ b + 1 \in Nat
      BY DEF good
    <3> QED BY <2>1, <2>2, <3>1, Induction
  <2>4. PICK x \in S : x + (b + 1) <= b /\ x \in Nat
    BY <2>3
  <2> QED BY <2>4
<1>2. Max(S) \in S /\ \A x \in S : Max(S) >= x
  BY <1>1 DEF Max
<1>3. \A x \in S : x \in Nat
  OBVIOUS
<1> QED BY <1>2, <1>3

LEMMA SmallerIs ==
  ASSUME NEW a \in Nat, NEW b \in Nat
  PROVE  Min({a, b}) = IF a <= b THEN a ELSE b
<1>1. PICK m \in {a, b} : \A x \in {a, b} : m <= x
  <2>1. CASE a <= b
    BY <2>1
  <2>2. CASE ~(a <= b)
    BY <2>2
  <2> QED BY <2>1, <2>2
<1>2. Min({a, b}) \in {a, b} /\ \A x \in {a, b} : Min({a, b}) <= x
  BY <1>1 DEF Min
<1> QED BY <1>2

-----------------------------------------------------------------------------
\* Lines has the characters of its lines and no others.
LEMMA LinesAre ==
  ASSUME NEW f \in DOMAIN Files, NEW a \in Nat, 0 < a,
         NEW b \in Nat, b <= Len(Files[f]), a <= b + 1
  PROVE  /\ IsSequence(Lines(f, a, b))
         /\ a = b + 1 => Len(Lines(f, a, b)) = 0
         /\ \A n \in a..b : LineIn(f, n, ToSet(Lines(f, a, b)))
         /\ \A x \in ToSet(Lines(f, a, b)) :
              \E n \in a..b : \E k \in 1..Files[f][n] : x = <<"line", f, n, k>>
<1>1. /\ Files[f] \in Seq(Nat) /\ Len(Files[f]) \in Nat
      /\ \A n \in 1..Len(Files[f]) : Files[f][n] \in Nat
  BY ConversationAssumption DEF ConversationAssumption
<1> DEFINE S == {<<"line", f, n, k>> : n \in Nat, k \in Nat}
           parts == [i \in 1..(b + 1 - a) |-> Line(f, a + i - 1)]
<1>2. ASSUME NEW n \in 1..Len(Files[f])
      PROVE  /\ Line(f, n) \in Seq(S) /\ Len(Line(f, n)) = Files[f][n]
             /\ \A k \in 1..Files[f][n] : Line(f, n)[k] = <<"line", f, n, k>>
  <2>1. PICK m \in Nat : m = Files[f][n]
    BY <1>1
  <2>2. \A k \in 1..m : <<"line", f, n, k>> \in S
    OBVIOUS
  <2> HIDE DEF S
  <2>3. [k \in 1..m |-> <<"line", f, n, k>>] \in Seq(S)
    BY <2>2
  <2> QED BY <2>1, <2>3 DEF Line
<1> HIDE DEF S
<1>3. b + 1 - a \in Nat /\ \A i \in 1..(b + 1 - a) : a + i - 1 \in 1..Len(Files[f]) /\ a + i - 1 \in a..b
  BY <1>1
<1>4. \A i \in 1..(b + 1 - a) : Line(f, a + i - 1) \in Seq(S)
  BY <1>2, <1>3
<1>5. /\ parts \in Seq(Seq(S)) /\ Len(parts) = b + 1 - a
      /\ \A i \in 1..(b + 1 - a) : parts[i] = Line(f, a + i - 1)
  BY <1>3, <1>4
<1> HIDE DEF parts
<1>6. PICK whole : whole = FlattenSeq(parts) /\ whole = Lines(f, a, b)
  BY DEF Lines, parts
<1>7. whole \in Seq(S) /\ IsSequence(whole)
  BY <1>5, <1>6, OffsetFacts, SequenceIs
<1>8. a = b + 1 => Len(whole) = 0
  <2> HAVE a = b + 1
  <2>1. parts = <<>>
    BY <1>5
  <2> QED BY <1>6, <2>1, FlattenNone, NoneIsSequence
<1>9. ASSUME NEW n \in a..b, NEW k \in 1..Files[f][n]
      PROVE  <<"line", f, n, k>> \in ToSet(whole)
  <2>1. PICK i \in 1..(b + 1 - a) : n = a + i - 1
    <3>1. n - a + 1 \in 1..(b + 1 - a) /\ n = a + (n - a + 1) - 1
      OBVIOUS
    <3> QED BY <3>1
  <2>2. parts[i] = Line(f, n) /\ n \in 1..Len(Files[f])
    BY <1>3, <1>5, <2>1
  <2>3. /\ Len(parts[i]) = Files[f][n] /\ i \in 1..Len(parts)
        /\ parts[i][k] = <<"line", f, n, k>>
    BY <1>2, <1>5, <2>2
  <2>4. PICK p \in Seq(Seq(S)) : p = parts
    BY <1>5
  <2>5. /\ Offset(p, i - 1) + k \in 1..Len(FlattenSeq(p))
        /\ FlattenSeq(p)[Offset(p, i - 1) + k] = p[i][k]
    BY <2>3, <2>4, FlattenAt
  <2>6. PICK q \in 1..Len(whole) : whole[q] = <<"line", f, n, k>>
    BY <1>6, <2>3, <2>4, <2>5
  <2>7. whole[q] \in ToSet(whole)
    BY <1>7, ToSetIs
  <2> QED BY <2>6, <2>7
<1>10. ASSUME NEW x \in ToSet(whole)
       PROVE  \E n \in a..b : \E k \in 1..Files[f][n] : x = <<"line", f, n, k>>
  <2>1. PICK j \in 1..Len(whole) : x = whole[j]
    BY <1>7, ToSetIs
  <2>2. PICK p \in Seq(Seq(S)) : p = parts
    BY <1>5
  <2>3. PICK i \in 1..Len(p) : \E k \in 1..Len(p[i]) : FlattenSeq(p)[j] = p[i][k]
    <3>1. \A q \in 1..Len(FlattenSeq(p)) : \E i \in 1..Len(p) : \E k \in 1..Len(p[i]) :
            q = Offset(p, i - 1) + k /\ FlattenSeq(p)[q] = p[i][k]
      BY FlattenFrom
    <3>2. j \in 1..Len(FlattenSeq(p))
      BY <1>6, <2>1, <2>2
    <3> QED BY <3>1, <3>2
  <2>4. PICK k \in 1..Len(p[i]) : FlattenSeq(p)[j] = p[i][k]
    BY <2>3
  <2>5. PICK n : n = a + i - 1
    OBVIOUS
  <2>6. n \in a..b /\ n \in 1..Len(Files[f]) /\ p[i] = Line(f, n)
    BY <1>3, <1>5, <2>2, <2>5
  <2>7. k \in 1..Files[f][n] /\ p[i][k] = <<"line", f, n, k>>
    BY <1>2, <2>6
  <2> QED BY <1>6, <2>1, <2>2, <2>4, <2>6, <2>7
<1> QED BY <1>6, <1>7, <1>8, <1>9, <1>10 DEF LineIn

\* A read renders at least the line it starts from, and no line that is not there.
LEMMA RenderedIs ==
  ASSUME NEW f \in DOMAIN Files, NEW from \in 1..Len(Files[f]), NEW to \in {0, 1}
  PROVE  Rendered(f, from, LastLine(f, from, to)) \in from..Len(Files[f])
<1>1. Len(Files[f]) \in Nat /\ MaxLines \in Nat /\ 0 < MaxLines /\ ReadCap \in Nat /\ 1 < ReadCap
  <2>1. Files[f] \in Seq(Nat)
    BY ConversationAssumption DEF ConversationAssumption
  <2> QED BY <2>1, ConversationAssumption DEF ConversationAssumption
<1>2. from \in Nat /\ from > 0 /\ from <= Len(Files[f]) /\ to \in Nat
  BY <1>1
<1> DEFINE last == LastLine(f, from, to)
           end == IF to < from THEN Len(Files[f]) ELSE Min({to, Len(Files[f])})
<1>3. end \in from..Len(Files[f])
  BY <1>1, <1>2, SmallerIs
<1>4. last \in from..Len(Files[f])
  <2>1. last = Min({end, from + MaxLines - 1})
    BY DEF LastLine
  <2> HIDE DEF end, last
  <2>2. end \in Nat /\ from + MaxLines - 1 \in Nat
    BY <1>1, <1>2, <1>3
  <2>3. Min({end, from + MaxLines - 1})
          = IF end <= from + MaxLines - 1 THEN end ELSE from + MaxLines - 1
    BY <2>2, SmallerIs
  <2> QED BY <1>1, <1>2, <1>3, <2>1, <2>3
<1> HIDE DEF last
<1> DEFINE fit == {n \in from..last : 1 + Len(Lines(f, from, n - 1)) < ReadCap}
           S == {from - 1} \union fit
<1>5. from \in fit
  <2>1. Len(Lines(f, from, from - 1)) = 0
    <3>1. from - 1 \in Nat /\ from - 1 <= Len(Files[f]) /\ from <= (from - 1) + 1 /\ from = (from - 1) + 1
      BY <1>1, <1>2
    <3> QED BY <1>2, <3>1, LinesAre
  <2> QED BY <1>1, <1>2, <1>4, <2>1
<1>6. S \in SUBSET Nat /\ S # {} /\ last \in Nat /\ \A n \in S : n <= last
  BY <1>1, <1>2, <1>4
<1>7. from \in S /\ \A n \in S : n <= last
  BY <1>5, <1>6
<1>8. Rendered(f, from, last) = Max(S)
  BY DEF Rendered
<1> HIDE DEF S
<1>9. Max(S) \in S /\ \A n \in S : n <= Max(S)
  BY <1>6, LargestIs
<1>10. from <= Max(S) /\ Max(S) <= last /\ Max(S) \in Nat
  BY <1>6, <1>7, <1>9
<1> QED BY <1>1, <1>2, <1>4, <1>8, <1>10 DEF last

\* A read shows its lines and where to read on.
LEMMA ReadShows ==
  ASSUME NEW f \in DOMAIN Files, Files[f] # <<>>,
         NEW n \in 1..(Len(Files[f]) + 1), NEW to \in {0, 1}
  PROVE  /\ IsSequence(ReadFile(f, n, to))
         /\ n <= Len(Files[f]) =>
              \E shown \in n..Len(Files[f]) : ReadUpTo(f, n, shown, ToSet(ReadFile(f, n, to)))
<1>1. Files[f] \in Seq(Nat) /\ Len(Files[f]) \in Nat /\ Len(Files[f]) > 0
  <2>1. Files[f] \in Seq(Nat)
    BY ConversationAssumption DEF ConversationAssumption
  <2> QED BY <2>1, EmptySeq
<1>2. PICK from \in 1..Len(Files[f]) : from = FirstLine(f, n) /\ (n <= Len(Files[f]) => from = n)
  <2>1. FirstLine(f, n) = IF n <= Len(Files[f]) THEN n ELSE Len(Files[f])
    BY <1>1, SmallerIs DEF FirstLine
  <2> QED BY <1>1, <2>1
<1>3. PICK shown \in from..Len(Files[f]) : shown = Rendered(f, from, LastLine(f, from, to))
  BY RenderedIs
<1>4. Advised(f, from, to) = shown + 1
  BY <1>3 DEF Advised
<1>5. PICK body : body = Lines(f, from, shown)
  OBVIOUS
<1>6. IsSequence(body) /\ \A m \in from..shown : LineIn(f, m, ToSet(body))
  <2>1. from \in Nat /\ 0 < from /\ shown \in Nat /\ shown <= Len(Files[f]) /\ from <= shown + 1
    BY <1>1
  <2> QED BY <1>5, <2>1, LinesAre
<1>7. PICK heading, note : /\ heading = <<<<"heading">>>>
                           /\ note = IF shown + 1 <= Len(Files[f]) THEN <<<<"more", f, shown + 1>>>> ELSE <<>>
  OBVIOUS
<1>8. ReadFile(f, n, to) = (heading \o body) \o note
  BY <1>2, <1>3, <1>4, <1>5, <1>7 DEF ReadFile
<1>9. IsSequence(heading) /\ IsSequence(note)
  BY <1>7, Unit, NoneIsSequence
<1>10. IsSequence(heading \o body) /\ \A x \in ToSet(body) : x \in ToSet(heading \o body)
  BY <1>6, <1>9, Joined
<1>11. PICK start : start = heading \o body
  OBVIOUS
<1>12. /\ IsSequence(start \o note) /\ \A x \in ToSet(start) : x \in ToSet(start \o note)
       /\ \A x \in ToSet(note) : x \in ToSet(start \o note)
  BY <1>9, <1>10, <1>11, Joined
<1>13. PICK content : content = ReadFile(f, n, to) /\ content = start \o note
  BY <1>8, <1>11
<1>14. \A x \in ToSet(body) : x \in ToSet(content)
  BY <1>10, <1>11, <1>12, <1>13
<1>15. shown < Len(Files[f]) => <<"more", f, shown + 1>> \in ToSet(content)
  <2> HAVE shown < Len(Files[f])
  <2>1. note = <<<<"more", f, shown + 1>>>>
    BY <1>1, <1>7
  <2>2. <<"more", f, shown + 1>> \in ToSet(note)
    BY <2>1, Unit
  <2> QED BY <1>12, <1>13, <2>2
<1>16. \A m \in from..shown : LineIn(f, m, ToSet(content))
  BY <1>6, <1>14 DEF LineIn
<1>17. ReadUpTo(f, from, shown, ToSet(content))
  BY <1>15, <1>16 DEF ReadUpTo
<1> QED BY <1>2, <1>12, <1>13, <1>17

\* A fetch shows its page and where to go on, and is never spilled itself.
LEMMA FetchShows ==
  ASSUME NEW h, IsSequence(store[h]), NEW k \in Nat
  PROVE  /\ IsSequence(Fetch(h, k)) /\ ~(Len(Fetch(h, k)) > SpillAt)
         /\ k <= Len(store[h]) =>
              /\ \A i \in (k + 1)..Len(store[h]) : i <= k + Page => store[h][i] \in ToSet(Fetch(h, k))
              /\ k + Page < Len(store[h]) => <<"rest", h, k + Page>> \in ToSet(Fetch(h, k))
<1>1. PICK payload : payload = store[h]
  OBVIOUS
<1>2. PICK size \in Nat : size = Len(payload)
  BY <1>1, SequenceIs
<1>3. Page \in Nat /\ SpillAt \in Nat /\ Page < SpillAt
  BY ConversationAssumption DEF ConversationAssumption
<1>4. PICK from \in 0..size : from = (IF k > size THEN 0 ELSE k)
  BY <1>2
<1>5. PICK end \in from..size : /\ end = Min({from + Page, size}) /\ end <= from + Page
                                /\ end < size => end = from + Page
  <2>1. Min({from + Page, size}) = IF from + Page <= size THEN from + Page ELSE size
    BY <1>2, <1>3, <1>4, SmallerIs
  <2> QED BY <1>2, <1>3, <1>4, <2>1
<1>6. PICK page, note : /\ page = SubSeq(payload, from + 1, end)
                        /\ note = IF end < size THEN <<<<"rest", h, end>>>> ELSE <<>>
  OBVIOUS
<1>7. PICK content : content = Fetch(h, k) /\ content = page \o note
  BY <1>1, <1>2, <1>4, <1>5, <1>6 DEF Fetch
<1>8. /\ IsSequence(page) /\ Len(page) = end - from
      /\ \A i \in (from + 1)..end : payload[i] \in ToSet(page)
  <2>1. payload \in Seq(Range(payload)) /\ \A i \in 1..size : payload[i] \in Range(payload)
    BY <1>1, <1>2 DEF IsSequence
  <2>2. \A i \in (from + 1)..end : payload[i] \in Range(payload)
    BY <1>4, <2>1
  <2>3. /\ page \in Seq(Range(payload)) /\ Len(page) = (IF from + 1 <= end THEN end - (from + 1) + 1 ELSE 0)
        /\ \A i \in 1..(end - (from + 1) + 1) : page[i] = payload[from + 1 + i - 1]
    BY <1>6, <2>2, SubSeqProperties
  <2>4. IsSequence(page) /\ Len(page) = end - from
    BY <2>3, SequenceIs
  <2>5. ASSUME NEW i \in (from + 1)..end PROVE payload[i] \in ToSet(page)
    <3>1. PICK j \in 1..Len(page) : j = i - from
      BY <2>4
    <3>2. page[j] = payload[i]
      BY <2>3, <2>4, <3>1
    <3>3. page[j] \in ToSet(page)
      BY <2>4, ToSetIs
    <3> QED BY <3>2, <3>3
  <2> QED BY <2>4, <2>5
<1>9. IsSequence(note) /\ Len(note) <= 1 /\ Len(note) \in Nat
  BY <1>6, Unit, NoneIsSequence
<1>10. /\ IsSequence(page \o note) /\ Len(page \o note) = Len(page) + Len(note)
       /\ \A x \in ToSet(page) : x \in ToSet(page \o note)
       /\ \A x \in ToSet(note) : x \in ToSet(page \o note)
  BY <1>8, <1>9, Joined
<1>11. IsSequence(content) /\ ~(Len(content) > SpillAt)
  BY <1>3, <1>4, <1>5, <1>7, <1>8, <1>9, <1>10
<1>12. ASSUME k <= size
       PROVE  /\ \A i \in (k + 1)..size : i <= k + Page => payload[i] \in ToSet(content)
              /\ k + Page < size => <<"rest", h, k + Page>> \in ToSet(content)
  <2>1. from = k
    BY <1>4, <1>12
  <2>2. ASSUME NEW i \in (k + 1)..size, i <= k + Page PROVE payload[i] \in ToSet(content)
    <3>1. i \in (from + 1)..end
      BY <1>3, <1>5, <2>1, <2>2
    <3> QED BY <1>7, <1>8, <1>10, <3>1
  <2>3. ASSUME k + Page < size PROVE <<"rest", h, k + Page>> \in ToSet(content)
    <3>1. end = k + Page /\ end < size
      <4>1. Min({from + Page, size}) = IF from + Page <= size THEN from + Page ELSE size
        BY <1>2, <1>3, <1>4, SmallerIs
      <4> QED BY <1>2, <1>3, <1>5, <2>1, <2>3, <4>1
    <3>2. note = <<<<"rest", h, k + Page>>>>
      BY <1>6, <3>1
    <3>3. <<"rest", h, k + Page>> \in ToSet(note)
      BY <3>2, Unit
    <3> QED BY <1>7, <1>10, <3>3
  <2> QED BY <2>2, <2>3
<1> QED BY <1>1, <1>2, <1>7, <1>11, <1>12

\* A payload fetched from its start and from every note has been shown.
LEMMA PayloadWhole ==
  ASSUME ReadingInv, NEW h \in DOMAIN store, Followed(h)
  PROVE  Seen(store[h])
<1>1. h \in 1..Len(store) /\ IsSequence(store[h])
  BY SequenceIs DEF ReadingInv
<1>2. PICK payload : payload = store[h] /\ IsSequence(payload)
  BY <1>1
<1>3. PICK n \in Nat : n = Len(payload) /\ DOMAIN payload = 1..n
  BY <1>2, SequenceIs
<1>4. Page \in Nat /\ 0 < Page
  BY ConversationAssumption DEF ConversationAssumption
<1>5. \A k \in 0..n : <<"fetch", h, k>> \in tried =>
        /\ \A i \in (k + 1)..n : i <= k + Page => payload[i] \in seen
        /\ k + Page < n => <<"rest", h, k + Page>> \in seen
  BY <1>1, <1>2, <1>3 DEF ReadingInv, PageShown
<1>6. /\ <<"fetch", h, 0>> \in tried
      /\ \A k \in 1..n : <<"rest", h, k>> \in seen => <<"fetch", h, k>> \in tried
  BY <1>2, <1>3 DEF Followed
<1> DEFINE good == {j \in Nat : j <= n =>
                      /\ \A i \in 1..j : payload[i] \in seen
                      /\ \E k \in 0..n : <<"fetch", h, k>> \in tried /\ k <= j /\ j <= k + Page}
<1>7. 0 \in good
  BY <1>4, <1>6
<1>8. ASSUME NEW j \in good PROVE j + 1 \in good
  <2> SUFFICES ASSUME j + 1 <= n
               PROVE  /\ \A i \in 1..(j + 1) : payload[i] \in seen
                      /\ \E k \in 0..n : <<"fetch", h, k>> \in tried /\ k <= j + 1 /\ j + 1 <= k + Page
    OBVIOUS
  <2>1. j \in Nat /\ j <= n /\ \A i \in 1..j : payload[i] \in seen
    OBVIOUS
  <2>2. PICK k \in 0..n : <<"fetch", h, k>> \in tried /\ k <= j /\ j <= k + Page
    BY <2>1
  <2>3. PICK next \in 0..n : <<"fetch", h, next>> \in tried /\ next <= j /\ j + 1 <= next + Page
    <3>1. CASE j < k + Page
      BY <1>4, <2>1, <2>2, <3>1
    <3>2. CASE j = k + Page
      <4>1. j \in 1..n /\ <<"rest", h, j>> \in seen
        BY <1>4, <1>5, <2>1, <2>2, <3>2
      <4> QED BY <1>4, <1>6, <2>1, <4>1
    <3> QED BY <1>4, <2>1, <2>2, <3>1, <3>2
  <2> HIDE DEF good
  <2>4. PICK i \in (next + 1)..n : i = j + 1
    BY <2>1, <2>3
  <2>5. payload[i] \in seen
    BY <1>5, <2>3, <2>4
  <2>6. \A m \in 1..(j + 1) : m \in 1..j \/ m = i
    BY <2>1, <2>4
  <2>7. \A m \in 1..(j + 1) : payload[m] \in seen
    BY <2>1, <2>5, <2>6
  <2>8. next <= j + 1
    BY <2>1, <2>3
  <2> QED BY <2>3, <2>7, <2>8
<1> HIDE DEF good
<1>9. n \in good
  <2>1. good \in SUBSET Nat
    BY DEF good
  <2> QED BY <1>3, <1>7, <1>8, <2>1, Induction
<1>10. \A i \in 1..n : payload[i] \in seen
  BY <1>3, <1>9 DEF good
<1>11. \A x \in ToSet(payload) : x \in seen
  BY <1>2, <1>3, <1>10, ToSetIs
<1> QED BY <1>2, <1>11 DEF Seen

\* A file read from its start and from every note has been shown, if what was
\* spilled has.
LEMMA FileWhole ==
  ASSUME ReadingInv, NEW f \in DOMAIN Files, ReadOn(f),
         \A h \in DOMAIN store : Seen(store[h])
  PROVE  Seen(Lines(f, 1, Len(Files[f])))
<1>1. PICK n \in Nat : n = Len(Files[f]) /\ DOMAIN Files[f] = 1..n
  <2>1. Files[f] \in Seq(Nat)
    BY ConversationAssumption DEF ConversationAssumption
  <2> QED BY <2>1
<1>2. \A x \in Reach : x \in seen
  BY DEF Reach, Seen
<1>3. \A a \in 1..n : <<"read", f, a>> \in tried =>
        \E shown \in a..n : /\ \A m \in a..shown : LineIn(f, m, seen)
                            /\ shown < n => <<"more", f, shown + 1>> \in seen
  <2> SUFFICES ASSUME NEW a \in 1..n, <<"read", f, a>> \in tried
               PROVE  \E shown \in a..n : /\ \A m \in a..shown : LineIn(f, m, seen)
                                          /\ shown < n => <<"more", f, shown + 1>> \in seen
    OBVIOUS
  <2>1. PICK shown \in a..n : ReadUpTo(f, a, shown, Reach)
    BY <1>1 DEF ReadingInv
  <2>2. \A m \in a..shown : LineIn(f, m, Reach)
    BY <2>1 DEF ReadUpTo
  <2>3. \A m \in a..shown : LineIn(f, m, seen)
    BY <1>2, <2>2 DEF LineIn
  <2>4. shown < n => <<"more", f, shown + 1>> \in Reach
    BY <1>1, <2>1 DEF ReadUpTo
  <2> QED BY <1>2, <2>3, <2>4
<1>4. /\ <<"read", f, 1>> \in tried
      /\ \A a \in 1..n : <<"more", f, a>> \in seen => <<"read", f, a>> \in tried
  BY <1>1 DEF ReadOn
\* The last read shows the lines up to at least j.
<1> DEFINE upTo(a, shown) == /\ <<"read", f, a>> \in tried
                             /\ \A m \in a..shown : LineIn(f, m, seen)
                             /\ shown < n => <<"more", f, shown + 1>> \in seen
           good == {j \in Nat : j <= n =>
                      /\ \A m \in 1..j : LineIn(f, m, seen)
                      /\ \E a \in 1..n : \E shown \in a..n : upTo(a, shown) /\ a <= j + 1 /\ j <= shown}
<1>5. \A a \in 1..n : <<"read", f, a>> \in tried => \E shown \in a..n : upTo(a, shown)
  BY <1>3
<1>6. \A a \in 1..n : \A shown \in a..n : upTo(a, shown) =>
        /\ \A m \in a..shown : LineIn(f, m, seen)
        /\ shown < n => <<"more", f, shown + 1>> \in seen
  OBVIOUS
<1> HIDE DEF upTo
<1>7. ASSUME n > 0
      PROVE  \A m \in 1..n : LineIn(f, m, seen)
  <2>1. 0 \in good
    <3>1. PICK shown \in 1..n : upTo(1, shown)
      BY <1>4, <1>5, <1>7
    <3> QED BY <1>7, <3>1
  <2>2. ASSUME NEW j \in good PROVE j + 1 \in good
    <3> SUFFICES ASSUME j + 1 <= n
                 PROVE  /\ \A m \in 1..(j + 1) : LineIn(f, m, seen)
                        /\ \E a \in 1..n : \E shown \in a..n :
                             upTo(a, shown) /\ a <= j + 1 + 1 /\ j + 1 <= shown
      OBVIOUS
    <3>1. /\ j \in Nat /\ \A m \in 1..j : LineIn(f, m, seen)
          /\ \E a \in 1..n : \E shown \in a..n : upTo(a, shown) /\ a <= j + 1 /\ j <= shown
      OBVIOUS
    <3> HIDE DEF good
    <3>2. PICK a \in 1..n : \E shown \in a..n : upTo(a, shown) /\ a <= j + 1 /\ j <= shown
      BY <3>1
    <3>3. PICK shown \in a..n : upTo(a, shown) /\ a <= j + 1 /\ j <= shown
      BY <3>2
    <3>4. PICK line \in 1..n : line = j + 1
      BY <3>1
    <3>5. \E b \in 1..n : \E to \in b..n : upTo(b, to) /\ b <= line /\ line <= to
      <4>1. CASE j < shown
        BY <3>1, <3>2, <3>3, <3>4, <4>1
      <4>2. CASE j = shown
        <5>1. <<"more", f, line>> \in seen
          BY <1>6, <3>1, <3>3, <3>4, <4>2
        <5>2. PICK to \in line..n : upTo(line, to)
          BY <1>4, <1>5, <3>4, <5>1
        <5> QED BY <3>4, <5>2
      <4> QED BY <3>1, <3>3, <4>1, <4>2
    <3>6. PICK b \in 1..n : \E to \in b..n : upTo(b, to) /\ b <= line /\ line <= to
      BY <3>5
    <3>7. PICK to \in b..n : upTo(b, to) /\ b <= line /\ line <= to
      BY <3>6
    <3>8. LineIn(f, line, seen)
      <4>1. line \in b..to
        BY <3>4, <3>6, <3>7
      <4> QED BY <1>6, <3>7, <4>1
    <3>9. \A m \in 1..(j + 1) : m \in 1..j \/ m = line
      BY <3>1, <3>4
    <3>10. \A m \in 1..(j + 1) : LineIn(f, m, seen)
      BY <3>1, <3>8, <3>9
    <3>11. b <= j + 1 + 1 /\ j + 1 <= to
      BY <3>1, <3>4, <3>6, <3>7
    <3> QED BY <3>7, <3>10, <3>11
  <2> HIDE DEF good
  <2>3. n \in good
    <3>1. good \in SUBSET Nat
      BY DEF good
    <3> QED BY <2>1, <2>2, <3>1, Induction
  <2> QED BY <2>3 DEF good
<1> HIDE DEF good
<1> DEFINE body == Lines(f, 1, n)
<1>8. \A m \in 1..n : LineIn(f, m, seen)
  <2>1. CASE n > 0
    BY <1>7, <2>1
  <2>2. CASE ~(n > 0)
    BY <2>2
  <2> QED BY <2>1, <2>2
<1>9. \A x \in ToSet(body) : \E m \in 1..n : \E k \in 1..Files[f][m] : x = <<"line", f, m, k>>
  <2>1. PICK one \in Nat : one = 1 /\ 0 < one /\ one <= n + 1
    OBVIOUS
  <2>2. \A x \in ToSet(Lines(f, one, n)) :
          \E m \in one..n : \E k \in 1..Files[f][m] : x = <<"line", f, m, k>>
    BY <1>1, <2>1, LinesAre
  <2> QED BY <2>1, <2>2
<1> HIDE DEF body
<1>10. \A x \in ToSet(body) : x \in seen
  BY <1>8, <1>9 DEF LineIn
<1> QED BY <1>1, <1>10 DEF Seen, body

\* Following the notes, one comes to the end.
LEMMA ReadingSuffices == ReadingInv => ReadsComplete
<1> SUFFICES ASSUME ReadingInv
             PROVE  ReadsComplete
  OBVIOUS
<1>1. \A h \in DOMAIN store : Followed(h) => Seen(store[h])
  BY PayloadWhole
<1>2. (\A h \in DOMAIN store : Seen(store[h])) =>
        \A f \in DOMAIN Files : ReadOn(f) => Seen(Lines(f, 1, Len(Files[f])))
  BY FileWhole
<1> QED BY <1>1, <1>2 DEF ReadsComplete

LEMMA ReadingInit == ConversationInit => ReadingInv
<1> SUFFICES ASSUME ConversationInit
             PROVE  ReadingInv
  OBVIOUS
<1>1. store = <<>> /\ asked = <<>> /\ tried = {} /\ seen = {}
  BY DEF ConversationInit
<1>2. /\ IsSequence(store) /\ Len(store) = 0
      /\ IsSequence(asked) /\ Len(asked) = 0
  BY <1>1, NoneIsSequence
<1> QED BY <1>1, <1>2 DEF ReadingInv

\* A model asks for files there are and for handles given out.
LEMMA CallsAskable ==
  ASSUME IsSequence(store), \A h \in 1..Len(store) : IsSequence(store[h]), NEW c \in Calls
  PROVE  Askable(c)
<1>1. DOMAIN store = 1..Len(store) /\ Len(store) \in Nat
  BY SequenceIs
<1>2. ASSUME c \in UNION {Reads(f) : f \in DOMAIN Files}
      PROVE  Askable(c)
  <2>1. PICK f \in DOMAIN Files : c \in Reads(f)
    BY <1>2
  <2>2. c.tool = "read" /\ c.of = f /\ c.to \in {0, 1} /\ c.from \in 1..(Len(Files[f]) + 1)
    BY <2>1 DEF Reads
  <2> QED BY <2>2 DEF Askable
<1>3. ASSUME c \in UNION {Fetches(h) : h \in DOMAIN store}
      PROVE  Askable(c)
  <2>1. PICK h \in DOMAIN store : c \in Fetches(h)
    BY <1>3
  <2>2. c.tool = "fetch" /\ c.of = h /\ c.from \in {0} \union DOMAIN store[h]
    BY <2>1 DEF Fetches
  <2>3. h \in 0..Len(store) /\ IsSequence(store[h])
    BY <1>1
  <2>4. DOMAIN store[h] = 1..Len(store[h]) /\ Len(store[h]) \in Nat
    BY <2>3, SequenceIs
  <2> QED BY <2>2, <2>3, <2>4 DEF Askable
<1>4. ASSUME c = [tool |-> "fetch", of |-> 0, from |-> 0]
      PROVE  Askable(c)
  BY <1>1, <1>4 DEF Askable
<1>5. \/ c \in UNION {Reads(f) : f \in DOMAIN Files}
      \/ c \in UNION {Fetches(h) : h \in DOMAIN store}
      \/ c = [tool |-> "fetch", of |-> 0, from |-> 0]
  BY Zenon DEF Calls
<1> QED BY <1>2, <1>3, <1>4, <1>5

LEMMA CompleteReads == ReadingInv /\ Complete => ReadingInv'
<1> SUFFICES ASSUME ReadingInv, Complete
             PROVE  ReadingInv'
  OBVIOUS
<1>1. PICK calls : /\ asked' = calls
                   /\ calls \in UNION {[1..k -> Calls] : k \in 1..Fanout}
  BY DEF Complete
<1>2. UNCHANGED <<store, seen, tried>>
  BY DEF Complete
<1>3. PICK k \in Nat : calls \in [1..k -> Calls]
  BY <1>1, ConversationAssumption DEF ConversationAssumption
<1>4. calls \in Seq(Calls) /\ Len(calls) = k
  BY <1>3
<1>5. IsSequence(calls)
  BY <1>4, SequenceIs
<1>6. IsSequence(store) /\ \A h \in 1..Len(store) : IsSequence(store[h])
  BY DEF ReadingInv
<1>7. \A i \in 1..Len(calls) : Askable(calls[i])
  BY <1>3, <1>4, <1>6, CallsAskable
<1> QED BY <1>1, <1>2, <1>5, <1>7 DEF ReadingInv, Askable, PageShown, Reach

LEMMA OthersRead ==
  ReadingInv /\ UNCHANGED <<store, seen, tried>> /\ asked' \in {asked, <<>>} => ReadingInv'
<1> SUFFICES ASSUME ReadingInv, UNCHANGED <<store, seen, tried>>, asked' \in {asked, <<>>}
             PROVE  ReadingInv'
  OBVIOUS
<1>1. IsSequence(asked) /\ \A i \in 1..Len(asked) : Askable(asked[i])
  BY DEF ReadingInv
<1>2. IsSequence(<<>>) /\ Len(<<>>) = 0
  BY NoneIsSequence
<1>3. IsSequence(asked') /\ \A i \in 1..Len(asked') : Askable(asked'[i])
  <2>1. CASE asked' = asked
    BY <1>1, <2>1
  <2>2. CASE asked' = <<>>
    BY <1>2, <2>2
  <2> QED BY <2>1, <2>2
<1> QED BY <1>3 DEF ReadingInv, Askable, PageShown, Reach

\* What an answer shows, and what it spills, stays within reach.
LEMMA AnswerReached ==
  ASSUME ReadingInv, NEW content, IsSequence(content), NEW digest,
         Len(content) > SpillAt => store' = Append(store, content),
         ~(Len(content) > SpillAt) => store' = store /\ seen' = seen \union ToSet(content),
         Len(content) > SpillAt => seen' = seen \union digest
  PROVE  /\ IsSequence(store') /\ Len(store) <= Len(store') /\ Len(store) \in Nat /\ Len(store') \in Nat
         /\ \A h \in 1..Len(store) : store'[h] = store[h]
         /\ \A h \in 1..Len(store') : IsSequence(store'[h])
         /\ seen \subseteq seen'
         /\ \A x \in Reach : x \in Reach'
         /\ \A x \in ToSet(content) : x \in Reach'
         /\ ~(Len(content) > SpillAt) => \A x \in ToSet(content) : x \in seen'
<1>1. PICK had : had = store
  OBVIOUS
<1>4. PICK size \in Nat : /\ size = Len(had) /\ DOMAIN had = 1..size /\ IsSequence(had)
                          /\ \A h \in 1..size : IsSequence(had[h])
  <2>1. IsSequence(had) /\ \A h \in 1..Len(had) : IsSequence(had[h])
    BY <1>1 DEF ReadingInv
  <2>2. Len(had) \in Nat /\ DOMAIN had = 1..Len(had)
    BY <2>1, SequenceIs
  <2> QED BY <2>1, <2>2
<1>2. CASE Len(content) > SpillAt
  <2>1. /\ IsSequence(Append(had, content)) /\ Len(Append(had, content)) = Len(had) + 1
        /\ Append(had, content)[Len(had) + 1] = content
        /\ \A h \in 1..Len(had) : Append(had, content)[h] = had[h]
    BY <1>1, <1>4, AppendedIs
  <2>2. PICK stored : store' = stored /\ stored = Append(had, content)
    BY <1>1, <1>4, <1>2
  <2>3. /\ IsSequence(stored) /\ Len(stored) = size + 1 /\ DOMAIN stored = 1..(size + 1)
        /\ stored[size + 1] = content
        /\ \A h \in 1..size : stored[h] = had[h]
    BY <1>1, <1>4, <2>1, <2>2, SequenceIs
  <2>4. \A h \in 1..(size + 1) : h \in 1..size \/ h = size + 1
    BY <1>1, <1>4
  <2>5. \A h \in 1..(size + 1) : IsSequence(stored[h])
    BY <1>1, <1>4, <2>3, <2>4
  <2>6. seen \subseteq seen'
    BY <1>2
  <2>7. ASSUME NEW h \in 1..(size + 1), NEW x \in ToSet(stored[h])
        PROVE  x \in Reach'
    BY <2>2, <2>3, <2>7 DEF Reach
  <2>8. ASSUME NEW x \in Reach PROVE x \in Reach'
    <3>1. CASE x \in seen
      BY <2>6, <3>1 DEF Reach
    <3>2. CASE x \notin seen
      <4>1. PICK h \in 1..size : x \in ToSet(had[h])
        BY <1>1, <1>4, <3>2 DEF Reach
      <4>2. h \in 1..(size + 1) /\ stored[h] = had[h]
        BY <1>1, <1>4, <2>3, <4>1
      <4> QED BY <2>7, <4>1, <4>2
    <3> QED BY <3>1, <3>2
  <2>9. ASSUME NEW x \in ToSet(content) PROVE x \in Reach'
    <3>1. PICK h \in 1..(size + 1) : stored[h] = content
      BY <1>1, <1>4, <2>3
    <3> QED BY <2>7, <3>1
  <2>10. /\ size <= Len(stored) /\ Len(stored) \in Nat
         /\ \A h \in 1..Len(stored) : IsSequence(stored[h])
    BY <1>1, <1>4, <2>3, <2>5
  <2> QED BY <1>1, <1>4, <1>2, <2>2, <2>3, <2>6, <2>8, <2>9, <2>10
<1>3. CASE ~(Len(content) > SpillAt)
  <2>1. /\ store' = store /\ seen \subseteq seen'
        /\ \A x \in ToSet(content) : x \in seen'
    BY <1>3
  <2>2. ASSUME NEW x \in Reach PROVE x \in Reach'
    BY <2>1, <2>2 DEF Reach
  <2>3. \A x \in ToSet(content) : x \in Reach'
    BY <2>1 DEF Reach
  <2>4. size <= size
    BY <1>1, <1>4
  <2> QED BY <2>4, <1>1, <1>4, <1>3, <2>1, <2>2, <2>3
<1> QED BY <1>2, <1>3

\* The same for whatever is asked: a fetch moreover fits the conversation.
LEMMA ContentShows ==
  ASSUME ReadingInv, NEW c, Askable(c)
  PROVE  /\ IsSequence(Content(c))
         /\ c.tool = "fetch" /\ c.of \in 1..Len(store) =>
              Content(c) = Fetch(c.of, c.from) /\ c.from \in Nat
         /\ c.tool = "read" => c.of \in DOMAIN Files
         /\ c.tool = "read" /\ c.from \in 1..Len(Files[c.of]) =>
              \E shown \in (c.from)..Len(Files[c.of]) : ReadUpTo(c.of, c.from, shown, ToSet(Content(c)))
<1>1. DOMAIN store = 1..Len(store) /\ \A h \in 1..Len(store) : IsSequence(store[h])
  BY SequenceIs DEF ReadingInv
<1>2. CASE c.tool = "read" /\ Files[c.of] # <<>>
  <2>1. /\ c.of \in DOMAIN Files /\ c.from \in 1..(Len(Files[c.of]) + 1)
        /\ c.to \in {0, 1}
    BY <1>2 DEF Askable
  <2>2. Content(c) = ReadFile(c.of, c.from, c.to)
    BY <1>2 DEF Content
  <2>3. PICK f \in DOMAIN Files, to \in {0, 1} : f = c.of /\ to = c.to
    BY <2>1
  <2>8. PICK n : n = c.from
    OBVIOUS
  <2>4. n \in 1..(Len(Files[f]) + 1) /\ Files[f] # <<>> /\ Len(Files[f]) \in Nat
    <3>1. Files[f] \in Seq(Nat)
      BY ConversationAssumption DEF ConversationAssumption
    <3> QED BY <1>2, <2>1, <2>3, <2>8, <3>1
  <2>5. /\ IsSequence(ReadFile(f, n, to))
        /\ n <= Len(Files[f]) =>
             \E shown \in n..Len(Files[f]) : ReadUpTo(f, n, shown, ToSet(ReadFile(f, n, to)))
    BY <2>4, ReadShows
  <2>6. n \in 1..Len(Files[f]) => n <= Len(Files[f])
    BY <2>4
  <2> QED BY <1>2, <2>1, <2>2, <2>3, <2>5, <2>6, <2>8
<1>3. CASE c.tool = "read" /\ Files[c.of] = <<>>
  <2>1. Content(c) = <<<<"advice">>>>
    BY <1>3 DEF Content
  <2>2. c.of \in DOMAIN Files /\ Len(Files[c.of]) = 0
    BY <1>3, NoneIsSequence DEF Askable
  <2> QED BY <1>3, <2>1, <2>2, Unit
<1>4. CASE c.tool = "fetch" /\ c.of \in DOMAIN store
  <2>1. Content(c) = Fetch(c.of, c.from)
    BY <1>4 DEF Content
  <2>2. c.of \in 1..Len(store) /\ c.from \in Nat
    BY <1>1, <1>4 DEF Askable
  <2>3. PICK h \in 1..Len(store), k \in Nat : h = c.of /\ k = c.from
    BY <2>2
  <2>4. IsSequence(Fetch(h, k))
    BY <1>1, FetchShows
  <2> QED BY <1>4, <2>1, <2>2, <2>3, <2>4
<1>5. CASE c.tool = "fetch" /\ c.of \notin DOMAIN store
  <2>1. Content(c) = <<<<"advice">>>>
    BY <1>5 DEF Content
  <2> QED BY <1>1, <1>5, <2>1, Unit
<1> QED BY <1>2, <1>3, <1>4, <1>5 DEF Askable

LEMMA InvokeReads == ReadingInv /\ InvokeOne => ReadingInv'
<1> SUFFICES ASSUME ReadingInv, InvokeOne
             PROVE  ReadingInv'
  OBVIOUS
<1>1. /\ IsSequence(asked) /\ asked # <<>>
      /\ \A i \in 1..Len(asked) : Askable(asked[i])
  BY DEF ReadingInv, InvokeOne
<1>2. PICK c, rest : c = Head(asked) /\ rest = Tail(asked)
  OBVIOUS
<1>3. /\ Askable(c) /\ IsSequence(rest)
      /\ \A i \in 1..Len(rest) : Askable(rest[i])
  <2>1. PICK s : s = asked
    OBVIOUS
  <2>2. PICK S : S = Range(s) /\ s \in Seq(S) /\ s # <<>> /\ \A i \in 1..Len(s) : Askable(s[i])
    BY <1>1, <2>1 DEF IsSequence
  <2>3. /\ Head(s) = s[1] /\ Tail(s) \in Seq(S) /\ Len(Tail(s)) = Len(s) - 1
        /\ \A i \in 1..Len(Tail(s)) : Tail(s)[i] = s[i + 1]
        /\ Len(s) \in Nat /\ Len(s) > 0
    BY <2>2, HeadTailProperties, EmptySeq
  <2>4. IsSequence(rest)
    BY <1>2, <2>1, <2>3, SequenceIs
  <2>5. \A i \in 1..Len(rest) : i + 1 \in 1..Len(s) /\ rest[i] = s[i + 1]
    BY <1>2, <2>1, <2>3
  <2>6. Askable(s[1])
    BY <2>2, <2>3
  <2> QED BY <1>2, <2>1, <2>2, <2>3, <2>4, <2>5, <2>6
<1>4. PICK content : content = Content(c) /\ IsSequence(content)
  BY <1>3, ContentShows
<1>5. PICK digest : digest = ToSet(Digest(content, Len(store) + 1))
  OBVIOUS
<1>6. /\ Len(content) > SpillAt => store' = Append(store, content)
      /\ ~(Len(content) > SpillAt) => store' = store /\ seen' = seen \union ToSet(content)
      /\ Len(content) > SpillAt => seen' = seen \union digest
  BY <1>2, <1>4, <1>5 DEF InvokeOne
<1>7. /\ IsSequence(store') /\ Len(store) <= Len(store') /\ Len(store) \in Nat /\ Len(store') \in Nat
      /\ \A h \in 1..Len(store) : store'[h] = store[h]
      /\ \A h \in 1..Len(store') : IsSequence(store'[h])
      /\ seen \subseteq seen'
      /\ \A x \in Reach : x \in Reach'
      /\ \A x \in ToSet(content) : x \in Reach'
      /\ ~(Len(content) > SpillAt) => \A x \in ToSet(content) : x \in seen'
  BY <1>4, <1>6, AnswerReached
<1>8. tried' = tried \union {<<c.tool, c.of, c.from>>} /\ asked' = rest
  BY <1>2 DEF InvokeOne
<1>9. (\A i \in 1..Len(asked) : Askable(asked[i]))'
  <2> SUFFICES ASSUME NEW i \in 1..Len(asked')
               PROVE  Askable(asked[i])'
    OBVIOUS
  <2>1. Askable(rest[i]) /\ asked'[i] = rest[i]
    BY <1>3, <1>8
  <2> QED BY <1>7, <2>1 DEF Askable
<1>10. \A call \in tried' : call[1] = "fetch" => call[2] \in 0..Len(store')
  <2>1. \A call \in tried : call[1] = "fetch" => call[2] \in 0..Len(store)
    BY DEF ReadingInv
  <2>2. c.tool = "fetch" => c.of \in 0..Len(store)
    BY <1>3 DEF Askable
  <2> QED BY <1>7, <1>8, <2>1, <2>2
<1>11. ASSUME NEW h \in 1..Len(store'), NEW k \in 0..Len(store'[h]), <<"fetch", h, k>> \in tried'
       PROVE  PageShown(h, k)'
  <2>1. h \in 1..Len(store) /\ store'[h] = store[h] /\ IsSequence(store[h]) /\ k \in Nat /\ k <= Len(store[h])
    <3>1. h \in 0..Len(store')
      BY <1>7
    <3>2. h \in 0..Len(store)
      <4>1. \A call \in tried : call[1] = "fetch" => call[2] \in 0..Len(store)
        BY DEF ReadingInv
      <4>2. CASE <<"fetch", h, k>> \in tried
        <5>1. PICK call \in tried : call = <<"fetch", h, k>>
          BY <4>2
        <5>2. call[1] = "fetch" /\ call[2] = h
          BY <5>1
        <5> QED BY <4>1, <5>2
      <4>3. CASE <<"fetch", h, k>> = <<c.tool, c.of, c.from>>
        BY <1>3, <4>3 DEF Askable
      <4> QED BY <1>8, <1>11, <4>2, <4>3
    <3>3. h \in 1..Len(store)
      BY <1>7, <3>2
    <3>4. store'[h] = store[h]
      BY <1>7, <3>3
    <3>5. IsSequence(store[h])
      BY <3>3 DEF ReadingInv
    <3>6. Len(store[h]) \in Nat
      BY <3>5, SequenceIs
    <3> QED BY <3>3, <3>4, <3>5, <3>6
  <2>2. CASE <<"fetch", h, k>> \in tried
    <3>1. PageShown(h, k)
      <4>1. k \in 0..Len(store[h])
        BY <2>1
      <4> QED BY <2>1, <2>2, <4>1 DEF ReadingInv
    <3> QED BY <1>7, <2>1, <3>1 DEF PageShown
  <2>3. CASE <<"fetch", h, k>> = <<c.tool, c.of, c.from>>
    <3>1. c.tool = "fetch" /\ c.of = h /\ c.from = k
      BY <2>3
    <3>2. content = Fetch(h, k)
      BY <1>3, <1>4, <2>1, <3>1, ContentShows
    <3>3. /\ ~(Len(content) > SpillAt)
          /\ \A i \in (k + 1)..Len(store[h]) : i <= k + Page => store[h][i] \in ToSet(content)
          /\ k + Page < Len(store[h]) => <<"rest", h, k + Page>> \in ToSet(content)
      BY <2>1, <3>2, FetchShows
    <3> QED BY <1>7, <2>1, <3>3 DEF PageShown
  <2> QED BY <1>8, <1>11, <2>2, <2>3
<1>12. ASSUME NEW f \in DOMAIN Files, NEW n \in 1..Len(Files[f]), <<"read", f, n>> \in tried'
       PROVE  \E shown \in n..Len(Files[f]) : ReadUpTo(f, n, shown, Reach')
  <2>1. PICK had : (\E shown \in n..Len(Files[f]) : ReadUpTo(f, n, shown, had)) /\ \A x \in had : x \in Reach'
    <3>1. CASE <<"read", f, n>> \in tried
      <4>1. \E shown \in n..Len(Files[f]) : ReadUpTo(f, n, shown, Reach)
        BY <3>1 DEF ReadingInv
      <4> QED BY <1>7, <4>1
    <3>2. CASE <<"read", f, n>> = <<c.tool, c.of, c.from>>
      <4>1. c.tool = "read" /\ c.of = f /\ c.from = n
        BY <3>2
      <4>2. \E shown \in n..Len(Files[f]) : ReadUpTo(f, n, shown, ToSet(content))
        BY <1>3, <1>4, <4>1, ContentShows
      <4> QED BY <1>7, <4>2
    <3> QED BY <1>8, <1>12, <3>1, <3>2
  <2>2. PICK shown \in n..Len(Files[f]) : ReadUpTo(f, n, shown, had)
    BY <2>1
  <2>3. PICK reached : reached = Reach'
    OBVIOUS
  <2>4. ReadUpTo(f, n, shown, reached)
    BY <2>1, <2>2, <2>3 DEF ReadUpTo, LineIn
  <2> QED BY <2>3, <2>4
<1>13. (IsSequence(store) /\ (\A h \in 1..Len(store) : IsSequence(store[h])))'
  BY <1>7
<1>14. IsSequence(asked)'
  BY <1>3, <1>8
<1>15. (\A call \in tried : call[1] = "fetch" => call[2] \in 0..Len(store))'
  BY <1>10
<1>16. (\A h \in 1..Len(store) : \A k \in 0..Len(store[h]) :
          <<"fetch", h, k>> \in tried => PageShown(h, k))'
  BY <1>11
<1>17. (\A f \in DOMAIN Files : \A n \in 1..Len(Files[f]) :
          <<"read", f, n>> \in tried =>
            \E shown \in n..Len(Files[f]) : ReadUpTo(f, n, shown, Reach))'
  BY <1>12
<1> QED BY <1>9, <1>13, <1>14, <1>15, <1>16, <1>17 DEF ReadingInv

\* A read or a fetch is kept with what it has shown, or put where it can be
\* fetched, whatever else is asked.
LEMMA ReadingHolds == ConversationSpec => []ReadingInv
<1>1. ConversationInit => ReadingInv
  BY ReadingInit
<1>2. ReadingInv /\ [ConversationNext]_conversationVars => ReadingInv'
  <2> SUFFICES ASSUME ReadingInv, [ConversationNext]_conversationVars
               PROVE  ReadingInv'
    OBVIOUS
  <2>1. CASE Complete
    BY <2>1, CompleteReads
  <2>2. CASE InvokeOne
    BY <2>2, InvokeReads
  <2>3. CASE Reply \/ StopBetweenCalls
    BY <2>3, OthersRead DEF Reply, StopBetweenCalls, AppendResults
  <2>4. CASE Finish
    BY <2>4, OthersRead DEF Finish
  <2>5. CASE UNCHANGED conversationVars
    BY <2>5, OthersRead DEF conversationVars
  <2> QED BY <2>1, <2>2, <2>3, <2>4, <2>5 DEF ConversationNext
<1> QED BY <1>1, <1>2, PTL DEF ConversationSpec

\* Whoever follows every note has read the whole file and fetched the whole
\* payload, whatever the sizes of files, lines and pages: the cap on lines
\* (tools.go:153), the digest (loop.go:226) and the page (fetch.go:87) lose
\* nothing between them.
THEOREM ReadsAreComplete == ConversationSpec => []ReadsComplete
<1>1. ConversationSpec => []ReadingInv
  BY ReadingHolds
<1>2. ReadingInv => ReadsComplete
  BY ReadingSuffices
<1> QED BY <1>1, <1>2, PTL
==============================================================================
