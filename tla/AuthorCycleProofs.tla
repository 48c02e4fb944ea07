-------------------------- MODULE AuthorCycleProofs --------------------------
(***************************************************************************)
(* Safety of the author phase, for every register, every pool of workers,  *)
(* every cap on the rounds and every report of the critic.  Inv is the     *)
(* inductive invariant; each property is read off it at the end.           *)
(***************************************************************************)
EXTENDS AuthorCycle, FiniteSetTheorems, TLAPS

\* The phase goes round in order: only a writing cycle has risks in hand, it
\* returns once, and each revision costs a round.
Shape ==
  /\ at # "writing" => todo = {} /\ \A w \in Workers : ~Busy(w)
  /\ result # "none" => at = "done"
  /\ at = "writing" => round < MaxRounds /\ Len(counts) <= round
  /\ at \in {"reviewing", "deciding"} => Len(counts) < round
  /\ Len(counts) < MaxRounds

\* What the next count is compared with is the last of a decreasing series.
Decreasing ==
  /\ \A i, j \in DOMAIN counts : i < j => counts[j] < counts[i]
  /\ at # "done" =>
       previous = IF counts = <<>> THEN -1 ELSE counts[Len(counts)]

\* While a revision is written, its risks are those the findings name.
Traced ==
  at = "writing" /\ round > 0 =>
    /\ todo \subseteq Flagged
    /\ \A w \in Workers : Busy(w) => worker[w] \in Flagged

Inv ==
  /\ TypeOK
  /\ Shape
  /\ Decreasing
  /\ Traced
  /\ UniqueIds
  /\ RiskAccounted
  /\ OpenFindingsNoted

-----------------------------------------------------------------------------
(* Operators. *)

\* The number of blocking findings is a number.
LEMMA BlockingIsNat ==
  ASSUME findings \in Seq(Finding)
  PROVE  Blocking \in Nat
<1> DEFINE D == {i \in DOMAIN findings : findings[i].blocking}
<1>1. Len(findings) \in Nat /\ DOMAIN findings = 1..Len(findings)
  OBVIOUS
<1>2. IsFiniteSet(1..Len(findings))
  BY <1>1, FS_Interval
<1>3. IsFiniteSet(D)
  BY <1>1, <1>2, FS_Subset
<1>4. Cardinality(D) \in Nat
  BY <1>3, FS_CardinalityType
<1> QED
  BY <1>4 DEF Blocking

\* A gap is a pair.
LEMMA PairAdded ==
  ASSUME NEW S, NEW T, NEW G \in SUBSET (S \X T), NEW x \in S, NEW y \in T
  PROVE  G \cup {<<x, y>>} \subseteq S \X T
<1>1. <<x, y>> \in S \X T
  OBVIOUS
<1> QED
  BY <1>1, Zenon

\* Adding scenarios keeps identifiers unique if the new ones are.
LEMMA AddedKeepsIds ==
  ASSUME UniqueIds, NEW new, \A s, t \in new : SameId(s, t) => s = t
  PROVE  \A s, t \in Added(new) : SameId(s, t) => s = t
BY DEF UniqueIds, Added, SameId

\* Adding scenarios keeps each risk that has one covered.
LEMMA AddedKeepsSlugs ==
  ASSUME NEW new, NEW s \in catalogue
  PROVE  \E t \in Added(new) : t.slug = s.slug
BY DEF Added, SameId

\* What an emit adds is distinct scenarios of the worker's risk.
LEMMA EmittedScenarios ==
  ASSUME TypeOK, NEW w \in Workers, NEW k \in Nat, Emit(w, k)
  PROVE  \E new :
           /\ catalogue' = Added(new)
           /\ new \subseteq [slug : Slugs, number : Nat \ {0}, owner : Risks,
                             draft : {"first", "revised"}]
           /\ \A s \in new : s.slug = SlugOf[worker[w]]
           /\ \A s, t \in new : SameId(s, t) => s = t
<1> DEFINE new == {Scenario(worker[w], numbered[w] + i) : i \in 1..k}
<1> USE CycleAssumption DEF TypeOK, PoolTypes, Emit, Busy, Scenario
<1>1. catalogue' = Added(new)
  OBVIOUS
<1>2. /\ \A i \in 1..k : numbered[w] + i \in Nat \ {0}
      /\ worker[w] \in Risks /\ SlugOf[worker[w]] \in Slugs
  OBVIOUS
<1>3. new \subseteq [slug : Slugs, number : Nat \ {0}, owner : Risks,
                     draft : {"first", "revised"}]
  BY <1>2
<1>4. \A s \in new : s.slug = SlugOf[worker[w]]
  OBVIOUS
<1>5. \A s, t \in new : SameId(s, t) => s = t
  BY DEF SameId
<1> QED
  BY <1>1, <1>3, <1>4, <1>5

-----------------------------------------------------------------------------
(* Who changes what. *)

\* Only scenario_emit changes the catalogue.
LEMMA CatalogueStep ==
  ASSUME Next
  PROVE  \/ catalogue' = catalogue
         \/ \E w \in Workers, k \in Nat : Emit(w, k)
<1>1. ASSUME NEW w \in Workers, NEW k \in 1..MaxBatch, Emit(w, k)
      PROVE  \E v \in Workers, n \in Nat : Emit(v, n)
  BY <1>1, CycleAssumption
<1> QED
  BY <1>1 DEF Next, Work, TakeRisk, DispatchStops, EmitRefused, FinishRisk,
       WriteCutShort, WriteCompletes, NothingWritten, StartReview, CriticEmits,
       CriticCutShort, CriticCompletes, Approve, GiveUp, Revise, ReviseNothing,
       ContextEnds, Terminated, boardVars, vars

\* No gap is ever taken back.
LEMMA GapsGrow ==
  ASSUME Next
  PROVE  gaps \subseteq gaps'
BY DEF Next, Work, TakeRisk, DispatchStops, Emit, EmitRefused, NoteGap,
     WriteCutShort, WriteCompletes, NothingWritten, StartReview, CriticEmits,
     CriticCutShort, CriticCompletes, Approve, GiveUp, Revise, ReviseNothing,
     ContextEnds, Terminated, boardVars, vars

-----------------------------------------------------------------------------
(* The initial states. *)

LEMMA InitInv == Init => Inv
<1> SUFFICES ASSUME Init PROVE Inv
  OBVIOUS
<1>1. PICK k \in 0..RiskCount :
        IF k > 0
          THEN targets = 1..k /\ gaps = {}
          ELSE /\ targets = 1..Lesser(3, RiskCount)
               /\ gaps = {<<Nobody, "no priority">>}
  BY DEF Init
<1>2. /\ at = "writing" /\ result = "none"
      /\ todo = targets
      /\ worker = [w \in Workers |-> Idle]
      /\ numbered = [w \in Workers |-> 0]
      /\ round = 0 /\ previous = -1
      /\ catalogue = {} /\ written = {}
  BY DEF Init
<1>3. ctxDone = FALSE
  BY DEF Init
<1>4. findings = <<>> /\ counts = <<>>
  BY DEF Init
<1>5. targets \subseteq Risks
  <2>1. RiskCount \in Nat
    BY CycleAssumption
  <2>2. Lesser(3, RiskCount) \in Nat /\ Lesser(3, RiskCount) <= RiskCount
    BY ONLY <2>1 DEF Lesser
  <2>3. PICK n \in Nat : n <= RiskCount /\ targets = 1..n
    <3>1. CASE k > 0
      BY <1>1, <3>1, <2>1
    <3>2. CASE ~(k > 0)
      BY <1>1, <3>2, <2>2
    <3> QED
      BY <3>1, <3>2
  <2>4. 1..n \subseteq 1..RiskCount
    BY ONLY <2>1, <2>3
  <2> QED
    BY <2>3, <2>4 DEF Risks
<1>6. PoolTypes
  BY <1>2, <1>5 DEF PoolTypes
<1>7. CycleTypes
  <2>1. ctxDone \in BOOLEAN
    BY <1>3
  <2>2. counts \in Seq(Nat)
    BY <1>4
  <2>3. round \in 0..MaxRounds /\ previous \in Nat \cup {-1}
    BY <1>2, CycleAssumption
  <2> QED
    BY <1>2, <1>5, <2>1, <2>2, <2>3 DEF CycleTypes
<1>8. BoardTypes
  <2>1. findings \in Seq(Finding)
    BY <1>4
  <2>2. gaps \subseteq (Slugs \cup {Nobody}) \X Reasons
    <3>1. gaps = {} \/ gaps = {<<Nobody, "no priority">>}
      BY <1>1
    <3>2. "no priority" \in Reasons
      BY DEF Reasons
    <3>3. <<Nobody, "no priority">> \in (Slugs \cup {Nobody}) \X Reasons
      BY <3>2
    <3> QED
      BY <3>1, <3>3, Zenon
  <2> QED
    BY <1>2, <2>1, <2>2 DEF BoardTypes
<1>9. Shape
  <2>1. MaxRounds \in Nat \ {0} /\ Idle \notin Risks
    BY CycleAssumption
  <2>2. Len(counts) = 0
    BY <1>4
  <2> QED
    BY <1>2, <2>1, <2>2 DEF Shape, Busy
<1>10. Decreasing
  BY <1>2, <1>4 DEF Decreasing
<1>11. Traced /\ UniqueIds /\ RiskAccounted /\ OpenFindingsNoted
  BY <1>2 DEF Traced, UniqueIds, RiskAccounted, OpenFindingsNoted
<1> QED
  BY <1>6, <1>7, <1>8, <1>9, <1>10, <1>11 DEF Inv, TypeOK

-----------------------------------------------------------------------------
(* Types. *)

LEMMA PoolTypesStep ==
  ASSUME TypeOK, Next
  PROVE  PoolTypes'
<1> USE CycleAssumption DEF TypeOK, PoolTypes
<1>1. ASSUME NEW w \in Workers, TakeRisk(w) PROVE PoolTypes'
  BY <1>1 DEF TakeRisk
<1>2. CASE DispatchStops
  BY <1>2 DEF DispatchStops
<1>3. ASSUME NEW w \in Workers, NEW k \in 1..MaxBatch, Emit(w, k)
      PROVE  PoolTypes'
  BY <1>3 DEF Emit
<1>4. ASSUME NEW w \in Workers, NEW k \in 1..MaxBatch, EmitRefused(w, k)
      PROVE  PoolTypes'
  BY <1>4 DEF EmitRefused
<1>5. ASSUME NEW w \in Workers, FinishRisk(w) PROVE PoolTypes'
  BY <1>5 DEF FinishRisk, Busy
<1>6. CASE Revise
  <2>1. Flagged \subseteq Risks
    BY DEF Flagged
  <2> QED
    BY <1>6, <2>1 DEF Revise
<1>7. CASE UNCHANGED poolVars
  BY <1>7 DEF poolVars
<1> QED
  BY <1>1, <1>2, <1>3, <1>4, <1>5, <1>6, <1>7
  DEF Next, Work, WriteCutShort, WriteCompletes, NothingWritten, StartReview,
      CriticEmits, CriticCutShort, CriticCompletes, Approve, GiveUp,
      ReviseNothing, ContextEnds, Terminated, vars

LEMMA BoardTypesStep ==
  ASSUME TypeOK, Next
  PROVE  BoardTypes'
<1> USE CycleAssumption DEF TypeOK, BoardTypes
<1>1. catalogue' \subseteq [slug : Slugs, number : Nat \ {0}, owner : Risks,
                            draft : {"first", "revised"}]
  <2>1. CASE catalogue' = catalogue
    BY <2>1
  <2>2. ASSUME NEW w \in Workers, NEW k \in Nat, Emit(w, k)
        PROVE  catalogue' \subseteq
                 [slug : Slugs, number : Nat \ {0}, owner : Risks,
                  draft : {"first", "revised"}]
    BY <2>2, EmittedScenarios DEF Added
  <2> QED
    BY <2>1, <2>2, CatalogueStep
<1>2. findings' \in Seq(Finding)
  BY DEF Next, Work, TakeRisk, DispatchStops, Emit, EmitRefused, FinishRisk,
     WriteCutShort, WriteCompletes, NothingWritten, StartReview, CriticEmits,
     CriticCutShort, CriticCompletes, Approve, GiveUp, Revise, ReviseNothing,
     ContextEnds, Terminated, boardVars, vars
<1>3. gaps' \subseteq (Slugs \cup {Nobody}) \X Reasons
  <2> DEFINE T == (Slugs \cup {Nobody}) \X Reasons
  <2>1. ASSUME NEW x \in Slugs \cup {Nobody}, NEW why \in Reasons,
               gaps' = gaps \cup {<<x, why>>}
        PROVE  gaps' \subseteq T
    BY <2>1, PairAdded
  <2>2. CASE DispatchStops
    <3>1. PICK r \in Risks : gaps' = gaps \cup {<<SlugOf[r], "cancelled">>}
      BY <2>2 DEF DispatchStops, PoolTypes, IsFirst
    <3> QED
      BY <2>1, <3>1 DEF Reasons
  <2>3. ASSUME NEW w \in Workers, NEW why \in {"cut short", "no scenario"},
               Busy(w), NoteGap(w, why)
        PROVE  gaps' \subseteq T
    <3>1. SlugOf[worker[w]] \in Slugs /\ why \in Reasons
      BY <2>3 DEF Busy, Reasons
    <3> QED
      BY <2>1, <2>3, <3>1 DEF NoteGap
  <2>4. CASE UNCHANGED gaps
    BY <2>4
  <2> QED
    BY <2>1, <2>2, <2>3, <2>4
    DEF Reasons, Next, Work, TakeRisk, Emit, EmitRefused, FinishRisk, WriteCutShort,
        WriteCompletes, NothingWritten, StartReview, CriticEmits,
        CriticCutShort, CriticCompletes, Approve, GiveUp, Revise,
        ReviseNothing, ContextEnds, Terminated, boardVars, vars
<1> QED
  BY <1>1, <1>2, <1>3

LEMMA CycleTypesStep ==
  ASSUME TypeOK, Shape, Next
  PROVE  CycleTypes'
<1> USE CycleAssumption DEF TypeOK, CycleTypes
<1>1. ctxDone' \in BOOLEAN
  BY DEF Next, Work, TakeRisk, DispatchStops, Emit, EmitRefused, FinishRisk,
     WriteCutShort, WriteCompletes, NothingWritten, StartReview, CriticEmits,
     CriticCutShort, CriticCompletes, Approve, GiveUp, Revise, ReviseNothing,
     ContextEnds, Terminated, vars
<1>2. Blocking \in Nat
  BY BlockingIsNat DEF BoardTypes
<1> DEFINE Types ==
      /\ at' \in {"writing", "reviewing", "deciding", "done"}
      /\ round' \in 0..MaxRounds
      /\ previous' \in Nat \cup {-1}
      /\ result' \in {"none", "ok", "error"}
      /\ targets' \subseteq Risks
      /\ counts' \in Seq(Nat)
<1> SUFFICES Types
  BY <1>1 DEF CycleTypes
<1>3. CASE UNCHANGED cycleVars
  BY <1>3 DEF cycleVars
<1>4. CASE NothingWritten
  BY <1>4 DEF NothingWritten, Return
<1>5. CASE StartReview
  BY <1>5 DEF StartReview, PassDone, Shape
<1>6. CASE CriticCutShort \/ CriticCompletes
  BY <1>6 DEF CriticCutShort, CriticCompletes
<1>7. CASE Approve
  BY <1>7 DEF Approve, Return
<1>8. CASE GiveUp
  BY <1>2, <1>8 DEF GiveUp, Return
<1>9. CASE Revise
  BY <1>2, <1>9 DEF Revise, MayRevise, Flagged
<1>10. CASE ReviseNothing
  BY <1>2, <1>10 DEF ReviseNothing, MayRevise
<1> QED
  BY <1>3, <1>4, <1>5, <1>6, <1>7, <1>8, <1>9, <1>10
  DEF Next, Work, TakeRisk, DispatchStops, Emit, EmitRefused, FinishRisk,
      WriteCutShort, WriteCompletes, CriticEmits, ContextEnds, Terminated, vars,
      cycleVars

-----------------------------------------------------------------------------
(* The rounds. *)

\* Most steps leave the cycle alone and take no new risk in hand but from todo.
LEMMA ShapeStep ==
  ASSUME TypeOK, Shape, Next
  PROVE  Shape'
<1> USE CycleAssumption DEF TypeOK, PoolTypes, CycleTypes, Shape, Busy
<1>1. ASSUME NEW w \in Workers, TakeRisk(w) PROVE Shape'
  BY <1>1 DEF TakeRisk, cycleVars
<1>2. CASE DispatchStops
  BY <1>2 DEF DispatchStops, cycleVars
<1>3. ASSUME NEW w \in Workers, NEW k \in 1..MaxBatch,
             Emit(w, k) \/ EmitRefused(w, k)
      PROVE  Shape'
  BY <1>3 DEF Emit, EmitRefused, cycleVars
<1>4. ASSUME NEW w \in Workers, FinishRisk(w) PROVE Shape'
  BY <1>4 DEF FinishRisk, cycleVars
<1>5. CASE NothingWritten
  BY <1>5 DEF NothingWritten, Return, PassDone, poolVars
<1>6. CASE StartReview
  BY <1>6 DEF StartReview, PassDone, poolVars
<1>7. CASE CriticCutShort \/ CriticCompletes
  BY <1>7 DEF CriticCutShort, CriticCompletes, poolVars
<1>8. CASE Approve \/ GiveUp
  BY <1>8 DEF Approve, GiveUp, Return, poolVars
<1>9. CASE Revise \/ ReviseNothing
  <2>1. Blocking \in Nat
    BY BlockingIsNat DEF BoardTypes
  <2>2. Len(counts') = Len(counts) + 1
    BY <1>9, <2>1 DEF Revise, ReviseNothing, MayRevise
  <2>3. CASE Revise
    BY <2>2, <2>3 DEF Revise, MayRevise
  <2>4. CASE ReviseNothing
    BY <2>2, <2>4 DEF ReviseNothing, MayRevise, poolVars
  <2> QED
    BY <1>9, <2>3, <2>4
<1>10. CASE UNCHANGED <<poolVars, cycleVars>>
  BY <1>10 DEF poolVars, cycleVars
<1> QED
  BY <1>1, <1>2, <1>3, <1>4, <1>5, <1>6, <1>7, <1>8, <1>9, <1>10
  DEF Next, Work, WriteCutShort, WriteCompletes, CriticEmits, ContextEnds,
      Terminated, vars

LEMMA DecreasingStep ==
  ASSUME TypeOK, Shape, Decreasing, Next
  PROVE  Decreasing'
<1>1. Blocking \in Nat
  BY BlockingIsNat DEF TypeOK, BoardTypes
<1>2. CASE MayRevise
  <2>1. counts \in Seq(Nat) /\ at = "deciding"
    BY <1>2 DEF TypeOK, CycleTypes, MayRevise
  <2>2. previous' = Blocking /\ counts' = Append(counts, Blocking)
    BY <1>2 DEF MayRevise
  <2>3. counts # <<>> => Blocking < counts[Len(counts)]
    <3>1. counts # <<>> => previous = counts[Len(counts)] /\ previous \in Nat
      BY <2>1 DEF Decreasing
    <3> QED
      BY <1>1, <1>2, <3>1 DEF MayRevise, NotConverging
  <2>4. \A i \in DOMAIN counts : Blocking < counts[i]
    BY <1>1, <2>1, <2>3 DEF Decreasing
  <2>5. /\ Len(counts') = Len(counts) + 1
        /\ counts'[Len(counts')] = Blocking
        /\ \A i \in DOMAIN counts : counts'[i] = counts[i]
        /\ \A i \in DOMAIN counts' : i \in DOMAIN counts \/ i = Len(counts')
        /\ counts' # <<>>
    BY <1>1, <2>1, <2>2
  <2>6. \A i, j \in DOMAIN counts' : i < j => counts'[j] < counts'[i]
    BY <2>1, <2>4, <2>5 DEF Decreasing
  <2> QED
    BY <2>2, <2>5, <2>6 DEF Decreasing
<1>3. CASE UNCHANGED counts /\ (at' = "done" \/ UNCHANGED previous)
  <2>1. at' # "done" => at # "done"
    BY DEF Next, Work, TakeRisk, DispatchStops, Emit, EmitRefused, FinishRisk,
       WriteCutShort, WriteCompletes, PassDone, NothingWritten, StartReview,
       CriticEmits, CriticCutShort, CriticCompletes, Approve, GiveUp, Return,
       Revise, MayRevise, ReviseNothing, ContextEnds, Terminated, vars, cycleVars
  <2> QED
    BY <1>3, <2>1 DEF Decreasing
<1> QED
  BY <1>2, <1>3
  DEF Next, Work, TakeRisk, DispatchStops, Emit, EmitRefused, FinishRisk,
      WriteCutShort, WriteCompletes, NothingWritten, StartReview, CriticEmits,
      CriticCutShort, CriticCompletes, Approve, GiveUp, Return, Revise,
      ReviseNothing, ContextEnds, Terminated, vars, cycleVars

LEMMA TracedStep ==
  ASSUME TypeOK, Shape, Traced, Next
  PROVE  Traced'
<1> USE CycleAssumption DEF TypeOK, PoolTypes, Traced, Busy, Flagged
<1>1. ASSUME NEW w \in Workers, TakeRisk(w) PROVE Traced'
  BY <1>1 DEF TakeRisk, cycleVars, boardVars, IsFirst
<1>2. CASE DispatchStops
  BY <1>2 DEF DispatchStops, cycleVars
<1>3. ASSUME NEW w \in Workers, NEW k \in 1..MaxBatch,
             Emit(w, k) \/ EmitRefused(w, k)
      PROVE  Traced'
  BY <1>3 DEF Emit, EmitRefused, cycleVars, boardVars
<1>4. ASSUME NEW w \in Workers, FinishRisk(w) PROVE Traced'
  BY <1>4 DEF FinishRisk, cycleVars
<1>5. CASE Revise
  BY <1>5 DEF Revise, MayRevise, Shape, boardVars
<1>6. CASE at' # "writing"
  BY <1>6
<1>7. CASE UNCHANGED <<poolVars, cycleVars, findings>>
  BY <1>7 DEF poolVars, cycleVars
<1> QED
  BY <1>1, <1>2, <1>3, <1>4, <1>5, <1>6, <1>7
  DEF Next, Work, WriteCutShort, WriteCompletes, NothingWritten, StartReview,
      CriticEmits, CriticCutShort, CriticCompletes, Approve, GiveUp, Return,
      ReviseNothing, ContextEnds, Terminated, vars, boardVars, cycleVars

-----------------------------------------------------------------------------
(* The blackboard. *)

LEMMA UniqueIdsStep ==
  ASSUME TypeOK, UniqueIds, Next
  PROVE  UniqueIds'
<1>1. CASE catalogue' = catalogue
  BY <1>1 DEF UniqueIds, SameId
<1>2. ASSUME NEW w \in Workers, NEW k \in Nat, Emit(w, k)
      PROVE  UniqueIds'
  <2>1. PICK new : /\ catalogue' = Added(new)
                   /\ \A s, t \in new : SameId(s, t) => s = t
    BY <1>2, EmittedScenarios
  <2> QED
    BY <2>1, AddedKeepsIds DEF UniqueIds, SameId
<1> QED
  BY <1>1, <1>2, CatalogueStep

LEMMA RiskAccountedStep ==
  ASSUME TypeOK, RiskAccounted, Next
  PROVE  RiskAccounted'
<1> DEFINE Known(x) == \E s \in catalogue : s.slug = x
<1>1. \A s \in catalogue : \E t \in catalogue' : t.slug = s.slug
  <2>1. CASE catalogue' = catalogue
    BY <2>1
  <2>2. ASSUME NEW w \in Workers, NEW k \in Nat, Emit(w, k)
        PROVE  \A s \in catalogue : \E t \in catalogue' : t.slug = s.slug
    BY <2>2, EmittedScenarios, AddedKeepsSlugs
  <2> QED
    BY <2>1, <2>2, CatalogueStep
<1>2. gaps \subseteq gaps'
  BY GapsGrow
<1>3. \A r \in written :
        (\E s \in catalogue' : s.slug = SlugOf[r])
          \/ \E why \in Reasons : <<SlugOf[r], why>> \in gaps'
  BY <1>1, <1>2 DEF RiskAccounted, HasGap
<1>4. ASSUME NEW w \in Workers, FinishRisk(w),
             HasScenario(w) \/ NoteGap(w, "cut short")
                            \/ NoteGap(w, "no scenario")
      PROVE  (\E s \in catalogue' : s.slug = SlugOf[worker[w]])
               \/ \E why \in Reasons : <<SlugOf[worker[w]], why>> \in gaps'
  BY <1>4 DEF FinishRisk, HasScenario, NoteGap, Reasons
<1>5. \/ written' \subseteq written
      \/ \E w \in Workers :
           /\ FinishRisk(w)
           /\ \/ HasScenario(w)
              \/ NoteGap(w, "cut short")
              \/ NoteGap(w, "no scenario")
  BY DEF Next, Work, TakeRisk, DispatchStops, Emit, EmitRefused, WriteCutShort,
     WriteCompletes, NothingWritten, StartReview, CriticEmits, CriticCutShort,
     CriticCompletes, Approve, GiveUp, Revise, ReviseNothing, ContextEnds,
     Terminated, vars, poolVars
<1>6. CASE written' \subseteq written
  BY <1>3, <1>6 DEF RiskAccounted, HasGap
<1>7. ASSUME NEW w \in Workers, FinishRisk(w),
             HasScenario(w) \/ NoteGap(w, "cut short")
                            \/ NoteGap(w, "no scenario")
      PROVE  RiskAccounted'
  <2>1. written' = written \cup {worker[w]}
    BY <1>7 DEF FinishRisk
  <2> QED
    BY <1>3, <1>4, <1>7, <2>1 DEF RiskAccounted, HasGap
<1> QED
  BY <1>5, <1>6, <1>7

LEMMA OpenFindingsNotedStep ==
  ASSUME TypeOK, Shape, OpenFindingsNoted, Next
  PROVE  OpenFindingsNoted'
<1> USE DEF OpenFindingsNoted
<1>1. gaps \subseteq gaps'
  BY GapsGrow
<1>2. CASE Approve
  <2>1. findings' = findings /\ Blocking = 0
    BY ONLY <1>2 DEF Approve, boardVars
  <2>2. Blocking' = Blocking
    BY ONLY <2>1 DEF Blocking
  <2>3. Blocking' = 0
    BY ONLY <2>1, <2>2
  <2>4. ~(Blocking' > 0)
    BY ONLY <2>3
  <2> QED
    BY <2>4
<1>3. CASE GiveUp
  <2>1. \/ gaps' = gaps \cup {<<Nobody, "did not decrease">>}
        \/ gaps' = gaps \cup {<<Nobody, "rounds spent">>}
    BY ONLY <1>3 DEF GiveUp
  <2> QED
    BY ONLY <2>1 DEF OpenFindingsNoted
<1>4. CASE UNCHANGED <<result, findings>>
  <2>1. Blocking' = Blocking
    BY <1>4 DEF Blocking
  <2> QED
    BY <1>1, <1>4, <2>1
<1>5. CASE result' # "ok"
  BY <1>5
<1>6. ASSUME NEW reported \in Reports, CriticEmits(reported)
      PROVE  OpenFindingsNoted'
  BY <1>6 DEF CriticEmits, Shape, cycleVars
<1>7. \/ Approve \/ GiveUp \/ result' # "ok"
      \/ \E reported \in Reports : CriticEmits(reported)
      \/ UNCHANGED <<result, findings>>
  BY ONLY Next
  DEF Next, Work, TakeRisk, DispatchStops, Emit, EmitRefused, FinishRisk,
      WriteCutShort, WriteCompletes, NothingWritten, StartReview,
      CriticCutShort, CriticCompletes, Return, Revise, ReviseNothing,
      ContextEnds, Terminated, vars, cycleVars, boardVars
<1> QED
  BY <1>2, <1>3, <1>4, <1>5, <1>6, <1>7

-----------------------------------------------------------------------------
(* The theorems. *)

LEMMA StepInv == Inv /\ [Next]_vars => Inv'
<1> SUFFICES ASSUME Inv, [Next]_vars PROVE Inv'
  OBVIOUS
<1>1. CASE Next
  <2>1. TypeOK'
    BY <1>1, PoolTypesStep, CycleTypesStep, BoardTypesStep DEF Inv, TypeOK
  <2>2. Shape' /\ Decreasing' /\ Traced'
    BY <1>1, ShapeStep, DecreasingStep, TracedStep DEF Inv
  <2>3. UniqueIds' /\ RiskAccounted' /\ OpenFindingsNoted'
    BY <1>1, UniqueIdsStep, RiskAccountedStep, OpenFindingsNotedStep DEF Inv
  <2> QED
    BY <2>1, <2>2, <2>3 DEF Inv
<1>2. CASE UNCHANGED vars
  <2>1. /\ todo' = todo /\ worker' = worker /\ numbered' = numbered /\ written' = written
        /\ at' = at /\ round' = round /\ previous' = previous /\ result' = result
        /\ targets' = targets /\ counts' = counts
        /\ catalogue' = catalogue /\ findings' = findings /\ gaps' = gaps
        /\ ctxDone' = ctxDone
    BY <1>2 DEF vars, poolVars, cycleVars, boardVars
  <2>2. TypeOK'
    BY <2>1 DEF Inv, TypeOK, PoolTypes, CycleTypes, BoardTypes
  <2>3. Shape'
    BY <2>1 DEF Inv, Shape, Busy
  <2>4. Decreasing'
    BY <2>1 DEF Inv, Decreasing
  <2>5. Traced'
    BY <2>1 DEF Inv, Traced, Busy, Flagged
  <2>6. UniqueIds' /\ RiskAccounted' /\ OpenFindingsNoted'
    BY <2>1 DEF Inv, UniqueIds, RiskAccounted, OpenFindingsNoted, Busy, SameId, HasGap, Blocking
  <2> QED
    BY <2>2, <2>3, <2>4, <2>5, <2>6 DEF Inv
<1> QED
  BY <1>1, <1>2

\* The invariant holds in every reachable state (agent/author.go).
THEOREM CycleInvariant == Spec => []Inv
BY InitInv, StepInv, PTL DEF Spec

\* Types of the pool, the cycle and the blackboard, for every instance.
THEOREM CycleTypeCorrect == Spec => []TypeOK
<1>1. Inv => TypeOK
  BY DEF Inv
<1> QED
  BY <1>1, CycleInvariant, PTL

\* Scenario identifiers stay unique whatever is refused, cut short or revised
\* (Blackboard.AddScenarios).
THEOREM IdsStayUnique == Spec => []UniqueIds
<1>1. Inv => UniqueIds
  BY DEF Inv
<1> QED
  BY <1>1, CycleInvariant, PTL

\* Each risk that a worker is through with has a scenario under its identifier
\* or a gap (Author.writeForRisk).
THEOREM NoTakenRiskLost == Spec => []RiskAccounted
<1>1. Inv => RiskAccounted
  BY DEF Inv
<1> QED
  BY <1>1, CycleInvariant, PTL

\* A cycle that ends well over blocking findings has said so
\* (RevisionCycle.Run).
THEOREM OpenFindingsToldOf == Spec => []OpenFindingsNoted
<1>1. Inv => OpenFindingsNoted
  BY DEF Inv
<1> QED
  BY <1>1, CycleInvariant, PTL

\* Revisions answer ever fewer blocking findings, and their number is below the
\* cap (RevisionCycle.Run).
THEOREM Converges == Spec => []RevisionsConverge
<1>1. Inv => RevisionsConverge
  BY DEF Inv, Shape, Decreasing, RevisionsConverge
<1> QED
  BY <1>1, CycleInvariant, PTL

\* A revision replaces no scenario but those the findings are about
\* (Author.Revise).
THEOREM RevisionStaysInBounds == Spec => OnlyFlaggedRewritten
<1> DEFINE Blamed(s) ==
      \E i \in DOMAIN findings : findings[i].blocking /\ findings[i].target = s.slug
<1>1. ASSUME Inv, [Next]_vars
      PROVE  round > 0 => \A s \in catalogue \ catalogue' : Blamed(s)
  <2> SUFFICES ASSUME round > 0, NEW s \in catalogue, s \notin catalogue'
               PROVE  Blamed(s)
    OBVIOUS
  <2>1. PICK w \in Workers, k \in Nat : Emit(w, k)
    BY <1>1, CatalogueStep DEF vars, boardVars
  <2>2. s.slug = SlugOf[worker[w]]
    BY <1>1, <2>1, EmittedScenarios DEF Added, SameId, Inv
  <2>3. worker[w] \in Flagged
    BY <1>1, <2>1 DEF Emit, Inv, Traced, Shape
  <2> QED
    BY <2>2, <2>3 DEF Flagged
<1> QED
  BY <1>1, CycleInvariant, PTL DEF Spec, OnlyFlaggedRewritten
=============================================================================
