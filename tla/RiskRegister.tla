---------------------------- MODULE RiskRegister ----------------------------
(***************************************************************************)
(* How components become a register of risks with levels (agent/risk.go).  *)
(* A component is the file it was made from and a raw score; the sum of    *)
(* weighted signals that makes up the raw score is data, and so is the     *)
(* discount for a shallow analysis.  What is kept is the factor for a      *)
(* component without tests, the order of the register, the bands, and that *)
(* the identifier of a risk is made of the end of a path: different files  *)
(* may share one.                                                          *)
(***************************************************************************)
EXTENDS Integers, Sequences, FiniteSets, SequencesExt

CONSTANTS
  RiskID,        \* what riskIDFor makes of each component
  IDOrder,       \* these identifiers, as strings compare
  Untested,      \* UntestedMultiplier
  Thresholds,    \* of a small register: [critical, high, medium]
  Bands,         \* of a large one, in per cent: [critical, high, medium]
  MinComponents  \* from which size on a register is large

Names == DOMAIN RiskID
Place(id) == CHOOSE i \in DOMAIN IDOrder : IDOrder[i] = id

ASSUME RiskRegisterAssumption ==
  /\ IsFiniteSet(Names)
  /\ \A name \in Names : RiskID[name] \in ToSet(IDOrder)
  /\ \A i, j \in DOMAIN IDOrder : IDOrder[i] = IDOrder[j] => i = j
  /\ Untested \in Nat

Levels == {"critical", "high", "medium", "low"}

\* scoreComponent, of a raw score.
Scored(raw, hasTest) == IF hasTest THEN raw ELSE raw * Untested

\* Highest score first, then by identifier.
Before(a, b) ==
  \/ a.score > b.score
  \/ a.score = b.score /\ Place(RiskID[a.name]) < Place(RiskID[b.name])

\* atLeastOne(n * fraction): rounded half up.
AtLeastOne(n, percent) ==
  LET rounded == (2 * n * percent + 100) \div 200 IN
  IF rounded < 1 THEN 1 ELSE rounded

\* The level of a rank, counted from 0, among n.
LevelForRank(rank, n) ==
  LET criticalCount == AtLeastOne(n, Bands.critical)
      highCount     == criticalCount + AtLeastOne(n, Bands.high)
      mediumCount   == highCount + AtLeastOne(n, Bands.medium) IN
  CASE rank < criticalCount -> "critical"
    [] rank >= criticalCount /\ rank < highCount -> "high"
    [] rank >= highCount /\ rank < mediumCount -> "medium"
    [] OTHER -> "low"

LevelFor(score) ==
  CASE score >= Thresholds.critical -> "critical"
    [] score < Thresholds.critical /\ score >= Thresholds.high -> "high"
    [] score < Thresholds.high /\ score >= Thresholds.medium -> "medium"
    [] OTHER -> "low"

\* Mutant of AssignLevels: a tie is cut where the band ends.
AssignLevelsByRank(sorted) ==
  [i \in DOMAIN sorted |->
     IF Len(sorted) < MinComponents THEN LevelFor(sorted[i].score)
     ELSE LevelForRank(i - 1, Len(sorted))]

\* assignLevels, of a sorted register: by rank, but equal scores have the level
\* of the first of them.
AssignLevels(sorted) ==
  LET level[i \in DOMAIN sorted] ==
        IF i > 1 /\ sorted[i].score = sorted[i - 1].score
          THEN level[i - 1]
          ELSE LevelForRank(i - 1, Len(sorted)) IN
  IF Len(sorted) < MinComponents
    THEN [i \in DOMAIN sorted |-> LevelFor(sorted[i].score)]
    ELSE level

\* sort.Slice with Before, which leaves equal scores under one identifier in
\* either order: the components come as the analysts finished, and the sort is
\* not stable.
Sortings(components) ==
  {sorted \in SetToSeqs(components) :
     \A i, j \in DOMAIN sorted : i < j => ~Before(sorted[j], sorted[i])}

Banded(sorted) ==
  LET level == AssignLevels(sorted) IN
  [i \in DOMAIN sorted |->
     [name |-> sorted[i].name, score |-> sorted[i].score, level |-> level[i]]]

\* Score: what may become of a set of components.
Registers(components) == {Banded(sorted) : sorted \in Sortings(components)}

\* Prioritised and topRisks.
Prioritised(register) == {r \in ToSet(register) : r.level \in {"critical", "high"}}

TargetRisks(register) ==
  IF Prioritised(register) # {}
    THEN Prioritised(register)
    ELSE {register[i] : i \in 1..(IF Len(register) < 3 THEN Len(register) ELSE 3)}

\* What levels mean, without an order: the level of a risk is that of the
\* number of risks with a higher score.
RankedLevel(register, risk) ==
  IF Len(register) < MinComponents
    THEN LevelFor(risk.score)
    ELSE LevelForRank(Cardinality({i \in DOMAIN register : register[i].score > risk.score}),
                      Len(register))

=============================================================================
