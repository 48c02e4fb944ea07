------------------------- MODULE OrchestratorProofs -------------------------
(***************************************************************************)
(* Proofs about Orchestrator, for every set of pipelines: the state's      *)
(* types, the soundness of the order, that the order follows from the      *)
(* pipeline alone, the checkpoints, and that the run keeps the contract of *)
(* PhaseDag.                                                               *)
(***************************************************************************)
EXTENDS Orchestrator, FiniteSetTheorems, WellFoundedInduction, TLAPS

-----------------------------------------------------------------------------
(* The inductive invariant. *)

USE DEF DependsOn

Stages == {"sorting", "between", "running", "settling", "done", "aborted",
           "refused"}
Running == {"between", "running", "settling", "done", "aborted"}

SortTypes ==
  /\ pipeline \in Pipelines
  /\ pc \in Stages
  /\ visited \subseteq Names
  /\ path \in Seq(Names) /\ ordered \in Seq(Names)

RunTypes ==
  /\ position \in Nat /\ 1 <= position /\ position <= Len(ordered) + 1
  /\ pc \in {"running", "settling", "aborted"} => HasNext
  /\ status \in [Names -> {"waiting", "running", "ok", "failed", "skipped"}]
  /\ completed \subseteq Names
  /\ board \subseteq {"work", "gap"} \X Names /\ snapshot \subseteq board
  /\ savedAt \in Nat /\ savedAt <= position
  /\ pc \in {"sorting", "between", "running"} => savedAt < position

\* The order is the visited phases, each once and after all it depends on.
OrderInv ==
  /\ \A i \in 1..Len(ordered) : ordered[i] \in visited
  /\ \A p \in visited : \E i \in 1..Len(ordered) : ordered[i] = p
  /\ \A i, j \in 1..Len(ordered) : i # j => ordered[i] # ordered[j]
  /\ \A i \in 1..Len(ordered) :
       \A d \in DependsOn(ordered[i]) : \E j \in 1..(i - 1) : ordered[j] = d

\* The calls under way are a chain of dependencies that are not yet visited.
PathInv ==
  /\ visited \subseteq Declared
  /\ \A i \in 1..Len(path) : path[i] \in Declared /\ path[i] \notin visited
  /\ \A i, j \in 1..Len(path) : i # j => path[i] # path[j]
  /\ \A i \in 1..(Len(path) - 1) : path[i + 1] \in DependsOn(path[i])

\* No part of what is visited can be followed for ever.
NoCycle ==
  \A part \in SUBSET visited :
    part # {} => \E p \in part : DependsOn(p) \cap part = {}

StageInv ==
  /\ pc \in {"sorting", "refused"} =>
       /\ position = 1 /\ savedAt = 0
       /\ status = [p \in Names |-> "waiting"]
       /\ completed = {}
  /\ pc = "sorting" /\ visited # {} => ~Malformed
  /\ pc = "sorting" /\ path # <<>> => ~Malformed
  /\ pc \in Running => ~Malformed /\ Declared \subseteq visited

\* What the phases before the current one, that one, and those after it are.
RunInv ==
  pc \in Running =>
    /\ \A i \in 1..Len(ordered) :
         /\ i < position =>
              /\ status[ordered[i]] \in {"ok", "failed", "skipped"}
              /\ status[ordered[i]] = "ok" => ordered[i] \in completed
              /\ status[ordered[i]] = "failed" => ordered[i] \in pipeline.optional
         /\ i > position => status[ordered[i]] = "waiting"
         /\ i = position =>
              /\ pc = "between" => status[ordered[i]] = "waiting"
              /\ pc = "running" => status[ordered[i]] = "running"
              /\ pc = "settling" => status[ordered[i]] \in {"ok", "failed"}
              /\ pc = "aborted" => status[ordered[i]] = "failed"
    /\ pc = "done" => ~HasNext
    /\ \A p \in completed : status[p] = "ok"

Inv ==
  SortTypes /\ RunTypes /\ OrderInv /\ PathInv /\ NoCycle /\ StageInv /\ RunInv

-----------------------------------------------------------------------------
(* Sequences. *)

LEMMA AppendFacts ==
  ASSUME NEW S, NEW s \in Seq(S), NEW e \in S
  PROVE  /\ Append(s, e) \in Seq(S)
         /\ Len(s) \in Nat /\ Len(Append(s, e)) = Len(s) + 1
         /\ \A i \in 1..Len(s) : Append(s, e)[i] = s[i]
         /\ Append(s, e)[Len(s) + 1] = e
  OBVIOUS

LEMMA FrontFacts ==
  ASSUME NEW S, NEW s \in Seq(S), s # <<>>
  PROVE  /\ SubSeq(s, 1, Len(s) - 1) \in Seq(S)
         /\ Len(s) \in Nat /\ Len(s) >= 1
         /\ Len(SubSeq(s, 1, Len(s) - 1)) = Len(s) - 1
         /\ \A i \in 1..(Len(s) - 1) : SubSeq(s, 1, Len(s) - 1)[i] = s[i]
         /\ s[Len(s)] \in S
<1>1. Len(s) \in Nat /\ Len(s) >= 1
  OBVIOUS
<1>2. s[Len(s)] \in S
  BY <1>1
<1>3. \A i \in 1..(Len(s) - 1) : s[i] \in S
  BY <1>1
<1>4. /\ Len(SubSeq(s, 1, Len(s) - 1)) = Len(s) - 1
      /\ \A i \in 1..(Len(s) - 1) : SubSeq(s, 1, Len(s) - 1)[i] = s[i]
  <2>1. PICK m \in Nat : m = Len(s) - 1
    BY <1>1
  <2>2. Len(SubSeq(s, 1, m)) = m /\ \A i \in 1..m : SubSeq(s, 1, m)[i] = s[i]
    BY <2>1
  <2> QED BY <2>1, <2>2
<1>5. SubSeq(s, 1, Len(s) - 1) \in Seq(S)
  BY <1>1, <1>3
<1> QED BY <1>1, <1>2, <1>4, <1>5

-----------------------------------------------------------------------------
(* The steps of topologicalOrder. *)

LEMMA Constants ==
  ASSUME pipeline \in Pipelines
  PROVE  /\ Declared \subseteq Names
         /\ \A p \in Names : DependsOn(p) \subseteq Nat
  BY OrchestratorAssumption DEF Declared

LEMMA InitInv == Init => Inv
<1> SUFFICES ASSUME Init PROVE Inv
  OBVIOUS
<1> USE DEF Init
<1>1. SortTypes /\ RunTypes
  BY DEF SortTypes, RunTypes, Stages, HasNext
<1>2. OrderInv /\ PathInv /\ NoCycle
  BY DEF OrderInv, PathInv, NoCycle
<1>3. StageInv /\ RunInv
  BY DEF StageInv, RunInv, Running
<1> QED BY <1>1, <1>2, <1>3 DEF Inv

\* A call of visit on a phase that is neither visited nor under way.
LEMMA EnterInv ==
  ASSUME Inv, NEW p \in Names, Enter(p), pc = "sorting", ~Malformed,
         p \in Declared, p \notin visited, ~OnPath(p),
         path # <<>> => p \in DependsOn(Current)
  PROVE  Inv'
<1>0. /\ path' = Append(path, p)
      /\ UNCHANGED <<pipeline, pc, visited, ordered, position, status,
                     completed, board, snapshot, savedAt>>
  BY DEF Enter, runVars
<1>1. /\ path' \in Seq(Names)
      /\ Len(path) \in Nat /\ Len(path') = Len(path) + 1
      /\ \A i \in 1..Len(path) : path'[i] = path[i]
      /\ path'[Len(path) + 1] = p
  BY <1>0, AppendFacts DEF Inv, SortTypes
<1>2. SortTypes' /\ RunTypes'
  BY <1>0, <1>1 DEF Inv, SortTypes, RunTypes, HasNext
<1>3. OrderInv' /\ NoCycle' /\ RunInv'
  BY <1>0 DEF Inv, OrderInv, NoCycle, RunInv, DependsOn, HasNext
<1>4. PathInv'
  <2>1. visited' \subseteq Declared'
    BY <1>0 DEF Inv, PathInv, Declared
  <2>2. \A i \in 1..Len(path') : path'[i] \in Declared' /\ path'[i] \notin visited'
    BY <1>0, <1>1 DEF Inv, PathInv, Declared
  <2>3. \A i, j \in 1..Len(path') : i # j => path'[i] # path'[j]
    BY <1>1 DEF Inv, PathInv, OnPath
  <2>4. \A i \in 1..(Len(path') - 1) : path'[i + 1] \in pipeline.dependsOn[path'[i]]
    <3> SUFFICES ASSUME NEW i \in 1..(Len(path') - 1)
                 PROVE  path'[i + 1] \in pipeline.dependsOn[path'[i]]
      OBVIOUS
    <3>1. CASE i = Len(path)
      <4>1. path'[i] = Current /\ path'[i + 1] = p
        BY <3>1, <1>1 DEF Current
      <4>2. path # <<>>
        BY <3>1
      <4> QED BY <4>1, <4>2
    <3>2. CASE i # Len(path)
      <4>1. i \in 1..(Len(path) - 1) /\ path'[i] = path[i] /\ path'[i + 1] = path[i + 1]
        BY <3>2, <1>1
      <4> QED BY <4>1 DEF Inv, PathInv
    <3> QED BY <3>1, <3>2
  <2> QED BY <1>0, <2>1, <2>2, <2>3, <2>4 DEF PathInv
<1>5. StageInv'
  BY <1>0 DEF Inv, StageInv, Malformed, Declared, Running
<1> QED BY <1>2, <1>3, <1>4, <1>5 DEF Inv

\* The innermost call returns: its phase is next in the order.
LEMMA LeaveInv ==
  ASSUME Inv, Leave
  PROVE  Inv'
<1> DEFINE p == Current
           n == Len(ordered)
<1>0. /\ pc = "sorting" /\ path # <<>>
      /\ DependsOn(p) \subseteq visited
      /\ visited' = visited \cup {p}
      /\ ordered' = Append(ordered, p)
      /\ path' = SubSeq(path, 1, Len(path) - 1)
      /\ UNCHANGED <<pipeline, pc, position, status, completed, board,
                     snapshot, savedAt>>
  BY DEF Leave, Pending, runVars
<1>1. /\ path' \in Seq(Names)
      /\ Len(path) \in Nat /\ Len(path) >= 1 /\ Len(path') = Len(path) - 1
      /\ \A i \in 1..(Len(path) - 1) : path'[i] = path[i]
      /\ p \in Names
  BY <1>0, FrontFacts DEF Inv, SortTypes, Current
<1>2. p \in Declared /\ p \notin visited
  BY <1>1 DEF Inv, PathInv, Current
<1>3. /\ ordered' \in Seq(Names)
      /\ n \in Nat /\ Len(ordered') = n + 1
      /\ \A i \in 1..n : ordered'[i] = ordered[i]
      /\ ordered'[n + 1] = p
  BY <1>0, <1>1, AppendFacts DEF Inv, SortTypes
<1>4. \A q : DependsOn(q)' = DependsOn(q)
  BY <1>0 DEF DependsOn
<1>5. Declared' = Declared
  BY <1>0 DEF Declared
<1>p. path'[Len(path)] = path'[Len(path)] /\ p = path[Len(path)]
  BY DEF Current
<1> HIDE DEF p, n
<1>6. SortTypes' /\ RunTypes'
  <2>1. SortTypes'
    BY <1>0, <1>1, <1>3 DEF Inv, SortTypes
  <2>2. RunTypes'
    BY <1>0, <1>3 DEF Inv, RunTypes, HasNext, n
  <2> QED BY <2>1, <2>2
<1>7. OrderInv'
  <2> USE DEF Inv
  <2>1. \A i \in 1..Len(ordered') : ordered'[i] \in visited'
    BY <1>0, <1>3 DEF OrderInv, n
  <2>2. \A q \in visited' : \E i \in 1..Len(ordered') : ordered'[i] = q
    <3> SUFFICES ASSUME NEW q \in visited'
                 PROVE  \E i \in 1..Len(ordered') : ordered'[i] = q
      OBVIOUS
    <3>1. CASE q = p
      BY <3>1, <1>3
    <3>2. CASE q \in visited
      <4>1. PICK i \in 1..n : ordered[i] = q
        BY <3>2 DEF OrderInv, n
      <4>2. i \in 1..Len(ordered') /\ ordered'[i] = q
        BY <4>1, <1>3
      <4> QED BY <4>2
    <3> QED BY <3>1, <3>2, <1>0
  <2>3. \A i, j \in 1..Len(ordered') : i # j => ordered'[i] # ordered'[j]
    <3>1. \A i \in 1..n : ordered[i] # p
      BY <1>2 DEF OrderInv, n
    <3>2. \A i, j \in 1..n : i # j => ordered[i] # ordered[j]
      BY DEF OrderInv, n
    <3> QED BY ONLY <1>3, <3>1, <3>2
  <2>4. \A i \in 1..Len(ordered') :
          \A d \in pipeline.dependsOn[ordered'[i]] :
            \E j \in 1..(i - 1) : ordered'[j] = d
    <3> SUFFICES ASSUME NEW i \in 1..Len(ordered'),
                        NEW d \in pipeline.dependsOn[ordered'[i]]
                 PROVE  \E j \in 1..(i - 1) : ordered'[j] = d
      OBVIOUS
    <3>1. CASE i = n + 1
      <4>1. d \in visited
        BY <3>1, <1>0, <1>3
      <4>2. PICK j \in 1..n : ordered[j] = d
        BY <4>1 DEF OrderInv, n
      <4> QED BY <4>2, <3>1, <1>3
    <3>2. CASE i \in 1..n
      <4>1. PICK j \in 1..(i - 1) : ordered[j] = d
        BY <3>2, <1>3 DEF OrderInv, n
      <4> QED BY <4>1, <3>2, <1>3
    <3> QED BY <3>1, <3>2, <1>3
  <2> QED BY <1>0, <2>1, <2>2, <2>3, <2>4 DEF OrderInv
<1>8. PathInv'
  <2> USE DEF Inv
  <2>1. visited' \subseteq Declared'
    BY <1>0, <1>2, <1>5 DEF PathInv
  <2>2. \A i \in 1..Len(path') : path'[i] \in Declared' /\ path'[i] \notin visited'
    BY <1>0, <1>1, <1>5, <1>p DEF PathInv
  <2>3. \A i, j \in 1..Len(path') : i # j => path'[i] # path'[j]
    BY <1>1 DEF PathInv
  <2>4. ASSUME NEW i \in 1..(Len(path') - 1)
        PROVE  path'[i + 1] \in pipeline.dependsOn[path'[i]]
    <3>1. /\ i \in 1..(Len(path) - 1)
          /\ i \in 1..Len(path') /\ i + 1 \in 1..Len(path')
      BY <1>1
    <3>2. path'[i] = path[i] /\ path'[i + 1] = path[i + 1]
      BY <1>1, <3>1
    <3>3. path[i + 1] \in pipeline.dependsOn[path[i]]
      BY <3>1 DEF PathInv
    <3> QED BY <3>2, <3>3
  <2> QED BY <1>0, <2>1, <2>2, <2>3, <2>4 DEF PathInv
<1>9. NoCycle'
  <2> SUFFICES ASSUME NEW part \in SUBSET (visited \cup {p}), part # {}
               PROVE  \E q \in part : DependsOn(q) \cap part = {}
    BY <1>0, <1>4 DEF NoCycle
  <2>1. CASE part \ {p} = {}
    BY <2>1, <1>0, <1>2
  <2>2. CASE part \ {p} # {}
    <3>1. part \ {p} \in SUBSET visited
      OBVIOUS
    <3>2. PICK q \in part \ {p} : DependsOn(q) \cap (part \ {p}) = {}
      BY <2>2, <3>1 DEF Inv, NoCycle
    <3>3. DependsOn(q) \subseteq visited
      <4>1. PICK i \in 1..Len(ordered) : ordered[i] = q
        BY <3>2 DEF Inv, OrderInv
      <4>2. ASSUME NEW d \in DependsOn(q) PROVE d \in visited
        <5>1. PICK j \in 1..(i - 1) : ordered[j] = d
          BY <4>1 DEF Inv, OrderInv
        <5>2. j \in 1..Len(ordered)
          BY <1>3 DEF n
        <5> QED BY <5>1, <5>2 DEF Inv, OrderInv
      <4> QED BY <4>2
    <3> QED BY <3>2, <3>3, <1>2
  <2> QED BY <2>1, <2>2
<1>10. StageInv'
  <2>1. ~Malformed /\ Malformed' = Malformed
    BY <1>0, <1>4, <1>5 DEF Inv, StageInv, Malformed
  <2> QED BY <1>0, <2>1 DEF Inv, StageInv, Running
<1>11. RunInv'
  BY <1>0 DEF RunInv, Running
<1> QED BY <1>6, <1>7, <1>8, <1>9, <1>10, <1>11 DEF Inv

LEMMA SortInv ==
  ASSUME Inv, Sort
  PROVE  Inv'
<1>1. CASE RefuseMalformed \/ \E d \in Names : RefuseCycle(d)
  <2>1. /\ pc = "sorting" /\ pc' = "refused"
        /\ UNCHANGED <<pipeline, visited, path, ordered, position, status,
                       completed, board, snapshot, savedAt>>
    BY <1>1 DEF RefuseMalformed, RefuseCycle, NextDependency, Refuse, sortVars,
       runVars
  <2>2. SortTypes' /\ RunTypes'
    BY <2>1 DEF Inv, SortTypes, RunTypes, Stages, HasNext
  <2>3. OrderInv' /\ PathInv' /\ NoCycle'
    <3>1. OrderInv'
      BY <2>1 DEF Inv, OrderInv
    <3>2. PathInv'
      BY <2>1 DEF Inv, PathInv, Declared
    <3>3. NoCycle'
      BY <2>1 DEF Inv, NoCycle
    <3> QED BY <3>1, <3>2, <3>3
  <2>4. StageInv' /\ RunInv'
    BY <2>1 DEF Inv, StageInv, RunInv, Running
  <2> QED BY <2>2, <2>3, <2>4 DEF Inv
<1>2. ASSUME NEW p \in Names, VisitDeclared(p)
      PROVE  Inv'
  <2>1. p \in Declared /\ p \notin visited /\ path = <<>>
    BY <1>2 DEF VisitDeclared, FirstUnvisited, Declared
  <2> QED BY <1>2, <2>1, EnterInv DEF VisitDeclared, OnPath
<1>3. ASSUME NEW d \in Names, VisitDependency(d)
      PROVE  Inv'
  <2>1. /\ pc = "sorting" /\ path # <<>> /\ ~OnPath(d) /\ Enter(d)
        /\ d \in DependsOn(Current) /\ d \notin visited
    BY <1>3 DEF VisitDependency, NextDependency, Pending
  <2>2. ~Malformed
    BY <2>1 DEF Inv, StageInv
  <2>3. Current \in Declared
    BY <2>1, FrontFacts DEF Inv, SortTypes, PathInv, Current
  <2>4. d \in Declared
    BY <2>1, <2>2, <2>3 DEF Malformed
  <2> QED BY <2>1, <2>2, <2>4, EnterInv
<1>4. CASE Leave
  BY <1>4, LeaveInv
<1>5. CASE Sorted
  <2>1. /\ pc = "sorting" /\ pc' = "between" /\ ~Malformed
        /\ Declared \subseteq visited
        /\ UNCHANGED <<pipeline, visited, path, ordered, position, status,
                       completed, board, snapshot, savedAt>>
    BY <1>5 DEF Sorted, sortVars, runVars
  <2>2. SortTypes' /\ RunTypes'
    BY <2>1 DEF Inv, SortTypes, RunTypes, Stages, HasNext
  <2>3. OrderInv' /\ PathInv' /\ NoCycle'
    <3>1. OrderInv'
      BY <2>1 DEF Inv, OrderInv
    <3>2. PathInv'
      BY <2>1 DEF Inv, PathInv, Declared
    <3>3. NoCycle'
      BY <2>1 DEF Inv, NoCycle
    <3> QED BY <3>1, <3>2, <3>3
  <2>4. StageInv'
    BY <2>1 DEF Inv, StageInv, Running, Malformed, Declared
  <2>5. \A i \in 1..Len(ordered) : status[ordered[i]] = "waiting"
    BY <2>1 DEF Inv, StageInv, SortTypes
  <2>6. RunInv'
    BY <2>1, <2>5 DEF Inv, StageInv, RunInv, Running
  <2> QED BY <2>2, <2>3, <2>4, <2>6 DEF Inv
<1> QED BY <1>1, <1>2, <1>3, <1>4, <1>5 DEF Sort

-----------------------------------------------------------------------------
(* The steps of Run.  They leave the order alone. *)

LEMMA SortKept ==
  ASSUME Inv, pc' \in Stages, UNCHANGED <<pipeline, sortVars>>
  PROVE  SortTypes' /\ OrderInv' /\ PathInv' /\ NoCycle'
<1>0. UNCHANGED <<pipeline, visited, path, ordered>>
  BY DEF sortVars
<1>1. SortTypes'
  BY <1>0 DEF Inv, SortTypes
<1>2. OrderInv'
  BY <1>0 DEF Inv, OrderInv
<1>3. PathInv'
  BY <1>0 DEF Inv, PathInv, Declared
<1>4. NoCycle'
  BY <1>0 DEF Inv, NoCycle
<1> QED BY <1>1, <1>2, <1>3, <1>4

LEMMA StageKept ==
  ASSUME Inv, pc \in Running, pc' \in Running, UNCHANGED <<pipeline, sortVars>>
  PROVE  StageInv'
  BY DEF Inv, StageInv, Running, sortVars, Malformed, Declared

\* The phase at position is a name that appears nowhere else in the order.
LEMMA PhaseFacts ==
  ASSUME Inv, HasNext
  PROVE  /\ Phase \in Names /\ Phase \in visited
         /\ position \in 1..Len(ordered) /\ Len(ordered) \in Nat
         /\ \A i \in 1..Len(ordered) : i # position => ordered[i] # Phase
  BY DEF Inv, SortTypes, RunTypes, OrderInv, HasNext, Phase

LEMMA RunStepInv ==
  ASSUME Inv, Run
  PROVE  Inv'
<1> DEFINE p == Phase
<1>a. HasNext => /\ p \in Names /\ position \in 1..Len(ordered)
                 /\ p = ordered[position]
                 /\ \A i \in 1..Len(ordered) : i # position => ordered[i] # p
  BY PhaseFacts DEF Phase
<1>b. /\ Len(ordered) \in Nat /\ position \in Nat
      /\ \A i \in 1..Len(ordered) : ordered[i] \in Names
      /\ completed \subseteq Names
      /\ status \in [Names -> {"waiting", "running", "ok", "failed", "skipped"}]
  BY DEF Inv, SortTypes, RunTypes
<1>c. pc \in {"running", "settling"} => HasNext
  BY DEF Inv, RunTypes
<1> HIDE DEF p
<1>1. CASE SkipPhase
  <2>1. /\ pc = "between" /\ pc' = "between" /\ HasNext
        /\ status' = [status EXCEPT ![p] = "skipped"]
        /\ board' = board \cup {Gap(p)}
        /\ position' = position + 1
        /\ UNCHANGED <<pipeline, sortVars, ordered, completed, snapshot, savedAt>>
        /\ Unmet(p)
    BY <1>1 DEF SkipPhase, Advance, sortVars, p
  <2>2. RunTypes'
    <3>1. board' \subseteq {"work", "gap"} \X Names
      BY <2>1, <1>a DEF Inv, RunTypes, Gap
    <3> QED BY <2>1, <1>a, <1>b, <3>1 DEF Inv, RunTypes, HasNext
  <2>3. RunInv'
    BY <2>1, <1>a, <1>b DEF Inv, RunInv, Running
  <2> QED BY <2>1, <2>2, <2>3, SortKept, StageKept DEF Inv, Stages, Running
<1>2. CASE StartPhase
  <2>1. /\ pc = "between" /\ pc' = "running" /\ HasNext
        /\ status' = [status EXCEPT ![p] = "running"]
        /\ UNCHANGED <<pipeline, sortVars, ordered, position, completed, board,
                       snapshot, savedAt>>
    BY <1>2 DEF StartPhase, sortVars, p
  <2>2. RunTypes'
    BY <2>1, <1>a, <1>b DEF Inv, RunTypes, HasNext
  <2>3. RunInv'
    BY <2>1, <1>a, <1>b DEF Inv, RunInv, Running
  <2> QED BY <2>1, <2>2, <2>3, SortKept, StageKept DEF Inv, Stages, Running
<1>3. ASSUME NEW result \in {"ok", "failed"}, EndPhase(result)
      PROVE  Inv'
  <2>1. /\ pc = "running" /\ pc' = "settling" /\ HasNext
        /\ status' = [status EXCEPT ![p] = result]
        /\ board' = board \cup {Work(p)}
        /\ UNCHANGED <<pipeline, sortVars, ordered, position, completed>>
    BY <1>3, <1>c DEF EndPhase, sortVars, p
  <2>2. \/ snapshot' = board' /\ savedAt' = position
        \/ UNCHANGED <<snapshot, savedAt>>
    BY <1>3 DEF EndPhase, WriteCheckpoint
  <2>3. RunTypes'
    <3>1. board' \subseteq {"work", "gap"} \X Names
      BY <2>1, <1>a DEF Inv, RunTypes, Work
    <3>2. snapshot' \subseteq board'
      BY <2>1, <2>2 DEF Inv, RunTypes
    <3>3. savedAt' \in Nat /\ savedAt' <= position'
      BY <2>1, <2>2 DEF Inv, RunTypes
    <3>4. status' \in [Names -> {"waiting", "running", "ok", "failed", "skipped"}]
      BY <2>1, <1>a, <1>b
    <3> QED BY <2>1, <3>1, <3>2, <3>3, <3>4 DEF Inv, RunTypes, HasNext
  <2>4. RunInv'
    BY <2>1, <1>a, <1>b DEF Inv, RunInv, Running
  <2> QED BY <2>1, <2>3, <2>4, SortKept, StageKept DEF Inv, Stages, Running
<1>4. CASE SettleSuccess
  <2>1. /\ pc = "settling" /\ pc' = "between" /\ HasNext
        /\ status[p] = "ok"
        /\ completed' = completed \cup {p}
        /\ position' = position + 1
        /\ UNCHANGED <<pipeline, sortVars, ordered, status, board, snapshot,
                       savedAt>>
    BY <1>4, <1>c DEF SettleSuccess, Advance, sortVars, p
  <2>2. RunTypes'
    BY <2>1, <1>a, <1>b DEF Inv, RunTypes, HasNext
  <2>3. RunInv'
    BY <2>1, <1>a, <1>b DEF Inv, RunInv, Running
  <2> QED BY <2>1, <2>2, <2>3, SortKept, StageKept DEF Inv, Stages, Running
<1>5. CASE SettleFailure
  <2>1. /\ pc = "settling" /\ HasNext
        /\ status[p] = "failed"
        /\ board' = board \cup {Gap(p)}
        /\ \/ p \in pipeline.optional /\ position' = position + 1 /\ pc' = "between"
           \/ position' = position /\ pc' = "aborted"
        /\ UNCHANGED <<pipeline, sortVars, ordered, status, completed, snapshot,
                       savedAt>>
    BY <1>5, <1>c DEF SettleFailure, Advance, sortVars, p
  <2>2. RunTypes'
    <3>1. board' \subseteq {"work", "gap"} \X Names
      BY <2>1, <1>a DEF Inv, RunTypes, Gap
    <3> QED BY <2>1, <1>a, <1>b, <3>1 DEF Inv, RunTypes, HasNext
  <2>3. RunInv'
    BY <2>1, <1>a, <1>b DEF Inv, RunInv, Running
  <2> QED BY <2>1, <2>2, <2>3, SortKept, StageKept DEF Inv, Stages, Running
<1>6. CASE RunEnds
  <2>1. /\ pc = "between" /\ pc' = "done" /\ ~HasNext
        /\ UNCHANGED <<pipeline, sortVars, ordered, position, status, completed,
                       board, snapshot, savedAt>>
    BY <1>6 DEF RunEnds, sortVars, runVars
  <2>2. RunTypes'
    BY <2>1 DEF Inv, RunTypes, HasNext
  <2>3. RunInv'
    BY <2>1, <1>b DEF Inv, RunInv, Running, HasNext
  <2> QED BY <2>1, <2>2, <2>3, SortKept, StageKept DEF Inv, Stages, Running
<1> QED BY <1>1, <1>2, <1>3, <1>4, <1>5, <1>6 DEF Run

LEMMA StutterInv ==
  ASSUME Inv, UNCHANGED vars
  PROVE  Inv'
<1>0. UNCHANGED <<pipeline, pc, sortVars, visited, path, ordered, position,
                  status, completed, board, snapshot, savedAt>>
  BY DEF vars, sortVars, runVars
<1>1. SortTypes' /\ OrderInv' /\ PathInv' /\ NoCycle'
  BY <1>0, SortKept DEF Inv, SortTypes
<1>2. RunTypes'
  BY <1>0 DEF Inv, RunTypes, HasNext
<1>3. StageInv'
  BY <1>0 DEF Inv, StageInv, Malformed, Declared
<1>4. RunInv'
  BY <1>0 DEF Inv, RunInv, HasNext
<1> QED BY <1>1, <1>2, <1>3, <1>4 DEF Inv

LEMMA NextInv == Inv /\ [Next]_vars => Inv'
  BY SortInv, RunStepInv, StutterInv DEF Next, Terminated

THEOREM Invariance == Spec => []Inv
<1>1. Init => Inv
  BY InitInv
<1>2. Inv /\ [Next]_vars => Inv'
  BY NextInv
<1> QED BY <1>1, <1>2, PTL DEF Spec

-----------------------------------------------------------------------------
(* The invariants. *)

\* The state of the walk, of the run and of the checkpoint has its type.
THEOREM RunTypeCorrect == Spec => []TypeOK
<1>1. Inv => TypeOK
  BY DEF Inv, SortTypes, RunTypes, TypeOK, Stages, Ended, HasNext
<1> QED BY <1>1, Invariance, PTL

\* The order in which the phases are run holds each of them once, after all
\* that it depends on, on whatever graph (topologicalOrder).
THEOREM OrderIsSound == Spec => []OrderSound
<1>1. Inv => OrderSound
  <2> SUFFICES ASSUME Inv PROVE OrderSound
    OBVIOUS
  <2>1. pc \notin {"sorting", "refused"} => Elements(ordered) = Declared
    <3> SUFFICES ASSUME pc \in Running PROVE Elements(ordered) = Declared
      BY DEF Inv, SortTypes, Stages, Running
    <3>1. visited = Declared
      BY DEF Inv, StageInv, PathInv
    <3>2. Elements(ordered) = visited
      BY DEF Inv, OrderInv, Elements
    <3> QED BY <3>1, <3>2
  <2> QED BY <2>1 DEF Inv, OrderInv, OrderSound
<1> QED BY <1>1, Invariance, PTL

-----------------------------------------------------------------------------
(* The order follows from the pipeline. *)

\* A chain of dependencies, from whatever declared phase, of any length.
Chain(s) ==
  /\ s \in Seq(Declared) /\ s # <<>>
  /\ \A i \in 1..(Len(s) - 1) : s[i + 1] \in DependsOn(s[i])

\* Whatever is reached by a way taken before the walk's own has been visited.
Ahead ==
  \A s \in Seq(Declared) :
    Chain(s) /\ TakenBefore(s, path) => s[Len(s)] \in visited

FixedInv == Ahead /\ OrderFixed

\* A set of numbers that is not empty has a least one.
LEMMA LeastNumber ==
  ASSUME NEW numbers \in SUBSET Nat, numbers # {}
  PROVE  \E m \in numbers : \A n \in numbers : m <= n
<1> DEFINE Less == OpToRel(<, Nat)
<1>1. IsWellFoundedOn(Less, Nat)
  BY NatLessThanWellFounded
<1>2. \A x, y \in Nat : x < y => <<x, y>> \in Less
  BY DEF OpToRel
<1> HIDE DEF Less
<1>3. PICK m \in numbers : \A n \in numbers : ~(<<n, m>> \in Less)
  BY <1>1, WFMin
<1>4. ASSUME NEW n \in numbers
      PROVE  m <= n
  <2>1. n \in Nat /\ m \in Nat /\ ~(<<n, m>> \in Less)
    BY <1>3
  <2>2. ~(n < m)
    BY <1>2, <2>1
  <2> QED BY <2>1, <2>2
<1> QED BY <1>4

\* A sequence that enters a set which each of its steps stays in ends there.
LEMMA StaysIn ==
  ASSUME NEW S, NEW s \in Seq(S), NEW closed, NEW first \in 1..Len(s),
         s[first] \in closed,
         \A i \in 1..(Len(s) - 1) : s[i] \in closed => s[i + 1] \in closed
  PROVE  s[Len(s)] \in closed
<1>0. Len(s) \in Nat
  OBVIOUS
<1> DEFINE out == {i \in Nat : first <= i /\ i <= Len(s) /\ s[i] \notin closed}
<1>1. ASSUME out # {}
      PROVE  FALSE
  <2>1. PICK m \in out : \A n \in out : m <= n
    BY <1>1, LeastNumber
  <2>2. m \in Nat /\ first < m /\ m <= Len(s) /\ s[m] \notin closed
    BY <1>0, <2>1
  <2>3. PICK k \in Nat : k + 1 = m
    BY <2>2
  <2>4. k \notin out /\ k \in 1..(Len(s) - 1)
    BY <1>0, <2>1, <2>2, <2>3
  <2>5. s[k] \in closed
    BY <1>0, <2>2, <2>3, <2>4
  <2> QED BY <2>2, <2>3, <2>4, <2>5
<1> QED BY <1>0, <1>1

\* What is visited stays visited along a chain.
LEMMA ChainVisited ==
  ASSUME Inv, NEW s, Chain(s), NEW first \in 1..Len(s), s[first] \in visited
  PROVE  s[Len(s)] \in visited
<1>1. ASSUME NEW p \in visited, NEW d \in DependsOn(p)
      PROVE  d \in visited
  <2>1. PICK i \in 1..Len(ordered) : ordered[i] = p
    BY <1>1 DEF Inv, OrderInv
  <2>2. PICK j \in 1..(i - 1) : ordered[j] = d
    BY <1>1, <2>1 DEF Inv, OrderInv
  <2>3. j \in 1..Len(ordered)
    BY <2>1, <2>2 DEF Inv, SortTypes
  <2> QED BY <2>2, <2>3 DEF Inv, OrderInv
<1>2. /\ s \in Seq(Declared)
      /\ \A i \in 1..(Len(s) - 1) : s[i + 1] \in DependsOn(s[i])
  BY DEF Chain
<1>3. \A i \in 1..(Len(s) - 1) : s[i] \in visited => s[i + 1] \in visited
  BY <1>1, <1>2
<1> QED BY <1>2, <1>3, StaysIn

\* Every phase under way needs the one being visited.
LEMMA CurrentNeeded ==
  ASSUME Inv, NEW first \in 1..Len(path)
  PROVE  Current \in Needs({path[first]})
<1>1. path \in Seq(Names) /\ path[Len(path)] \in Declared
  BY DEF Inv, SortTypes, PathInv
<1>2. ASSUME NEW closed \in SUBSET Declared, path[first] \in closed,
             \A p \in closed : DependsOn(p) \subseteq closed
      PROVE  path[Len(path)] \in closed
  <2>1. \A i \in 1..(Len(path) - 1) :
          path[i] \in closed => path[i + 1] \in closed
    BY <1>2 DEF Inv, PathInv
  <2> QED BY <1>1, <1>2, <2>1, StaysIn
<1> QED BY <1>1, <1>2 DEF Needs, Current

\* Of two ways, one is taken before the other or begins with all of it.
LEMMA WaysPart ==
  ASSUME pipeline \in Pipelines,
         NEW r \in Seq(Declared), NEW s \in Seq(Declared)
  PROVE  \/ TakenBefore(r, s) \/ TakenBefore(s, r)
         \/ \A i \in 1..Len(r) : i <= Len(s) => r[i] = s[i]
<1>0. Len(r) \in Nat /\ Len(s) \in Nat
  OBVIOUS
<1>00. \A p \in Declared : p \in Nat
  BY Constants, OrchestratorAssumption
<1> DEFINE apart == {i \in Nat : 1 <= i /\ i <= Len(r) /\ i <= Len(s)
                                  /\ r[i] # s[i]}
<1>1. CASE apart = {}
  BY <1>0, <1>1
<1>2. CASE apart # {}
  <2>1. PICK m \in apart : \A n \in apart : m <= n
    BY <1>2, LeastNumber
  <2>2. /\ m \in 1..Len(r) /\ m \in 1..Len(s) /\ r[m] # s[m]
        /\ m <= Len(r) /\ m <= Len(s)
    BY <1>0, <2>1
  <2>3. \A j \in 1..(m - 1) : r[j] = s[j] /\ s[j] = r[j]
    BY <1>0, <2>1, <2>2
  <2>4. r[m] \in Declared /\ s[m] \in Declared
    BY <2>2
  <2>5. CASE m = 1
    <3>1. PICK i \in 1..Len(pipeline.declared) : pipeline.declared[i] = r[1]
      BY <2>4, <2>5 DEF Declared
    <3>2. PICK j \in 1..Len(pipeline.declared) : pipeline.declared[j] = s[1]
      BY <2>4, <2>5 DEF Declared
    <3>3. i < j \/ j < i
      BY <2>2, <2>5, <3>1, <3>2
    <3>4. DeclaredBefore(r[1], s[1]) \/ DeclaredBefore(s[1], r[1])
      BY <3>1, <3>2, <3>3 DEF DeclaredBefore
    <3> QED BY <2>2, <2>3, <2>5, <3>4 DEF TakenBefore
  <2>6. CASE m # 1
    <3>0. r[m] \in Nat /\ s[m] \in Nat
      BY <1>00, <2>4
    <3>1. r[m] < s[m] \/ s[m] < r[m]
      BY <2>2, <3>0
    <3> QED BY <2>2, <2>3, <2>6, <3>1 DEF TakenBefore
  <2> QED BY <2>5, <2>6
<1> QED BY <1>1, <1>2

\* No phase is under way twice, so the walk's way is no longer than the list.
LEMMA PathIsShort ==
  ASSUME Inv
  PROVE  Len(path) \in Nat /\ Len(path) <= Len(pipeline.declared)
<1> DEFINE place == [i \in 1..Len(path) |->
                       CHOOSE j \in 1..Len(pipeline.declared) :
                         pipeline.declared[j] = path[i]]
           size == Len(pipeline.declared)
<1>0. Len(path) \in Nat /\ size \in Nat
  BY OrchestratorAssumption DEF Inv, SortTypes
<1>1. \A i \in 1..Len(path) :
        place[i] \in 1..size /\ pipeline.declared[place[i]] = path[i]
  BY DEF Inv, PathInv, Declared
<1>2. ASSUME NEW i \in 1..Len(path), NEW j \in 1..Len(path),
             place[i] = place[j]
      PROVE  i = j
  <2>1. path[i] = path[j]
    <3> HIDE DEF place
    <3> QED BY <1>1, <1>2
  <2> QED BY <2>1 DEF Inv, PathInv
<1>3. place \in [1..Len(path) -> 1..size]
  BY <1>1
<1> HIDE DEF place, size
<1>4. place \in Injection(1..Len(path), 1..size)
  BY <1>2, <1>3 DEF Injection, IsInjective
<1>5. IsFiniteSet(1..size) /\ Cardinality(1..size) = size
  BY <1>0, FS_Interval
<1>6. Cardinality(1..Len(path)) = Len(path)
  BY <1>0, FS_Interval
<1>7. Cardinality(1..Len(path)) <= Cardinality(1..size)
  BY <1>4, <1>5, FS_Injection
<1> QED BY <1>0, <1>5, <1>6, <1>7 DEF size

LEMMA RouteIsChain ==
  ASSUME pipeline \in Pipelines, NEW p, NEW s \in Routes(p)
  PROVE  Chain(s) /\ s[Len(s)] = p /\ Len(s) \in Nat /\ Len(s) >= 1
<1>0. Len(pipeline.declared) \in Nat
  BY OrchestratorAssumption
<1>1. PICK n \in 1..Len(pipeline.declared) : s \in [1..n -> Declared]
  BY DEF Routes
<1>2. n \in Nat /\ n >= 1
  BY <1>0
<1>3. s \in Seq(Declared) /\ Len(s) = n
  BY <1>1, <1>2
<1> QED BY <1>2, <1>3 DEF Routes, Chain

\* While a phase is visited, the walk's way is one of the ways to it.
LEMMA PathIsRoute ==
  ASSUME Inv, path # <<>>
  PROVE  path \in Routes(Current)
<1>1. /\ Len(path) \in 1..Len(pipeline.declared)
      /\ Len(path) \in Nat /\ path \in Seq(Names)
  BY PathIsShort, FrontFacts DEF Inv, SortTypes
<1>2. path \in [1..Len(path) -> Declared]
  BY <1>1 DEF Inv, PathInv
<1> QED BY <1>1, <1>2 DEF Inv, PathInv, Routes, Current

\* A call of visit begins on p: what branches off here before p is visited.
LEMMA EnterAhead ==
  ASSUME Inv, Ahead, NEW p \in Names, Enter(p),
         \A s \in Seq(Declared) :
           /\ Chain(s) /\ Len(path) < Len(s)
           /\ \A j \in 1..Len(path) : s[j] = path[j]
           /\ IF path = <<>> THEN DeclaredBefore(s[1], p)
                             ELSE s[Len(path) + 1] < p
           => s[Len(path) + 1] \in visited
  PROVE  Ahead'
<1>1. path' = Append(path, p) /\ UNCHANGED <<pipeline, visited, ordered>>
  BY DEF Enter
<1>2. /\ Len(path) \in Nat /\ Len(path') = Len(path) + 1
      /\ \A i \in 1..Len(path) : path'[i] = path[i]
      /\ path'[Len(path) + 1] = p
  BY <1>1, AppendFacts DEF Inv, SortTypes
<1>3. PICK n \in Nat : n = Len(path)
  BY <1>2
<1>4. ASSUME NEW s \in Seq(Declared), Chain(s), TakenBefore(s, path)'
      PROVE  s[Len(s)] \in visited
  <2>0. Len(s) \in Nat
    OBVIOUS
  <2>1. PICK i \in 1..Len(s) :
          /\ i <= Len(path')
          /\ \A j \in 1..(i - 1) : s[j] = path'[j]
          /\ IF i = 1 THEN DeclaredBefore(s[1], path'[1]) ELSE s[i] < path'[i]
    BY <1>1, <1>4 DEF TakenBefore, DeclaredBefore
  <2>2. CASE i <= n
    <3>0. i \in 1..Len(path) /\ \A j \in 1..(i - 1) : j \in 1..Len(path)
      BY <1>3, <2>0, <2>2
    <3>1. /\ \A j \in 1..(i - 1) : s[j] = path[j]
          /\ path'[i] = path[i] /\ (i = 1 => path'[1] = path[1])
      BY <1>2, <2>1, <3>0
    <3>2. TakenBefore(s, path)
      BY <1>3, <2>1, <2>2, <3>1 DEF TakenBefore
    <3> QED BY <1>4, <3>2 DEF Ahead
  <2>3. CASE i = n + 1
    <3>1. \A j \in 1..n : s[j] = path[j]
      BY <1>2, <1>3, <2>1, <2>3
    <3>2. path = <<>> <=> n = 0
      BY <1>3 DEF Inv, SortTypes
    <3>3. IF n = 0 THEN DeclaredBefore(s[1], p) ELSE s[n + 1] < p
      BY <1>2, <1>3, <2>1, <2>3
    <3>4. n < Len(s) /\ n + 1 \in 1..Len(s)
      BY <2>0, <2>3
    <3>5. s[n + 1] \in visited
      BY <1>3, <1>4, <3>1, <3>2, <3>3, <3>4
    <3> QED BY <1>4, <3>4, <3>5, ChainVisited
  <2> QED BY <1>2, <1>3, <2>0, <2>1, <2>2, <2>3
<1>5. Declared' = Declared /\ \A s : Chain(s)' = Chain(s)
  BY <1>1 DEF Declared, Chain, DependsOn
<1> QED BY <1>1, <1>4, <1>5 DEF Ahead

\* A call of visit returns: what is not visited yet is due later.
LEMMA LeaveFixed ==
  ASSUME Inv, FixedInv, Leave
  PROVE  FixedInv'
<1> DEFINE n == Len(ordered)
<1>1. /\ path # <<>> /\ DependsOn(Current) \subseteq visited
      /\ visited' = visited \cup {Current}
      /\ ordered' = Append(ordered, Current)
      /\ path' = SubSeq(path, 1, Len(path) - 1)
      /\ UNCHANGED pipeline
  BY DEF Leave, Pending
<1>2. /\ path \in Seq(Names) /\ Len(path) \in Nat /\ Len(path) >= 1
      /\ Len(path') = Len(path) - 1
      /\ \A i \in 1..(Len(path) - 1) : path'[i] = path[i]
      /\ Current \in Names /\ Current = path[Len(path)]
  BY <1>1, FrontFacts DEF Inv, SortTypes, Current
<1>3. /\ n \in Nat /\ Len(ordered') = n + 1
      /\ \A i \in 1..n : ordered'[i] = ordered[i]
      /\ ordered'[n + 1] = Current
  BY <1>1, <1>2, AppendFacts DEF Inv, SortTypes
<1> HIDE DEF n
<1>4. /\ Declared' = Declared /\ \A s : Chain(s)' = Chain(s)
      /\ \A r, s : TakenBefore(r, s)' <=> TakenBefore(r, s)
  BY <1>1 DEF Declared, Chain, DependsOn, TakenBefore, DeclaredBefore
<1>5. /\ \A q : Routes(q)' = Routes(q)
      /\ \A part : Needs(part)' = Needs(part)
  BY <1>1 DEF Declared, DependsOn, Routes, Needs
<1>6. Ahead'
  <2> SUFFICES ASSUME NEW s \in Seq(Declared), Chain(s), TakenBefore(s, path)'
               PROVE  s[Len(s)] \in visited'
    BY <1>4 DEF Ahead
  <2>0. Len(s) \in Nat
    OBVIOUS
  <2>1. PICK i \in 1..Len(s) :
          /\ i <= Len(path')
          /\ \A j \in 1..(i - 1) : s[j] = path'[j]
          /\ IF i = 1 THEN DeclaredBefore(s[1], path'[1]) ELSE s[i] < path'[i]
    BY <1>1 DEF TakenBefore, DeclaredBefore
  <2>2. /\ i <= Len(path)
        /\ \A j \in 1..(i - 1) : s[j] = path[j]
        /\ path'[i] = path[i] /\ (i = 1 => path'[1] = path[1])
    BY <1>2, <2>0, <2>1
  <2>3. TakenBefore(s, path)
    BY <2>1, <2>2 DEF TakenBefore
  <2> QED BY <1>1, <2>3 DEF FixedInv, Ahead
<1>7. OrderFixed'
  <2> SUFFICES ASSUME NEW k \in 1..Len(ordered'), NEW q \in Declared,
                      \A j \in 1..k : ordered'[j] # q
               PROVE  \/ ordered'[k] \in Needs({q})
                      \/ \E r \in Routes(ordered'[k]) :
                           \A s \in Routes(q) : TakenBefore(r, s)
    BY <1>4, <1>5 DEF OrderFixed
  <2>1. CASE k \in 1..n
    <3>1. \A j \in 1..k : ordered[j] # q
      BY <1>3, <2>1
    <3> QED BY <1>3, <2>1, <3>1 DEF FixedInv, OrderFixed, n
  <2>2. CASE k = n + 1
    <3>1. /\ \A j \in 1..n : ordered[j] # q
          /\ ordered'[k] = Current /\ Current # q
      BY <1>3, <2>2
    <3>2. q \notin visited
      BY <3>1 DEF Inv, OrderInv, n
    <3>3. CASE \E i \in 1..Len(path) : path[i] = q
      BY <3>1, <3>3, CurrentNeeded
    <3>4. CASE ~\E i \in 1..Len(path) : path[i] = q
      <4>1. ASSUME NEW s \in Routes(q)
            PROVE  TakenBefore(path, s)
        <5>0. /\ Chain(s) /\ s[Len(s)] = q /\ Len(s) \in Nat /\ Len(s) >= 1
              /\ s \in Seq(Declared)
          BY <4>1, RouteIsChain DEF Inv, SortTypes, Chain
        <5>1. path \in Seq(Declared)
          BY <1>2 DEF Inv, PathInv
        <5>2. ~TakenBefore(s, path)
          BY <3>2, <5>0 DEF FixedInv, Ahead
        <5>3. ASSUME \A i \in 1..Len(path) : i <= Len(s) => path[i] = s[i]
              PROVE  FALSE
          <6>1. CASE Len(s) <= Len(path)
            <7>1. Len(s) \in 1..Len(path) /\ path[Len(s)] = q
              BY <1>2, <5>0, <5>3, <6>1
            <7> QED BY <3>4, <7>1
          <6>2. CASE Len(path) < Len(s)
            <7>1. /\ Len(path) \in 1..(Len(s) - 1)
                  /\ s[Len(path)] = Current
              BY <1>2, <5>0, <5>3, <6>2
            <7>2. s[Len(path) + 1] \in visited
              BY <1>1, <5>0, <7>1 DEF Chain
            <7>3. Len(path) + 1 \in 1..Len(s)
              BY <1>2, <5>0, <6>2
            <7> QED BY <3>2, <5>0, <7>2, <7>3, ChainVisited
          <6> QED BY <1>2, <5>0, <6>1, <6>2
        <5> QED BY <5>0, <5>1, <5>2, <5>3, WaysPart DEF Inv, SortTypes
      <4> QED BY <1>1, <3>1, <4>1, PathIsRoute
    <3> QED BY <3>3, <3>4
  <2> QED BY <1>3, <2>1, <2>2
<1> QED BY <1>6, <1>7 DEF FixedInv

LEMMA FixedKept ==
  ASSUME FixedInv, UNCHANGED <<pipeline, visited, ordered>>
  PROVE  OrderFixed' /\ (path' = path => Ahead')
<1>1. /\ Declared' = Declared /\ \A s : Chain(s)' = Chain(s)
      /\ \A r, s : TakenBefore(r, s)' <=> TakenBefore(r, s)
  BY DEF Declared, Chain, DependsOn, TakenBefore, DeclaredBefore
<1>2. /\ \A q : Routes(q)' = Routes(q)
      /\ \A part : Needs(part)' = Needs(part)
  BY DEF Declared, DependsOn, Routes, Needs
<1>3. OrderFixed'
  BY <1>1, <1>2 DEF FixedInv, OrderFixed
<1>4. ASSUME path' = path
      PROVE  Ahead'
  <2>1. \A s : TakenBefore(s, path)' <=> TakenBefore(s, path)
    BY <1>4 DEF TakenBefore, DeclaredBefore
  <2> QED BY <1>1, <2>1 DEF FixedInv, Ahead
<1> QED BY <1>3, <1>4

LEMMA FixedStep ==
  ASSUME Inv, FixedInv, [Next]_vars
  PROVE  FixedInv'
<1>1. ASSUME NEW p \in Names, VisitDeclared(p)
      PROVE  FixedInv'
  <2>1. PICK first \in 1..Len(pipeline.declared) :
          /\ p = pipeline.declared[first]
          /\ \A j \in 1..(first - 1) : pipeline.declared[j] \in visited
    BY <1>1 DEF VisitDeclared, FirstUnvisited
  <2>2. path = <<>> /\ Len(path) = 0 /\ Enter(p) /\ ~Malformed
    BY <1>1 DEF VisitDeclared
  <2>3. ASSUME NEW q, DeclaredBefore(q, p)
        PROVE  q \in visited
    <3>1. PICK i \in 1..Len(pipeline.declared) :
            \E j \in 1..Len(pipeline.declared) :
              i < j /\ pipeline.declared[i] = q /\ pipeline.declared[j] = p
      BY <2>3 DEF DeclaredBefore
    <3>2. i < first
      BY <2>1, <2>2, <3>1 DEF Malformed
    <3> QED BY <2>1, <3>1, <3>2
  <2>4. Ahead'
    BY <2>2, <2>3, EnterAhead DEF FixedInv
  <2>5. UNCHANGED <<pipeline, visited, ordered>>
    BY <2>2 DEF Enter
  <2> QED BY <2>4, <2>5, FixedKept DEF FixedInv
<1>2. ASSUME NEW d \in Names, VisitDependency(d)
      PROVE  FixedInv'
  <2>1. /\ path # <<>> /\ Enter(d)
        /\ \A e \in DependsOn(Current) \ visited : d <= e
    BY <1>2 DEF VisitDependency, NextDependency, Pending
  <2>2. /\ Len(path) \in Nat /\ Len(path) >= 1 /\ Current = path[Len(path)]
    BY <2>1, FrontFacts DEF Inv, SortTypes, Current
  <2>3. ASSUME NEW s \in Seq(Declared), Chain(s), Len(path) < Len(s),
               \A j \in 1..Len(path) : s[j] = path[j],
               s[Len(path) + 1] < d
        PROVE  s[Len(path) + 1] \in visited
    <3>0. Len(s) \in Nat /\ d \in Nat
      BY OrchestratorAssumption
    <3>00. \A q \in Declared : q \in Nat
      BY Constants, OrchestratorAssumption DEF Inv, SortTypes
    <3>1. /\ Len(path) \in 1..(Len(s) - 1) /\ s[Len(path)] = Current
          /\ Len(path) + 1 \in 1..Len(s)
      BY <2>2, <2>3, <3>0
    <3>2. s[Len(path) + 1] \in DependsOn(Current)
      BY <2>3, <3>1 DEF Chain
    <3>3. s[Len(path) + 1] \in Declared
      BY <3>1
    <3> QED BY <2>1, <2>3, <3>0, <3>00, <3>2, <3>3
  <2>4. Ahead'
    BY <2>1, <2>3, EnterAhead DEF FixedInv
  <2>5. UNCHANGED <<pipeline, visited, ordered>>
    BY <2>1 DEF Enter
  <2> QED BY <2>4, <2>5, FixedKept DEF FixedInv
<1>3. CASE Leave
  BY <1>3, LeaveFixed
<1>4. ASSUME UNCHANGED <<pipeline, sortVars>>
      PROVE  FixedInv'
  BY <1>4, FixedKept DEF sortVars, FixedInv
<1>5. CASE \/ RefuseMalformed \/ \E d \in Names : RefuseCycle(d)
           \/ Sorted \/ Run \/ UNCHANGED vars
  BY <1>5, <1>4 DEF RefuseMalformed, RefuseCycle, Refuse, Sorted, Run,
     SkipPhase, StartPhase, EndPhase, SettleSuccess, SettleFailure, RunEnds, vars
<1> QED BY <1>1, <1>2, <1>3, <1>5 DEF Next, Sort, Terminated

\* Runs are reproducible: on whatever graph, which of two phases comes first
\* follows from what was declared and from the names, whether the sort is
\* done or still under way (topologicalOrder).
THEOREM OrderIsFixed == Spec => []OrderFixed
<1>1. Init => FixedInv
  <2> SUFFICES ASSUME Init PROVE FixedInv
    OBVIOUS
  <2>1. \A s : ~TakenBefore(s, path)
    BY DEF Init, TakenBefore
  <2> QED BY <2>1 DEF Init, FixedInv, Ahead, OrderFixed
<1>2. Inv /\ FixedInv /\ [Next]_vars => FixedInv'
  BY FixedStep
<1>3. FixedInv => OrderFixed
  BY DEF FixedInv
<1> QED BY <1>1, <1>2, <1>3, Invariance, PTL DEF Spec

-----------------------------------------------------------------------------
(* Checkpoints. *)

LEMMA WholeStep ==
  ASSUME Inv, CheckpointWhole, [Next]_vars
  PROVE  CheckpointWhole'
<1>a. /\ Len(ordered) \in Nat /\ position \in Nat /\ savedAt \in Nat
      /\ savedAt <= position /\ position <= Len(ordered) + 1
      /\ pc \in {"sorting", "between", "running"} => savedAt < position
      /\ pc \in {"sorting", "refused"} => savedAt = 0
      /\ pc \in {"running", "settling"} => HasNext
  BY DEF Inv, SortTypes, RunTypes, StageInv
<1>b. HasNext => \A i \in 1..Len(ordered) : i # position => ordered[i] # Phase
  BY PhaseFacts
<1>1. CASE Sort
  <2>1. savedAt = 0 /\ savedAt' = 0
    BY <1>1, <1>a DEF Sort, RefuseMalformed, VisitDeclared, VisitDependency,
       RefuseCycle, NextDependency, Leave, Sorted, Enter, Refuse, runVars
  <2> QED BY <2>1 DEF CheckpointWhole
<1>2. CASE SkipPhase \/ SettleFailure
  <2>1. /\ HasNext
        /\ board' = board \cup {Gap(Phase)}
        /\ UNCHANGED <<ordered, snapshot, savedAt>>
        /\ pc \in {"between", "settling"}
    BY <1>2, <1>a DEF SkipPhase, SettleFailure, sortVars
  <2>2. \A i \in 1..(savedAt - 1) : ordered[i] # Phase
    BY <2>1, <1>a, <1>b DEF HasNext
  <2>3. \A q : Work(q) # Gap(Phase) /\ (Gap(q) = Gap(Phase) => q = Phase)
    BY DEF Work, Gap
  <2> QED BY <2>1, <2>2, <2>3, <1>a DEF CheckpointWhole
<1>3. CASE EndPhase("ok") \/ EndPhase("failed")
  <2>1. /\ HasNext /\ pc = "running"
        /\ board' = board \cup {Work(Phase)}
        /\ UNCHANGED <<ordered, position>>
        /\ \/ snapshot' = board' /\ savedAt' = position
           \/ UNCHANGED <<snapshot, savedAt>>
    BY <1>3, <1>a DEF EndPhase, WriteCheckpoint, sortVars
  <2>2. CASE snapshot' = board'
    BY <2>1, <2>2 DEF CheckpointWhole
  <2>3. CASE UNCHANGED <<snapshot, savedAt>>
    <3>1. \A i \in 1..savedAt : ordered[i] # Phase
      BY <2>1, <1>a, <1>b DEF HasNext
    <3>2. \A q : Gap(q) # Work(Phase) /\ (Work(q) = Work(Phase) => q = Phase)
      BY DEF Work, Gap
    <3> QED BY <2>1, <2>3, <3>1, <3>2, <1>a DEF CheckpointWhole
  <2> QED BY <2>1, <2>2, <2>3
<1>4. CASE StartPhase \/ SettleSuccess \/ RunEnds \/ UNCHANGED vars
  <2>1. UNCHANGED <<ordered, board, snapshot, savedAt>>
    BY <1>4 DEF StartPhase, SettleSuccess, RunEnds, vars, sortVars, runVars
  <2> QED BY <2>1 DEF CheckpointWhole
<1> QED BY <1>1, <1>2, <1>3, <1>4 DEF Next, Run, Terminated

\* Every checkpoint that is written holds the work of all the phases before it,
\* although earlier writes may have failed (writeCheckpoint).
THEOREM CheckpointsWhole == Spec => []CheckpointWhole
<1>1. Init => CheckpointWhole
  BY DEF Init, CheckpointWhole
<1>2. Inv /\ CheckpointWhole /\ [Next]_vars => CheckpointWhole'
  BY WholeStep
<1> QED BY <1>1, <1>2, Invariance, PTL DEF Spec

-----------------------------------------------------------------------------
(* The contract. *)

LEMMA SamePhases ==
  /\ Dag!Phases = Declared
  /\ \A q : Dag!Needed(q) = DependsOn(q)
  /\ Dag!Malformed(pipeline) = Malformed
  BY DEF Dag!Phases, Dag!Declared, Dag!Needed, Dag!Malformed, Malformed, Declared

\* What has been put in order is a DAG.
LEMMA RunIsValid ==
  ASSUME Inv, pc \in Running
  PROVE  Dag!Valid(pipeline)
<1>1. ~Malformed /\ visited = Declared
  BY DEF Inv, StageInv, PathInv
<1>2. ~Dag!Cyclic(pipeline)
  BY <1>1, SamePhases DEF Inv, NoCycle, Dag!Cyclic, Dag!Phases
<1> QED BY <1>1, <1>2, SamePhases DEF Dag!Valid

\* Between two phases none is running and no required one has failed.
LEMMA MayGoOn ==
  ASSUME Inv, pc = "between"
  PROVE  Dag!MayGoOn
<1>1. \A q \in Declared :
        status[q] # "running" /\ (q \notin pipeline.optional => status[q] # "failed")
  <2> SUFFICES ASSUME NEW q \in Declared
               PROVE  /\ status[q] # "running"
                      /\ q \notin pipeline.optional => status[q] # "failed"
    OBVIOUS
  <2>1. PICK i \in 1..Len(ordered) : ordered[i] = q
    BY DEF Inv, StageInv, OrderInv, Running
  <2>2. i \in Nat /\ position \in Nat
    BY DEF Inv, RunTypes
  <2> QED BY <2>1, <2>2 DEF Inv, RunInv, Running
<1>2. Dag!Valid(pipeline)
  BY RunIsValid DEF Running
<1> QED BY <1>1, <1>2, SamePhases
        DEF Dag!MayGoOn, Dag!Quiet, Dag!Required, Ended

\* A cycle closed by the walk is a cycle of the graph.
LEMMA WalkedCycle ==
  ASSUME Inv, NEW d \in Names, RefuseCycle(d)
  PROVE  Dag!Cyclic(pipeline)
<1>0. /\ path # <<>> /\ path \in Seq(Names) /\ Len(path) \in Nat
      /\ d \in DependsOn(Current)
  BY DEF Inv, SortTypes, RefuseCycle, NextDependency, Pending
<1>1. PICK k \in 1..Len(path) : path[k] = d
  BY DEF RefuseCycle, OnPath
<1> DEFINE part == {path[i] : i \in k..Len(path)}
<1>2. part \in SUBSET Declared
  BY <1>0, <1>1 DEF Inv, PathInv
<1>3. d \in part
  BY <1>0, <1>1
<1>4. ASSUME NEW q \in part
      PROVE  DependsOn(q) \cap part # {}
  <2>1. PICK i \in k..Len(path) : path[i] = q
    BY <1>4
  <2>2. CASE i = Len(path)
    BY <2>1, <2>2, <1>0, <1>3 DEF Current
  <2>3. CASE i # Len(path)
    <3>1. i \in 1..(Len(path) - 1) /\ i + 1 \in k..Len(path)
      BY <2>3, <1>0, <1>1
    <3>2. path[i + 1] \in DependsOn(q)
      BY <2>1, <3>1 DEF Inv, PathInv
    <3> QED BY <3>1, <3>2
  <2> QED BY <2>2, <2>3
<1> HIDE DEF part
<1>5. part # {} /\ \A q \in part : DependsOn(q) \cap part # {}
  BY <1>3, <1>4
<1> QED BY <1>2, <1>5, SamePhases DEF Dag!Cyclic, Dag!Phases

LEMMA DagStep ==
  ASSUME Inv, [Next]_vars
  PROVE  [Dag!Next]_(Dag!vars)
<1> USE SamePhases
<1>1. CASE Sort
  <2>1. ASSUME Refuse, pc = "sorting", ~Dag!Valid(pipeline)
        PROVE  Dag!Refuse
    <3>1. \A q \in Declared : status[q] = "waiting"
      BY <2>1, Constants DEF Inv, StageInv, SortTypes
    <3> QED BY <2>1, <3>1 DEF Refuse, Dag!Refuse, Dag!End, Ended, runVars
  <2>2. CASE RefuseMalformed
    BY <2>1, <2>2 DEF RefuseMalformed, Dag!Valid, Dag!Next
  <2>3. ASSUME NEW d \in Names, RefuseCycle(d)
        PROVE  Dag!Next
    BY <2>1, <2>3, WalkedCycle
       DEF RefuseCycle, NextDependency, Dag!Valid, Dag!Next
  <2>4. CASE \/ \E q \in Names : VisitDeclared(q) \/ VisitDependency(q)
             \/ Leave \/ Sorted
    BY <2>4 DEF VisitDeclared, VisitDependency, NextDependency, Leave, Sorted,
       Enter, runVars, Dag!vars, Ended
  <2> QED BY <1>1, <2>2, <2>3, <2>4 DEF Sort
<1>2. CASE SkipPhase
  <2>1. /\ pc = "between" /\ pc' = "between" /\ HasNext
        /\ status' = [status EXCEPT ![Phase] = "skipped"]
        /\ UNCHANGED pipeline /\ Unmet(Phase)
    BY <1>2 DEF SkipPhase, Advance
  <2>2. /\ Phase \in visited /\ position \in 1..Len(ordered)
        /\ Len(ordered) \in Nat
    BY <2>1, PhaseFacts
  <2>3. Phase \in Declared /\ status[Phase] = "waiting"
    BY <2>1, <2>2 DEF Inv, PathInv, RunInv, Running, Phase
  <2>4. PICK d \in DependsOn(Phase) : d \notin completed
    BY <2>1 DEF Unmet
  <2>5. PICK j \in 1..(position - 1) : ordered[j] = d
    BY <2>2, <2>4 DEF Inv, OrderInv, Phase
  <2>6. status[d] \in {"failed", "skipped"}
    BY <2>1, <2>2, <2>4, <2>5 DEF Inv, RunInv, Running
  <2>7. Dag!Skip(Phase)
    BY <2>1, <2>3, <2>6, MayGoOn DEF Dag!Skip, Dag!Become, Ended
  <2> QED BY <2>3, <2>7 DEF Dag!Next
<1>3. CASE StartPhase
  <2>1. /\ pc = "between" /\ pc' = "running" /\ HasNext
        /\ status' = [status EXCEPT ![Phase] = "running"]
        /\ UNCHANGED pipeline /\ ~Unmet(Phase)
    BY <1>3 DEF StartPhase
  <2>2. /\ Phase \in visited /\ position \in 1..Len(ordered)
    BY <2>1, PhaseFacts
  <2>3. Phase \in Declared /\ status[Phase] = "waiting"
    BY <2>1, <2>2 DEF Inv, PathInv, RunInv, Running, Phase
  <2>4. \A d \in DependsOn(Phase) : status[d] = "ok"
    BY <2>1 DEF Inv, RunInv, Running, Unmet
  <2>5. Dag!Start(Phase)
    BY <2>1, <2>3, <2>4, MayGoOn DEF Dag!Start, Dag!Become, Ended
  <2> QED BY <2>3, <2>5 DEF Dag!Next
<1>4. ASSUME NEW result \in {"ok", "failed"}, EndPhase(result)
      PROVE  Dag!Next
  <2>1. /\ pc = "running" /\ pc' = "settling" /\ HasNext
        /\ status' = [status EXCEPT ![Phase] = result]
        /\ UNCHANGED pipeline
    BY <1>4 DEF EndPhase, Inv, RunTypes
  <2>2. /\ Phase \in visited /\ position \in 1..Len(ordered)
    BY <2>1, PhaseFacts
  <2>3. Phase \in Declared /\ status[Phase] = "running"
    BY <2>1, <2>2 DEF Inv, PathInv, RunInv, Running, Phase
  <2>4. Dag!Finish(Phase)
    BY <2>1, <2>3 DEF Dag!Finish, Dag!Become, Ended
  <2> QED BY <2>3, <2>4 DEF Dag!Next
<1>5. CASE SettleSuccess
  BY <1>5 DEF SettleSuccess, Advance, Dag!vars, Ended
<1>6. CASE SettleFailure
  <2>1. /\ pc = "settling" /\ HasNext /\ status[Phase] = "failed"
        /\ UNCHANGED <<pipeline, status>>
        /\ \/ pc' = "between"
           \/ Phase \notin pipeline.optional /\ pc' = "aborted"
    BY <1>6 DEF SettleFailure, Advance, Inv, RunTypes
  <2>2. CASE pc' = "between"
    BY <2>1, <2>2 DEF Dag!vars, Ended
  <2>3. CASE Phase \notin pipeline.optional /\ pc' = "aborted"
    <3>1. Phase \in Declared
      BY <2>1, PhaseFacts DEF Inv, PathInv
    <3>2. \A q \in Declared : status[q] # "running"
      <4> SUFFICES ASSUME NEW q \in Declared PROVE status[q] # "running"
        OBVIOUS
      <4>1. PICK i \in 1..Len(ordered) : ordered[i] = q
        BY <2>1 DEF Inv, StageInv, OrderInv, Running
      <4>2. i \in Nat /\ position \in Nat
        BY DEF Inv, RunTypes
      <4> QED BY <4>1, <4>2, <2>1 DEF Inv, RunInv, Running
    <3>3. Dag!Abort
      BY <2>1, <2>3, <3>1, <3>2
         DEF Dag!Abort, Dag!Quiet, Dag!Required, Dag!End, Ended
    <3> QED BY <3>3 DEF Dag!Next
  <2> QED BY <2>1, <2>2, <2>3
<1>7. CASE RunEnds
  <2>1. /\ pc = "between" /\ pc' = "done" /\ ~HasNext
        /\ UNCHANGED <<pipeline, status>>
    BY <1>7 DEF RunEnds, runVars
  <2>2. \A q \in Declared : status[q] \in {"ok", "failed", "skipped"}
    <3> SUFFICES ASSUME NEW q \in Declared
                 PROVE  status[q] \in {"ok", "failed", "skipped"}
      OBVIOUS
    <3>1. PICK i \in 1..Len(ordered) : ordered[i] = q
      BY <2>1 DEF Inv, StageInv, OrderInv, Running
    <3>2. i < position
      BY <2>1 DEF Inv, RunTypes, SortTypes, HasNext
    <3> QED BY <3>1, <3>2, <2>1 DEF Inv, RunInv, Running
  <2>3. Dag!Complete
    BY <2>1, <2>2, MayGoOn DEF Dag!Complete, Dag!End, Ended
  <2> QED BY <2>3 DEF Dag!Next
<1>8. CASE UNCHANGED vars
  BY <1>8 DEF vars, runVars, Dag!vars
<1> QED BY <1>1, <1>2, <1>3, <1>4, <1>5, <1>6, <1>7, <1>8
        DEF Next, Run, Terminated

\* The orchestrator keeps the contract of PhaseDag: what is no DAG is refused,
\* what is one is not; a phase begins after all it depends on has succeeded, is
\* skipped only when that cannot happen any more, and a required failure ends
\* the run (Orchestrator.Run).
THEOREM OrchestratorKeepsDag == Spec => KeepsDag
<1>1. Init => Dag!Init
  BY DEF Init, Dag!Init, Ended
<1>2. Inv /\ [Next]_vars => [Dag!Next]_(Dag!vars)
  BY DagStep
<1> QED BY <1>1, <1>2, Invariance, PTL DEF Spec, KeepsDag, Dag!Spec
=============================================================================
