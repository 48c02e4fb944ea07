-------------------------- MODULE ServedRunProofs ---------------------------
(***************************************************************************)
(* A run of the pipeline, from the listing of the repository to the plan   *)
(* that is rendered, and the server that a caller polls for it; for any    *)
(* repository, components, scores, tasks, lines and phases.                *)
(*                                                                         *)
(* The listing: the directories are a tree, so each is met once, and what  *)
(* is neither listed, waiting nor skipped is below something that is.      *)
(* The register: a level is given by place and mended from neighbour to    *)
(* neighbour; by the least place that is wrong, none is.  The phases: they *)
(* take their turns, and what each leaves on the blackboard is there until *)
(* the end.  From these follow what the plan says, the contract of module  *)
(* PhaseDag, and that a run is what module TaskServer takes it for, whose  *)
(* invariant follows a task through its goroutine: what the store says of  *)
(* it, how far its run is, and what was last told of it agree.             *)
(***************************************************************************)
EXTENDS Pipeline, TaskServer, FiniteSetTheorems, TLAPS
-----------------------------------------------------------------------------
(* The walk through the directories. *)

Files(dirs) == UNION {FilesIn[d] : d \in dirs}

Waiting == {pending[i] : i \in 1..Len(pending)}

Known(listed) == listed \cup skipped \cup Waiting

\* The directories the walk has listed, and how the others it knows of came to
\* be known: the listed, the skipped and the pending are told apart, the
\* children of what was listed are known, and nothing else is.
WalkedSoFar(listed) ==
  /\ listed \subseteq Directories
  /\ entries = Files(listed)
  /\ listed \cap skipped = {}
  /\ (listed \cup skipped) \cap Waiting = {}
  /\ Root \in listed \cup Waiting
  /\ \A d \in listed : Children(d) \subseteq Known(listed)
  /\ \A c \in Known(listed) \ {Root} : \E d \in listed : c \in Children(d)

WalkInv ==
  /\ pending \in Seq(Directories) /\ skipped \subseteq Directories
  /\ \A i, j \in 1..Len(pending) : pending[i] = pending[j] => i = j
  /\ \E listed \in SUBSET Directories : WalkedSoFar(listed)
  /\ unlisted = {}
  /\ maxFiles > 0 => Cardinality(entries) <= maxFiles

TreeInv ==
  /\ maxFiles \in Nat
  /\ listing \in {"unasked", "negotiated", "connected", "toolless"} =>
       entries = {} /\ skipped = {} /\ unlisted = {}
  /\ listing = "walking" => WalkInv
  /\ ListingHonest

LEMMA TreeFacts ==
  /\ \A d \in Directories :
       /\ Subdirs[d] \in Seq(Directories) /\ Len(Subdirs[d]) \in Nat
       /\ Children(d) \subseteq Directories \ {Root}
       /\ \A i, j \in 1..Len(Subdirs[d]) : Subdirs[d][i] = Subdirs[d][j] => i = j
  /\ \A d, e \in Directories : Children(d) \cap Children(e) # {} => d = e
<1>1. ASSUME NEW d \in Directories
      PROVE  /\ Subdirs[d] \in Seq(Directories) /\ Len(Subdirs[d]) \in Nat
             /\ Children(d) \subseteq Directories \ {Root}
             /\ \A i, j \in 1..Len(Subdirs[d]) : Subdirs[d][i] = Subdirs[d][j] => i = j
  <2>1. Subdirs[d] \in Seq(Directories \ {Root})
    BY SourceTreeAssumption
  <2>2. \A i \in 1..Len(Subdirs[d]) : Subdirs[d][i] \in Directories \ {Root}
    BY <2>1
  <2>3. Len(Subdirs[d]) \in Nat /\ Subdirs[d] \in Seq(Directories)
    BY <2>1, <2>2
  <2> QED BY <2>2, <2>3, SourceTreeAssumption DEF Children
<1>2. ASSUME NEW d \in Directories, NEW e \in Directories,
             NEW c \in Children(d) \cap Children(e)
      PROVE  d = e
  <2>1. PICK i \in 1..Len(Subdirs[d]) : Subdirs[d][i] = c
    BY DEF Children
  <2>2. PICK j \in 1..Len(Subdirs[e]) : Subdirs[e][j] = c
    BY DEF Children
  <2> QED BY <2>1, <2>2, SourceTreeAssumption
<1> QED BY <1>1, <1>2

LEMMA QueueFacts ==
  ASSUME NEW S, NEW s \in Seq(S), s # <<>>, NEW t \in Seq(S)
  PROVE  /\ Len(s) \in Nat /\ Len(s) >= 1 /\ Len(t) \in Nat
         /\ Head(s) = s[1] /\ Head(s) \in S
         /\ Tail(s) \in Seq(S) /\ Len(Tail(s)) = Len(s) - 1
         /\ \A i \in 1..(Len(s) - 1) : Tail(s)[i] = s[i + 1]
         /\ Tail(s) \o t \in Seq(S) /\ Len(Tail(s) \o t) = Len(s) - 1 + Len(t)
         /\ \A i \in 1..(Len(s) - 1) : (Tail(s) \o t)[i] = s[i + 1]
         /\ \A i \in 1..Len(t) : (Tail(s) \o t)[Len(s) - 1 + i] = t[i]
<1>1. /\ Len(s) \in Nat /\ Len(s) >= 1 /\ Len(t) \in Nat
      /\ Head(s) = s[1] /\ Head(s) \in S
      /\ Tail(s) \in Seq(S) /\ Len(Tail(s)) = Len(s) - 1
      /\ \A i \in 1..(Len(s) - 1) : Tail(s)[i] = s[i + 1]
  OBVIOUS
<1> DEFINE u == Tail(s)
<1>2. u \in Seq(S) /\ Len(u) = Len(s) - 1 /\ Len(u) \in Nat
  BY <1>1
<1>3. \A i \in 1..(Len(s) - 1) : u[i] = s[i + 1]
  BY <1>1
<1> HIDE DEF u
<1>4. /\ u \o t \in Seq(S) /\ Len(u \o t) = Len(u) + Len(t)
      /\ \A i \in 1..Len(u) : (u \o t)[i] = u[i]
      /\ \A i \in 1..Len(t) : (u \o t)[Len(u) + i] = t[i]
  BY <1>1, <1>2
<1>5. /\ u \o t \in Seq(S) /\ Len(u \o t) = Len(s) - 1 + Len(t)
      /\ \A i \in 1..(Len(s) - 1) : (u \o t)[i] = s[i + 1]
      /\ \A i \in 1..Len(t) : (u \o t)[Len(s) - 1 + i] = t[i]
  BY <1>2, <1>3, <1>4
<1> QED BY <1>1, <1>5 DEF u

\* What a walk that is over has not listed is what lies below what it skipped.
LEMMA UnlistedIsBelow ==
  ASSUME NEW listed, WalkedSoFar(listed), pending = <<>>,
         skipped \subseteq Directories
  PROVE  Directories \ listed = Below(skipped)
<1>1. /\ listed \subseteq Directories /\ listed \cap skipped = {}
      /\ Root \in listed
      /\ \A d \in listed : Children(d) \subseteq listed \cup skipped
      /\ \A c \in listed \ {Root} : \E d \in listed : c \in Children(d)
  BY DEF WalkedSoFar, Known, Waiting
<1>2. ASSUME NEW d \in Directories, d \in listed
      PROVE  d \notin Below(skipped)
  <2> DEFINE rest == Directories \ listed
  <2>1. rest \in SUBSET Directories /\ skipped \subseteq rest /\ d \notin rest
    BY <1>1, <1>2
  <2>2. \A e \in rest : Children(e) \subseteq rest
    BY <1>1, TreeFacts
  <2> HIDE DEF rest
  <2> QED BY <2>1, <2>2 DEF Below
<1>3. ASSUME NEW d \in Directories, d \notin listed
      PROVE  d \in Below(skipped)
  <2> SUFFICES ASSUME NEW closed \in SUBSET Directories, skipped \subseteq closed,
                      \A e \in closed : Children(e) \subseteq closed
               PROVE  d \in closed
    BY DEF Below
  <2> DEFINE both == listed \cup closed
  <2>1. /\ both \in SUBSET Directories /\ {Root} \subseteq both
        /\ \A e \in both : Children(e) \subseteq both
    BY <1>1
  <2> HIDE DEF both
  <2>2. d \in both
    BY <2>1, SourceTreeAssumption DEF Below
  <2> QED BY <2>2, <1>3 DEF both
<1> QED BY <1>1, <1>2, <1>3 DEF Below

LEMMA NothingSkipped ==
  Below({}) = {}
<1> DEFINE none == {}
<1>1. none \in SUBSET Directories /\ \A e \in none : Children(e) \subseteq none
  OBVIOUS
<1> QED BY <1>1 DEF Below

LEMMA FilesFinite ==
  ASSUME NEW files, files \subseteq AllFiles
  PROVE  IsFiniteSet(files) /\ Cardinality(files) \in Nat
  BY FS_Subset, FS_CardinalityType, SourceTreeAssumption

LEMMA AcceptHonest ==
  ASSUME TreeInv, skipped = {}, UNCHANGED <<maxFiles, skipped>>,
         NEW some \in {{}, Ignored, Children(Root)}, AcceptWithout(some)
  PROVE  TreeInv'
<1> DEFINE files == Without(some)
<1>1. /\ entries' = files /\ unlisted' = some
      /\ listing' = IF maxFiles > 0 /\ Cardinality(files) > maxFiles THEN "refused" ELSE "listed"
  BY DEF AcceptWithout, Accept, Become, TooMany
<1>2. files \subseteq AllFiles
  BY DEF Without
<1>3. Cardinality(files) \in Nat
  BY <1>2, FilesFinite
<1>4. Without(skipped \cup unlisted)' = files
  <2>1. skipped' \cup unlisted' = some
    BY <1>1
  <2> QED BY <2>1 DEF Without, Below
<1> HIDE DEF files
<1>5. ListingHonest'
  BY <1>1, <1>3, <1>4 DEF ListingHonest, TreeInv
<1> QED BY <1>1, <1>5 DEF TreeInv

LEMMA ListDirectoryKeeps ==
  ASSUME TreeInv, ListDirectory, UNCHANGED maxFiles
  PROVE  TreeInv'
<1>1. /\ listing = "walking" /\ pending # <<>>
      /\ pending' = Tail(pending) \o Subdirs[Head(pending)]
      /\ entries' = entries \cup FilesIn[Head(pending)]
      /\ listing' = IF maxFiles > 0 /\ Cardinality(entries') > maxFiles
                      THEN "refused" ELSE "walking"
      /\ UNCHANGED <<skipped, unlisted>>
  BY DEF ListDirectory, Visit, Become, TooMany
<1>2. WalkInv /\ maxFiles \in Nat
  BY <1>1 DEF TreeInv
<1>3. PICK listed \in SUBSET Directories : WalkedSoFar(listed)
  BY <1>2 DEF WalkInv
<1>4. PICK d \in Directories :
        /\ d = Head(pending) /\ d = pending[1] /\ d \in Waiting
        /\ Len(pending) \in Nat /\ Len(pending) >= 1
  BY <1>1, <1>2, QueueFacts DEF WalkInv, Waiting
<1> DEFINE n == Len(pending) - 1
<1>5. /\ Subdirs[d] \in Seq(Directories) /\ Len(Subdirs[d]) \in Nat
      /\ Children(d) \subseteq Directories \ {Root}
      /\ \A i, j \in 1..Len(Subdirs[d]) : Subdirs[d][i] = Subdirs[d][j] => i = j
  BY <1>4, TreeFacts
<1>6. /\ pending' \in Seq(Directories) /\ Len(pending') = n + Len(Subdirs[d])
      /\ \A i \in 1..n : pending'[i] = pending[i + 1]
      /\ \A i \in 1..Len(Subdirs[d]) : pending'[n + i] = Subdirs[d][i]
  BY <1>1, <1>2, <1>4, <1>5, QueueFacts DEF WalkInv
<1>7. n \in Nat /\ Len(pending) = n + 1
  BY <1>4
<1> HIDE DEF n
<1>8. \A i, j \in 1..Len(pending) : pending[i] = pending[j] => i = j
  BY <1>2 DEF WalkInv
<1>9. \A i \in 1..n : pending[i + 1] # d
  BY <1>4, <1>7, <1>8
\* The children are new.
<1>10. Children(d) \cap Known(listed) = {}
  <2> SUFFICES ASSUME NEW c \in Children(d), c \in Known(listed)
               PROVE  FALSE
    OBVIOUS
  <2>1. c # Root
    BY <1>5
  <2>2. PICK e \in listed : c \in Children(e)
    BY <2>1, <1>3 DEF WalkedSoFar
  <2>3. e = d
    BY <2>2, <1>3, <1>4, TreeFacts
  <2> QED BY <2>2, <2>3, <1>3, <1>4 DEF WalkedSoFar
<1>11. Waiting' = (Waiting \ {d}) \cup Children(d)
  <2>1. ASSUME NEW i \in 1..Len(pending')
        PROVE  pending'[i] \in (Waiting \ {d}) \cup Children(d)
    <3>1. CASE i \in 1..n
      <4>1. i + 1 \in 1..Len(pending)
        BY <3>1, <1>7
      <4> QED BY <3>1, <4>1, <1>6, <1>9 DEF Waiting
    <3>2. CASE i \notin 1..n
      <4>1. i - n \in 1..Len(Subdirs[d]) /\ i = n + (i - n)
        BY <3>2, <1>5, <1>6, <1>7
      <4>2. pending'[i] = Subdirs[d][i - n]
        BY <4>1, <1>6
      <4> QED BY <4>1, <4>2 DEF Children
    <3> QED BY <3>1, <3>2
  <2>2. ASSUME NEW c \in Waiting \ {d}
        PROVE  \E i \in 1..Len(pending') : pending'[i] = c
    <3>1. PICK i \in 1..Len(pending) : pending[i] = c
      BY DEF Waiting
    <3>2. i # 1
      BY <3>1, <1>4
    <3>3. i - 1 \in 1..n /\ (i - 1) + 1 = i
      BY <3>1, <3>2, <1>7
    <3>4. pending'[i - 1] = c /\ i - 1 \in 1..Len(pending')
      BY <3>1, <3>3, <1>5, <1>6, <1>7
    <3> QED BY <3>4
  <2>3. ASSUME NEW c \in Children(d)
        PROVE  \E i \in 1..Len(pending') : pending'[i] = c
    <3>1. PICK i \in 1..Len(Subdirs[d]) : Subdirs[d][i] = c
      BY DEF Children
    <3>2. pending'[n + i] = c /\ n + i \in 1..Len(pending')
      BY <3>1, <1>5, <1>6, <1>7
    <3> QED BY <3>2
  <2> QED BY <2>1, <2>2, <2>3 DEF Waiting
<1>12. \A i, j \in 1..Len(pending') : pending'[i] = pending'[j] => i = j
  <2>1. ASSUME NEW i \in 1..Len(pending'), i \notin 1..n
        PROVE  /\ i - n \in 1..Len(Subdirs[d])
               /\ pending'[i] = Subdirs[d][i - n] /\ pending'[i] \in Children(d)
    <3>1. i - n \in 1..Len(Subdirs[d]) /\ i = n + (i - n)
      BY <2>1, <1>5, <1>6, <1>7
    <3>2. pending'[i] = Subdirs[d][i - n]
      BY <3>1, <1>6
    <3> QED BY <3>1, <3>2 DEF Children
  <2>2. ASSUME NEW i \in 1..n
        PROVE  pending'[i] = pending[i + 1] /\ i + 1 \in 1..Len(pending)
               /\ pending'[i] \in Waiting
    BY <1>6, <1>7 DEF Waiting
  <2> SUFFICES ASSUME NEW i \in 1..Len(pending'), NEW j \in 1..Len(pending'),
                      pending'[i] = pending'[j]
               PROVE  i = j
    OBVIOUS
  <2>3. i \in 1..n <=> j \in 1..n
    BY <2>1, <2>2, <1>10 DEF Known
  <2>4. CASE i \in 1..n
    <3>1. i + 1 = j + 1
      BY <2>2, <2>3, <2>4, <1>8
    <3> QED BY <3>1
  <2>5. CASE i \notin 1..n
    <3>1. i - n = j - n
      BY <2>1, <2>3, <2>5, <1>5
    <3> QED BY <3>1, <1>7
  <2> QED BY <2>4, <2>5
<1>13. WalkedSoFar(listed \cup {d})'
  <2>1. /\ listed \subseteq Directories /\ entries = Files(listed)
        /\ listed \cap skipped = {}
        /\ (listed \cup skipped) \cap Waiting = {}
        /\ Root \in listed \cup Waiting
        /\ \A e \in listed : Children(e) \subseteq Known(listed)
        /\ \A c \in Known(listed) \ {Root} : \E e \in listed : c \in Children(e)
    BY <1>3 DEF WalkedSoFar
  <2>2. Known(listed \cup {d})' = Known(listed) \cup Children(d)
    BY <1>1, <1>4, <1>11 DEF Known
  <2>3. entries' = Files(listed \cup {d})
    BY <1>1, <1>4, <2>1 DEF Files
  <2>4. \A c \in (Known(listed) \cup Children(d)) \ {Root} :
          \E e \in listed \cup {d} : c \in Children(e)
    BY <2>1
  <2>5. \A e \in listed \cup {d} : Children(e) \subseteq Known(listed) \cup Children(d)
    BY <2>1
  <2>6. /\ (listed \cup {d}) \cap skipped = {}
        /\ (listed \cup {d} \cup skipped) \cap Waiting' = {}
        /\ Root \in listed \cup {d} \cup Waiting'
    BY <2>1, <1>4, <1>10, <1>11 DEF Known
  <2> QED BY <1>1, <1>4, <2>1, <2>2, <2>3, <2>4, <2>5, <2>6 DEF WalkedSoFar, Files, Children
<1>14. listing' = "walking" => WalkInv'
  <2>1. entries' \subseteq AllFiles
    BY <1>1, <1>3, <1>4 DEF WalkedSoFar, Files, AllFiles
  <2>2. Cardinality(entries') \in Nat
    BY <2>1, FilesFinite
  <2>3. listing' = "walking" => (maxFiles > 0 => Cardinality(entries') <= maxFiles)
    BY <1>1, <1>2, <2>2
  <2>4. listed \cup {d} \in SUBSET Directories
    BY <1>3, <1>4
  <2> QED BY <1>1, <1>2, <1>6, <1>12, <1>13, <2>3, <2>4 DEF WalkInv
<1> QED BY <1>1, <1>2, <1>14 DEF TreeInv, ListingHonest

LEMMA DirectoryFailsKeeps ==
  ASSUME TreeInv, DirectoryFails, UNCHANGED maxFiles
  PROVE  TreeInv'
<1> DEFINE d == Head(pending)
<1>1. /\ listing = "walking" /\ pending # <<>>
      /\ pending' = Tail(pending)
      /\ \/ listing' = "refused"
         \/ d # Root /\ skipped' = skipped \cup {d} /\ listing' = "walking"
      /\ UNCHANGED <<entries, unlisted>>
  BY DEF DirectoryFails, Visit, Become, Skip
<1>2. CASE listing' = "refused"
  BY <1>1, <1>2 DEF TreeInv, ListingHonest
<1>3. CASE d # Root /\ skipped' = skipped \cup {d} /\ listing' = "walking"
  <2>1. WalkInv /\ maxFiles \in Nat
    BY <1>1 DEF TreeInv
  <2>2. PICK listed \in SUBSET Directories : WalkedSoFar(listed)
    BY <2>1 DEF WalkInv
  <2>3. /\ d \in Directories /\ d = pending[1] /\ d \in Waiting
        /\ Len(pending) \in Nat /\ Len(pending) >= 1
        /\ pending' \in Seq(Directories) /\ Len(pending') = Len(pending) - 1
        /\ \A i \in 1..(Len(pending) - 1) : pending'[i] = pending[i + 1]
    BY <1>1, <2>1, QueueFacts DEF WalkInv, Waiting
  <2>4. \A i, j \in 1..Len(pending) : pending[i] = pending[j] => i = j
    BY <2>1 DEF WalkInv
  <2> HIDE DEF d
  <2>5. \A i, j \in 1..Len(pending') : pending'[i] = pending'[j] => i = j
    <3> SUFFICES ASSUME NEW i \in 1..Len(pending'), NEW j \in 1..Len(pending'),
                        pending'[i] = pending'[j]
                 PROVE  i = j
      OBVIOUS
    <3>1. i + 1 \in 1..Len(pending) /\ j + 1 \in 1..Len(pending)
          /\ pending[i + 1] = pending[j + 1]
      BY <2>3
    <3>2. i + 1 = j + 1
      BY <3>1, <2>4
    <3> QED BY <3>2
  <2>6. Waiting' = Waiting \ {d}
    <3>1. ASSUME NEW i \in 1..Len(pending')
          PROVE  pending'[i] \in Waiting \ {d}
      <4>1. i + 1 \in 1..Len(pending) /\ i + 1 # 1 /\ pending'[i] = pending[i + 1]
        BY <2>3
      <4> QED BY <4>1, <2>3, <2>4 DEF Waiting
    <3>2. ASSUME NEW c \in Waiting \ {d}
          PROVE  \E i \in 1..Len(pending') : pending'[i] = c
      <4>1. PICK i \in 1..Len(pending) : pending[i] = c
        BY DEF Waiting
      <4>2. i # 1
        BY <4>1, <2>3
      <4>3. i - 1 \in 1..Len(pending') /\ pending'[i - 1] = c
        BY <4>1, <4>2, <2>3
      <4> QED BY <4>3
    <3> QED BY <3>1, <3>2 DEF Waiting
  <2>7. Known(listed)' = Known(listed)
    BY <1>3, <2>3, <2>6 DEF Known
  <2>8. WalkedSoFar(listed)'
    BY <1>1, <1>3, <2>2, <2>3, <2>6, <2>7 DEF WalkedSoFar, Files, Children
  <2>9. WalkInv'
    BY <1>1, <1>3, <2>1, <2>2, <2>3, <2>5, <2>8 DEF WalkInv
  <2> QED BY <1>3, <2>1, <2>9 DEF TreeInv, ListingHonest
<1> QED BY <1>1, <1>2, <1>3

LEMMA WalkEndsHonest ==
  ASSUME TreeInv, WalkEnds, UNCHANGED maxFiles
  PROVE  TreeInv'
<1>1. /\ listing = "walking" /\ pending = <<>>
      /\ listing' \in {"refused", "listed"}
      /\ UNCHANGED <<pending, entries, skipped, unlisted>>
  BY DEF WalkEnds, Become
<1>2. WalkInv /\ maxFiles \in Nat
  BY <1>1 DEF TreeInv
<1>3. PICK listed \in SUBSET Directories : WalkedSoFar(listed)
  BY <1>2 DEF WalkInv
<1>4. Directories \ listed = Below(skipped)
  BY <1>1, <1>2, <1>3, UnlistedIsBelow DEF WalkInv
<1>5. entries = Files(listed)
  BY <1>3 DEF WalkedSoFar
<1>6. Files(listed) = AllFiles \ UNION {FilesIn[d] : d \in Directories \ listed}
  <2>1. ASSUME NEW d \in listed, NEW f \in FilesIn[d],
               NEW e \in Directories \ listed
        PROVE  f \notin FilesIn[e]
    BY SourceTreeAssumption
  <2> QED BY <2>1 DEF Files, AllFiles
<1>7. /\ entries = Without(skipped) /\ skipped \cup unlisted = skipped /\ unlisted = {}
      /\ maxFiles > 0 => Cardinality(entries) <= maxFiles
  BY <1>2, <1>4, <1>5, <1>6 DEF WalkInv, Without
<1>8. ListingHonest'
  <2>1. Without(skipped \cup unlisted)' = Without(skipped)
    BY <1>1, <1>7 DEF Without, Below
  <2> QED BY <1>1, <1>7, <2>1 DEF ListingHonest
<1> QED BY <1>1, <1>2, <1>8 DEF TreeInv

LEMMA StartWalkKeeps ==
  ASSUME TreeInv, StartWalk, entries = {}, skipped = {}, unlisted = {},
         UNCHANGED maxFiles
  PROVE  TreeInv'
<1>1. /\ listing' = "walking" /\ pending' = <<Root>>
      /\ entries' = {} /\ skipped' = {} /\ unlisted' = {} /\ maxFiles' \in Nat
  BY DEF StartWalk, Become, TreeInv
<1>2. Root \in Directories
  BY SourceTreeAssumption
<1>3. Waiting' = {Root}
  BY <1>1 DEF Waiting
<1>4. WalkedSoFar({})'
  BY <1>1, <1>3 DEF WalkedSoFar, Known, Files
<1>5. maxFiles' > 0 => Cardinality(entries') <= maxFiles'
  BY <1>1, FS_EmptySet
<1>6. WalkInv'
  BY <1>1, <1>2, <1>4, <1>5 DEF WalkInv
<1> QED BY <1>1, <1>6 DEF TreeInv, ListingHonest

LEMMA ListTreeKeeps ==
  ASSUME TreeInv, ListTree
  PROVE  TreeInv'
<1>0. UNCHANGED maxFiles
  BY DEF ListTree
<1>1. ASSUME listing' = "refused"
      PROVE  TreeInv'
  BY <1>0, <1>1 DEF TreeInv, ListingHonest
<1>2. CASE ListLocal
  <2>1. skipped = {} /\ UNCHANGED skipped
    BY <1>2 DEF ListLocal, TreeInv
  <2> QED BY <1>0, <1>1, <1>2, <2>1, AcceptHonest DEF ListLocal, Become
<1>3. CASE Negotiate \/ ResolveTools
  <2>1. /\ entries = {} /\ skipped = {} /\ unlisted = {}
        /\ UNCHANGED <<entries, skipped, unlisted>>
    BY <1>3 DEF Negotiate, ResolveTools, TreeInv
  <2>2. listing' \in {"refused", "negotiated", "connected", "toolless"}
    <3>1. CASE Negotiate
      BY <3>1 DEF Negotiate, Become
    <3>2. CASE ResolveTools
      <4>1. PICK catalogue \in SUBSET Tools, overrides \in SUBSET Tools :
              listing' = Resolved(catalogue, overrides)
        BY <3>2 DEF ResolveTools, Become
      <4>2. \/ "file" \notin catalogue \cup overrides
            \/ catalogue \cup overrides = {"file"}
            \/ catalogue \cup overrides = Tools
        BY DEF Tools
      <4> QED BY <4>1, <4>2 DEF Resolved, Tools
    <3> QED BY <1>3, <3>1, <3>2
  <2> QED BY <1>0, <1>1, <2>1, <2>2 DEF TreeInv, ListingHonest
<1>4. CASE AskTreeTool \/ WalkWithoutTool
  <2>1. entries = {} /\ skipped = {} /\ unlisted = {}
    BY <1>4 DEF AskTreeTool, WalkWithoutTool, TreeInv
  <2>2. ASSUME NEW some \in {{}, Children(Root)}, AcceptWithout(some), UNCHANGED skipped
        PROVE  TreeInv'
    BY <1>0, <2>1, <2>2, AcceptHonest
  <2> QED BY <1>0, <1>1, <1>4, <2>1, <2>2, StartWalkKeeps
          DEF AskTreeTool, WalkWithoutTool, Truncated, Become
<1>5. CASE WalkStops
  BY <1>1, <1>5 DEF WalkStops, Become
<1> QED BY <1>0, <1>2, <1>3, <1>4, <1>5, ListDirectoryKeeps,
           DirectoryFailsKeeps, WalkEndsHonest DEF ListTree

-----------------------------------------------------------------------------
(* The register. *)

\* Components that can be ranked.
Rankable(components) ==
  /\ components \subseteq [name : Names, score : Int]
  /\ IsFiniteSet(components)
  /\ \A a, b \in components : a.name = b.name => a = b

\* Sorting keeps the components, and the scores do not rise.
LEMMA SortedFacts ==
  ASSUME NEW components, Rankable(components), NEW sorted \in Sortings(components)
  PROVE  LET n == Cardinality(components) IN
         /\ n \in Nat /\ DOMAIN sorted = 1..n /\ Len(sorted) = n
         /\ components = {sorted[i] : i \in 1..n}
         /\ \A i, j \in 1..n : i < j => ~Before(sorted[j], sorted[i])
         /\ \A i, j \in 1..n : i < j => sorted[i].score >= sorted[j].score
<1> DEFINE n == Cardinality(components)
           places == 1..n
<1>1. IsFiniteSet(components) /\ n \in Nat
  BY FS_CardinalityType DEF Rankable
<1>2. /\ sorted \in [places -> components]
      /\ \A i, j \in places : i # j => sorted[i] # sorted[j]
      /\ \A i, j \in places : i < j => ~Before(sorted[j], sorted[i])
  BY DEF Sortings, SetToSeqs
<1>3. sorted \in Injection(places, components)
  BY <1>2 DEF Injection, IsInjective
<1>4. IsFiniteSet(places) /\ Cardinality(places) = n
  BY <1>1, FS_Interval
<1>5. sorted \in Surjection(places, components)
  BY <1>1, <1>3, <1>4, FS_Injection
<1>6. components = {sorted[i] : i \in places}
  BY <1>2, <1>5 DEF Surjection
<1>7. \A i, j \in places : i < j => sorted[i].score >= sorted[j].score
  <2>1. \A i \in places : sorted[i].score \in Int
    BY <1>2 DEF Rankable
  <2> QED BY <1>2, <2>1 DEF Before
<1>8. DOMAIN sorted = places /\ Len(sorted) = n
  BY <1>1, <1>2
<1> QED BY <1>1, <1>2, <1>6, <1>7, <1>8

\* A set of numbers has a least one.
LEMMA Least ==
  ASSUME NEW numbers \in SUBSET Nat, numbers # {}
  PROVE  \E m \in numbers : \A k \in numbers : m <= k
<1> DEFINE Less == OpToRel(<, Nat)
<1>1. IsWellFoundedOn(Less, Nat)
  BY NatLessThanWellFounded
<1>2. \A x, y \in Nat : x < y => <<x, y>> \in Less
  BY DEF OpToRel
<1> HIDE DEF Less
<1>3. PICK m \in numbers : \A k \in numbers : ~(<<k, m>> \in Less)
  BY <1>1, WFMin
<1>4. ASSUME NEW k \in numbers
      PROVE  m <= k
  <2>1. ~(k < m)
    BY <1>2, <1>3
  <2> QED BY <2>1
<1> QED BY <1>4

\* The places of a sorted sequence with a higher score.
Higher(s, i) == {j \in DOMAIN s : s[j].score > s[i].score}

LEMMA HigherFacts ==
  ASSUME NEW s, NEW n \in Nat, DOMAIN s = 1..n,
         \A i \in 1..n : s[i].score \in Int,
         \A i, j \in 1..n : i < j => s[i].score >= s[j].score,
         NEW i \in 1..n
  PROVE  IF i > 1 /\ s[i].score = s[i - 1].score
           THEN i - 1 \in 1..n /\ Higher(s, i) = Higher(s, i - 1)
           ELSE Cardinality(Higher(s, i)) = i - 1
<1>1. CASE i > 1 /\ s[i].score = s[i - 1].score
  BY <1>1 DEF Higher
<1>2. CASE ~(i > 1 /\ s[i].score = s[i - 1].score)
  <2>1. ASSUME NEW j \in 1..n, s[j].score > s[i].score
        PROVE  j \in 1..(i - 1)
    <3>1. ~(i < j) /\ i # j
      BY <2>1
    <3> QED BY <3>1
  <2>2. ASSUME NEW j \in 1..(i - 1)
        PROVE  j \in 1..n /\ s[j].score > s[i].score
    <3>1. i > 1 /\ i - 1 \in 1..n /\ j \in 1..n /\ j <= i - 1
      BY <2>2
    <3>2. s[i - 1].score > s[i].score
      BY <1>2, <3>1
    <3>3. s[j].score >= s[i - 1].score
      <4>1. CASE j = i - 1
        BY <4>1, <3>1
      <4>2. CASE j < i - 1
        BY <4>2, <3>1
      <4> QED BY <3>1, <4>1, <4>2
    <3> QED BY <3>1, <3>2, <3>3
  <2>3. Higher(s, i) = 1..(i - 1)
    BY <2>1, <2>2 DEF Higher
  <2>4. Cardinality(1..(i - 1)) = i - 1
    <3>1. i - 1 \in Int /\ 1 \in Int /\ 0 <= i - 1
      OBVIOUS
    <3>2. Cardinality(1..(i - 1)) = IF 1 > i - 1 THEN 0 ELSE (i - 1) - 1 + 1
      BY <3>1, FS_Interval
    <3> QED BY <3>1, <3>2
  <2> QED BY <1>2, <2>3, <2>4
<1> QED BY <1>1, <1>2

\* The promotion from neighbour to neighbour, of ties of any length.
LEMMA PromotedLevels ==
  ASSUME NEW s, NEW n \in Nat, DOMAIN s = 1..n, Len(s) = n,
         \A i \in 1..n : s[i].score \in Int,
         \A i, j \in 1..n : i < j => s[i].score >= s[j].score,
         ~(n < MinComponents)
  PROVE  AssignLevels(s) = [i \in 1..n |-> LevelForRank(Cardinality(Higher(s, i)), n)]
<1> DEFINE step(g, i) == IF i > 1 /\ s[i].score = s[i - 1].score
                           THEN g[i - 1]
                           ELSE LevelForRank(i - 1, n)
           promoted(g) == g = [i \in 1..n |-> step(g, i)]
           ranked == [i \in 1..n |-> LevelForRank(Cardinality(Higher(s, i)), n)]
<1>1. promoted(ranked)
  BY HigherFacts
<1>2. ASSUME NEW g, promoted(g)
      PROVE  g = ranked
  <2> DEFINE wrong == {i \in 1..n : g[i] # ranked[i]}
  <2>1. \A i \in 1..n : g[i] = step(g, i)
    BY <1>2
  <2>2. \A i \in 1..n : ranked[i] = step(ranked, i)
    BY <1>1
  <2>3. ASSUME wrong # {} PROVE FALSE
    <3>1. wrong \subseteq Nat
      OBVIOUS
    <3>2. PICK least \in wrong : \A i \in wrong : least <= i
      BY <2>3, <3>1, Least
    <3>3. least \in 1..n /\ g[least] # ranked[least]
      OBVIOUS
    <3>4. least > 1 /\ s[least].score = s[least - 1].score
      BY <2>1, <2>2, <3>3
    <3>5. least - 1 \in 1..n /\ g[least - 1] # ranked[least - 1]
      BY <2>1, <2>2, <3>3, <3>4
    <3> QED BY <3>2, <3>5
  <2>4. \A i \in 1..n : g[i] = ranked[i]
    BY <2>3
  <2>5. g = [i \in 1..n |-> g[i]]
    BY <1>2
  <2> QED BY <2>4, <2>5
<1> HIDE DEF ranked
<1>3. (CHOOSE g : promoted(g)) = ranked
  BY <1>1, <1>2
<1>4. AssignLevels(s) = CHOOSE g : promoted(g)
  BY DEF AssignLevels
<1> QED BY <1>3, <1>4 DEF ranked

\* What Score makes of components is ranked.
LEMMA RegisterFacts ==
  ASSUME NEW components, Rankable(components), NEW ranking \in Registers(components)
  PROVE  /\ Len(ranking) \in Nat /\ DOMAIN ranking = 1..Len(ranking)
         /\ (Len(ranking) = 0) <=> (components = {})
         /\ \A i \in DOMAIN ranking : \E c \in components : ranking[i].name = c.name
         /\ \A c \in components : \E i \in DOMAIN ranking : ranking[i].name = c.name
         /\ \A i \in DOMAIN ranking : ranking[i].level = RankedLevel(ranking, ranking[i])
         /\ \A i, j \in DOMAIN ranking : i < j => ~Before(ranking[j], ranking[i])
<1>0. PICK s \in Sortings(components) : ranking = Banded(s)
  BY DEF Registers
<1> DEFINE n == Cardinality(components)
           level == AssignLevels(s)
<1>1. /\ n \in Nat /\ DOMAIN s = 1..n /\ Len(s) = n
      /\ components = {s[i] : i \in 1..n}
      /\ \A i, j \in 1..n : i < j => ~Before(s[j], s[i])
      /\ \A i, j \in 1..n : i < j => s[i].score >= s[j].score
  BY SortedFacts
<1>2. ranking = [i \in DOMAIN s |->
                   [name |-> s[i].name, score |-> s[i].score, level |-> level[i]]]
  BY <1>0 DEF Banded
<1>3. \A i \in 1..n : s[i].score \in Int
  BY <1>1 DEF Rankable
<1> HIDE DEF n, level
<1>4. /\ DOMAIN ranking = 1..n /\ Len(ranking) = n
      /\ \A i \in 1..n : /\ ranking[i].name = s[i].name
                         /\ ranking[i].score = s[i].score
                         /\ ranking[i].level = level[i]
  BY <1>1, <1>2
<1>5. \A i, j \in 1..n : i < j => s[i].score >= s[j].score
  BY <1>1
<1>6. ASSUME NEW i \in 1..n
      PROVE  ranking[i].level = RankedLevel(ranking, ranking[i])
  <2>1. CASE n < MinComponents
    <3>1. level[i] = LevelFor(s[i].score)
      BY <1>1, <2>1 DEF level, AssignLevels
    <3> QED BY <1>4, <2>1, <3>1 DEF RankedLevel
  <2>2. CASE ~(n < MinComponents)
    <3>1. level = [k \in 1..n |-> LevelForRank(Cardinality(Higher(s, k)), n)]
      BY <1>1, <1>3, <1>5, <2>2, PromotedLevels DEF level
    <3>2. {k \in DOMAIN ranking : ranking[k].score > ranking[i].score} = Higher(s, i)
      BY <1>1, <1>4 DEF Higher
    <3>3. RankedLevel(ranking, ranking[i]) = LevelForRank(Cardinality(Higher(s, i)), n)
      BY <1>4, <2>2, <3>2 DEF RankedLevel
    <3> QED BY <1>4, <3>1, <3>3
  <2> QED BY <2>1, <2>2
<1>7. \A i, j \in 1..n : i < j => ~Before(ranking[j], ranking[i])
  BY <1>1, <1>4 DEF Before
<1>8. /\ \A i \in 1..n : \E c \in components : ranking[i].name = c.name
      /\ \A c \in components : \E i \in 1..n : ranking[i].name = c.name
  BY <1>1, <1>4
<1>9. (n = 0) <=> (components = {})
  BY FS_EmptySet DEF n, Rankable
<1>10. DOMAIN ranking = 1..Len(ranking) /\ Len(ranking) \in Nat
  BY <1>1, <1>4
<1>11. \A i \in DOMAIN ranking : \E c \in components : ranking[i].name = c.name
  BY <1>4, <1>8
<1>12. \A c \in components : \E i \in DOMAIN ranking : ranking[i].name = c.name
  BY <1>4, <1>8
<1>13. \A i \in DOMAIN ranking : ranking[i].level = RankedLevel(ranking, ranking[i])
  BY <1>4, <1>6
<1>14. \A i, j \in DOMAIN ranking : i < j => ~Before(ranking[j], ranking[i])
  BY <1>4, <1>7
<1> QED BY <1>4, <1>9, <1>10, <1>11, <1>12, <1>13, <1>14

-----------------------------------------------------------------------------
(* The phases. *)

\* Phases take their turns: what comes before a phase that has begun is over,
\* and what it depends on has succeeded.
StatusInv ==
  /\ end \in {"open", "aborted", "done"}
  /\ status \in [Phases -> {"waiting", "running", "ok", "failed"}]
  /\ \A i, j \in DOMAIN Order :
       i < j /\ status[Order[j]] # "waiting" => status[Order[i]] \in {"ok", "failed"}
  /\ \A p \in Phases : status[p] # "waiting" => \A d \in Needs(p) : status[d] = "ok"
  /\ end = "aborted" => Aborting
  /\ end = "done" => ~Aborting /\ \A p \in Phases : status[p] \in {"ok", "failed"}

Settled(p) == status[p] \in {"ok", "failed"}
NotYet(p) == status[p] \in {"waiting", "running"}

Components == {Component(m) : m \in models}

\* What each phase leaves on the blackboard, and what it does not yet.
SurveyInv == selected \subseteq Sources

AnalyseInv ==
  /\ models \subseteq [name : selected, raw : RawScores]
  /\ \A m, n \in models : m.name = n.name => m = n
  /\ NotYet("analyse") => models = {}
  /\ status["analyse"] = "ok" => models # {}
  /\ ~withModel /\ Settled("analyse") =>
       \A f \in selected \ {m.name : m \in models} : Gap("analyse", f) \in gaps

RiskInv ==
  /\ status["risk"] # "ok" => register = <<>>
  /\ status["risk"] = "ok" => register \in Registers(Components)

AuthorInv ==
  /\ NotYet("author") => scenarios = {}
  /\ status["author"] = "ok" =>
       /\ scenarios # {}
       /\ Uncovered(scenarios) # {} => Gap("author", "coverage") \in gaps
  /\ ~withModel /\ scenarios # {} => Gap("author", "scenarios") \in gaps

CloseInv ==
  /\ Settled("validate") /\ Structural # {} => Gap("validate", "structure") \in gaps
  /\ status["approval"] = "ok" => Gap("approval", "verdict") \in gaps
  /\ status["approval"] # "failed"

FailureInv == \A p \in Phases : Failed(p) => Gap(p, "phase") \in gaps

BoardInv == SurveyInv /\ AnalyseInv /\ RiskInv /\ AuthorInv /\ CloseInv /\ FailureInv

PhasesInv == StatusInv /\ BoardInv

LEMMA OrderFacts ==
  /\ DOMAIN Order = 1..6 /\ Len(Order) = 6
  /\ Order[1] = "survey" /\ Order[2] = "analyse" /\ Order[3] = "risk"
  /\ Order[4] = "author" /\ Order[5] = "validate" /\ Order[6] = "approval"
  /\ Phases = {"survey", "analyse", "risk", "author", "validate", "approval"}
  BY DEF Order, Phases, ToSet

LEMMA NeedsFacts ==
  /\ Needs("survey") = {} /\ Needs("analyse") = {"survey"}
  /\ Needs("risk") = {"analyse"} /\ Needs("author") = {"risk"}
  /\ Needs("validate") = {"author"} /\ Needs("approval") = {"author"}
  BY DEF Needs

\* The order, phase by phase.
LEMMA StatusFacts ==
  ASSUME StatusInv
  PROVE  /\ \A p \in Phases : status[p] \in {"waiting", "running", "ok", "failed"}
         /\ status["analyse"] # "waiting" => status["survey"] = "ok"
         /\ status["risk"] # "waiting" => status["analyse"] = "ok"
         /\ status["author"] # "waiting" => status["risk"] = "ok"
         /\ status["validate"] # "waiting" => status["author"] = "ok"
         /\ status["approval"] # "waiting" =>
              status["author"] = "ok" /\ status["validate"] \in {"ok", "failed"}
<1>1. \A p \in Phases : status[p] \in {"waiting", "running", "ok", "failed"}
  BY DEF StatusInv
<1>2. status["approval"] # "waiting" => status["validate"] \in {"ok", "failed"}
  <2>1. 5 \in DOMAIN Order /\ 6 \in DOMAIN Order /\ 5 < 6
    BY OrderFacts
  <2>2. status[Order[6]] # "waiting" => status[Order[5]] \in {"ok", "failed"}
    BY <2>1 DEF StatusInv
  <2> QED BY <2>2, OrderFacts
<1> QED BY <1>1, <1>2, OrderFacts, NeedsFacts DEF StatusInv

\* After a required phase that failed, none begins.
LEMMA FailedBlocks ==
  ASSUME StatusInv, NEW i \in 1..6, Required(Order[i]), status[Order[i]] = "failed",
         NEW j \in 1..6, i < j
  PROVE  status[Order[j]] = "waiting"
<1>1. Order[i] \in {"survey", "analyse", "risk", "author", "approval"}
  BY OrderFacts DEF Required
<1>2. \A q \in {"analyse", "risk", "author", "validate", "approval"} :
        status["survey"] = "failed" => status[q] = "waiting"
  BY StatusFacts
<1>3. \A q \in {"risk", "author", "validate", "approval"} :
        status["analyse"] = "failed" => status[q] = "waiting"
  BY StatusFacts
<1>4. \A q \in {"author", "validate", "approval"} :
        status["risk"] = "failed" => status[q] = "waiting"
  BY StatusFacts
<1>5. \A q \in {"validate", "approval"} :
        status["author"] = "failed" => status[q] = "waiting"
  BY StatusFacts
<1> QED BY <1>1, <1>2, <1>3, <1>4, <1>5, OrderFacts

\* A phase that is running is the only one, and those after it are waiting.
LEMMA RunningFacts ==
  ASSUME StatusInv, NEW k \in 1..6, status[Order[k]] = "running"
  PROVE  /\ end = "open"
         /\ \A i \in 1..6 : i < k => status[Order[i]] \in {"ok", "failed"}
         /\ \A i \in 1..6 : k < i => status[Order[i]] = "waiting"
<1>1. \A i, j \in 1..6 :
        i < j /\ status[Order[j]] # "waiting" => status[Order[i]] \in {"ok", "failed"}
  BY OrderFacts DEF StatusInv
<1>2. Order[k] \in Phases /\ \A i \in 1..6 : Order[i] = Order[k] => i = k
  BY OrderFacts
<1>3. end # "done"
  BY <1>2 DEF StatusInv
<1>4. end # "aborted"
  <2> SUFFICES ASSUME end = "aborted" PROVE FALSE
    OBVIOUS
  <2>1. PICK p \in Phases : Required(p) /\ status[p] = "failed"
    BY DEF StatusInv, Aborting, Failed
  <2>2. PICK i \in 1..6 : Order[i] = p
    BY OrderFacts
  <2>3. i < k
    BY <1>1, <2>1, <2>2
  <2> QED BY <2>1, <2>2, <2>3, FailedBlocks
<1> QED BY <1>1, <1>3, <1>4 DEF StatusInv

LEMMA SettleKeepsStatus ==
  ASSUME StatusInv, NEW k \in 1..6, status[Order[k]] = "running",
         NEW new \in {"ok", "failed"},
         status' = [status EXCEPT ![Order[k]] = new], UNCHANGED end
  PROVE  StatusInv'
<1>1. /\ end = "open"
      /\ \A i \in 1..6 : i < k => status[Order[i]] \in {"ok", "failed"}
      /\ \A i \in 1..6 : k < i => status[Order[i]] = "waiting"
  BY RunningFacts
<1>2. Order[k] \in Phases /\ status \in [Phases -> {"waiting", "running", "ok", "failed"}]
  BY OrderFacts DEF StatusInv
<1>3. \A i, j \in 1..6 : Order[i] = Order[j] => i = j
  BY OrderFacts
<1>4. \A i \in 1..6 : status'[Order[i]] = IF i = k THEN new ELSE status[Order[i]]
  BY <1>2, <1>3, OrderFacts
<1>5. status' \in [Phases -> {"waiting", "running", "ok", "failed"}]
  BY <1>2
<1>6. \A i, j \in DOMAIN Order :
        i < j /\ status'[Order[j]] # "waiting" => status'[Order[i]] \in {"ok", "failed"}
  <2>1. \A i, j \in 1..6 :
          i < j /\ status[Order[j]] # "waiting" => status[Order[i]] \in {"ok", "failed"}
    BY OrderFacts DEF StatusInv
  <2> QED BY <1>1, <1>4, <2>1, OrderFacts
<1>7. \A p \in Phases : status'[p] # "waiting" => \A d \in Needs(p) : status'[d] = "ok"
  <2>1. ASSUME NEW p \in Phases, status'[p] # "waiting", NEW d \in Needs(p)
        PROVE  status'[d] = "ok"
    <3>1. status[p] # "waiting"
      BY <1>2, <2>1
    <3>2. status[d] = "ok"
      BY <3>1 DEF StatusInv
    <3>3. d # Order[k]
      BY <3>2
    <3> QED BY <1>2, <3>2, <3>3
  <2> QED BY <2>1
<1> QED BY <1>1, <1>5, <1>6, <1>7 DEF StatusInv

\* A phase whose turn it is has what it needs, so it runs: a required phase that
\* failed would have ended the run.
LEMMA BeginRuns ==
  ASSUME StatusInv, NEW p \in Phases, Begin(p)
  PROVE  /\ end = "open" /\ ~Aborting /\ status[p] = "waiting"
         /\ \A i, j \in 1..6 : Order[j] = p /\ i < j => status[Order[i]] \in {"ok", "failed"}
         /\ \A d \in Needs(p) : status[d] = "ok"
         /\ status' = [status EXCEPT ![p] = "running"]
         /\ UNCHANGED <<tree, withModel, end, board>>
<1>1. /\ end = "open" /\ ~Aborting /\ status[p] = "waiting"
      /\ \A i, j \in 1..6 : Order[j] = p /\ i < j => Over(Order[i])
  BY OrderFacts DEF Begin, Reached
<1>2. \A q \in Phases : status[q] \in {"waiting", "running", "ok", "failed"}
  BY DEF StatusInv
<1>3. \A i, j \in 1..6 : Order[j] = p /\ i < j => status[Order[i]] \in {"ok", "failed"}
  BY <1>1, <1>2, OrderFacts DEF Over
<1>4. ASSUME NEW d \in Needs(p)
      PROVE  status[d] = "ok"
  <2>1. PICK i \in 1..6, j \in 1..6 : Order[i] = d /\ Order[j] = p /\ i < j
    BY OrderFacts, NeedsFacts
  <2>2. d \in Phases /\ Required(d)
    BY OrderFacts, NeedsFacts DEF Required
  <2> QED BY <1>1, <1>3, <2>1, <2>2 DEF Aborting, Failed
<1>5. status' = [status EXCEPT ![p] = "running"] /\ UNCHANGED <<tree, withModel, end, board>>
  BY <1>4 DEF Begin, board
<1> QED BY <1>1, <1>3, <1>4, <1>5

LEMMA BeginKeepsStatus ==
  ASSUME StatusInv, NEW p \in Phases, Begin(p)
  PROVE  StatusInv'
<1>1. /\ end = "open" /\ UNCHANGED end
      /\ status[p] = "waiting"
      /\ \A i, j \in 1..6 : Order[j] = p /\ i < j => status[Order[i]] \in {"ok", "failed"}
      /\ \A d \in Needs(p) : status[d] = "ok"
      /\ status' = [status EXCEPT ![p] = "running"]
  BY BeginRuns
<1>2. status \in [Phases -> {"waiting", "running", "ok", "failed"}]
  BY DEF StatusInv
<1>3. \A i \in 1..6 : Order[i] \in Phases
  BY OrderFacts
<1>4. \A i \in 1..6 : status'[Order[i]] = IF Order[i] = p THEN "running" ELSE status[Order[i]]
  BY <1>1, <1>2, <1>3
<1>5. \A i, j \in DOMAIN Order :
        i < j /\ status'[Order[j]] # "waiting" => status'[Order[i]] \in {"ok", "failed"}
  <2>1. \A i, j \in 1..6 :
          i < j /\ status[Order[j]] # "waiting" => status[Order[i]] \in {"ok", "failed"}
    BY OrderFacts DEF StatusInv
  <2>2. ASSUME NEW i \in 1..6, NEW j \in 1..6, i < j, status'[Order[j]] # "waiting"
        PROVE  status[Order[i]] \in {"ok", "failed"}
    BY <1>1, <1>4, <2>1, <2>2
  <2> QED BY <1>1, <1>4, <2>2, OrderFacts
<1>6. \A q \in Phases : status'[q] # "waiting" => \A d \in Needs(q) : status'[d] = "ok"
  <2>1. ASSUME NEW q \in Phases, status'[q] # "waiting", NEW d \in Needs(q)
        PROVE  status'[d] = "ok"
    <3>1. status[d] = "ok"
      BY <1>1, <1>2, <2>1 DEF StatusInv
    <3> QED BY <1>1, <1>2, <3>1
  <2> QED BY <2>1
<1> QED BY <1>1, <1>2, <1>5, <1>6 DEF StatusInv

LEMMA ComponentsRankable ==
  ASSUME SurveyInv, AnalyseInv
  PROVE  /\ Rankable(Components)
         /\ \A c \in Components : \E m \in models : c.name = m.name
         /\ \A m \in models : \E c \in Components : c.name = m.name
         /\ models # {} => Components # {}
<1>1. \A m \in models : m.name \in Names /\ m.raw \in Int
  BY PipelineAssumption DEF SurveyInv, AnalyseInv
<1>2. ASSUME NEW m \in models
      PROVE  /\ Component(m) \in [name : Names, score : Int]
             /\ Component(m).name = m.name
  <2>1. Untested \in Int
    BY RiskRegisterAssumption
  <2>2. \A hasTest : Scored(m.raw, hasTest) \in Int
    BY <1>1, <2>1 DEF Scored
  <2> QED BY <1>1, <2>2 DEF Component
<1>3. Components \subseteq [name : Names, score : Int]
  BY <1>2 DEF Components
<1>4. \A a, b \in Components : a.name = b.name => a = b
  BY <1>2 DEF Components, AnalyseInv
<1>5. IsFiniteSet(Components)
  <2> DEFINE name == [c \in Components |-> c.name]
  <2>1. name \in [Components -> Names]
    BY <1>3
  <2>2. \A a, b \in Components : name[a] = name[b] => a = b
    BY <1>4
  <2>3. name \in Injection(Components, Names)
    BY <2>1, <2>2 DEF Injection, IsInjective
  <2> HIDE DEF name
  <2> QED BY <2>3, RiskRegisterAssumption, FS_Injection
<1>6. /\ \A c \in Components : \E m \in models : c.name = m.name
      /\ \A m \in models : \E c \in Components : c.name = m.name
  BY <1>2 DEF Components
<1> QED BY <1>3, <1>4, <1>5, <1>6 DEF Rankable, Components

\* There is always somebody to write for.
LEMMA SomeTarget ==
  ASSUME PhasesInv, status["risk"] = "ok"
  PROVE  TargetRisks(register) # {}
<1>1. Rankable(Components) /\ Components # {}
  BY ComponentsRankable, StatusFacts DEF PhasesInv, BoardInv, AnalyseInv
<1>2. register \in Registers(Components)
  BY DEF PhasesInv, BoardInv, RiskInv
<1>3. Len(register) \in Nat /\ Len(register) # 0
  BY <1>1, <1>2, RegisterFacts
<1>4. Prioritised(register) = {} =>
        register[1] \in TargetRisks(register)
  BY <1>3 DEF TargetRisks
<1> QED BY <1>4 DEF TargetRisks

\* A step that ends no phase and leaves the blackboard alone.
LEMMA BoardKept ==
  ASSUME BoardInv, UNCHANGED <<withModel, board>>,
         \A q \in Phases : status'[q] = status[q] \/ (status[q] = "waiting" /\ status'[q] = "running")
  PROVE  BoardInv'
<1>1. UNCHANGED <<withModel, selected, testedDirs, models, register, scenarios, gaps>>
  BY DEF board
<1>2. \A q \in Phases : /\ NotYet(q)' => NotYet(q)
                        /\ Settled(q)' => Settled(q)
                        /\ (status'[q] = "ok") = (status[q] = "ok")
                        /\ Failed(q)' => Failed(q)
  BY DEF NotYet, Settled, Failed
<1>3. SurveyInv' /\ FailureInv' /\ CloseInv'
  BY <1>1, <1>2, OrderFacts DEF BoardInv, SurveyInv, FailureInv, CloseInv, Structural, Failed
<1>4. AnalyseInv'
  BY <1>1, <1>2, OrderFacts DEF BoardInv, AnalyseInv
<1>5. RiskInv'
  BY <1>1, <1>2, OrderFacts DEF BoardInv, RiskInv, Components, Component
<1>6. AuthorInv'
  BY <1>1, <1>2, OrderFacts DEF BoardInv, AuthorInv, Uncovered, Covered
<1> QED BY <1>3, <1>4, <1>5, <1>6 DEF BoardInv

\* What Settle does, whatever the phase.
Settles(p, new, noted) ==
  /\ status' = [status EXCEPT ![p] = new]
  /\ noted \subseteq gaps' /\ gaps \subseteq gaps'
  /\ new = "failed" => Gap(p, "phase") \in gaps'
  /\ UNCHANGED <<withModel, end>>

LEMMA SettleFacts ==
  ASSUME PhasesInv, NEW p \in Phases, Running(p), NEW new \in {"ok", "failed"},
         NEW noted, Settles(p, new, noted)
  PROVE  /\ StatusInv' /\ FailureInv'
         /\ status'[p] = new
         /\ \A q \in Phases \ {p} : status'[q] = status[q]
<1>1. StatusInv /\ FailureInv /\ status[p] = "running"
  BY DEF PhasesInv, BoardInv, Running
<1>2. PICK k \in 1..6 : Order[k] = p
  BY OrderFacts
<1>3. StatusInv'
  BY <1>1, <1>2, SettleKeepsStatus DEF Settles
<1>4. status \in [Phases -> {"waiting", "running", "ok", "failed"}]
  BY <1>1 DEF StatusInv
<1>5. status'[p] = new /\ \A q \in Phases \ {p} : status'[q] = status[q]
  BY <1>4 DEF Settles
<1>6. FailureInv'
  BY <1>1, <1>5 DEF FailureInv, Failed, Settles
<1> QED BY <1>3, <1>5, <1>6

LEMMA SurveyKeeps ==
  ASSUME PhasesInv, SurveyFails \/ Survey
  PROVE  PhasesInv'
<1>1. /\ Running("survey") /\ "survey" \in Phases
      /\ UNCHANGED <<models, register, scenarios>>
      /\ selected' = selected \/ selected' = Analysable(entries)
  BY OrderFacts DEF SurveyFails, Survey
<1>2. PICK new \in {"ok", "failed"} : Settles("survey", new, {})
  BY DEF SurveyFails, Survey, ReadTests, Settle, Settles
<1>3. StatusInv' /\ FailureInv' /\ \A q \in Phases \ {"survey"} : status'[q] = status[q]
  BY <1>1, <1>2, SettleFacts
<1>4. \A q \in {"analyse", "risk", "author", "validate", "approval"} :
        q \in Phases \ {"survey"} /\ status[q] = "waiting" /\ status'[q] = "waiting"
  BY <1>1, <1>3, StatusFacts, OrderFacts DEF PhasesInv, Running
<1>5. models = {} /\ register = <<>> /\ scenarios = {}
  BY <1>4 DEF PhasesInv, BoardInv, AnalyseInv, RiskInv, AuthorInv, NotYet
<1>6. SurveyInv'
  BY <1>1 DEF PhasesInv, BoardInv, SurveyInv, Analysable
<1>7. AnalyseInv' /\ RiskInv'
  BY <1>1, <1>4, <1>5 DEF AnalyseInv, RiskInv, NotYet, Settled
<1>8. AuthorInv' /\ CloseInv'
  BY <1>1, <1>4, <1>5 DEF AuthorInv, CloseInv, NotYet, Settled
<1> QED BY <1>3, <1>6, <1>7, <1>8 DEF PhasesInv, BoardInv

LEMMA AnalyseKeeps ==
  ASSUME PhasesInv, Analyse \/ Parse
  PROVE  PhasesInv'
<1>1. /\ Running("analyse") /\ "analyse" \in Phases
      /\ UNCHANGED <<selected, testedDirs, register, scenarios, withModel>>
  BY OrderFacts DEF Analyse, Parse, Settle
<1>2. PICK done \in SUBSET selected :
        /\ Describe(done)
        /\ Parse => Settle("analyse", done # {}, {Gap("analyse", f) : f \in selected \ done})
  BY DEF Analyse, Parse
<1>3. PICK raw \in [done -> RawScores] :
        models' = {[name |-> f, raw |-> raw[f]] : f \in done}
  BY <1>2 DEF Describe
<1>4. /\ models' \subseteq [name : selected, raw : RawScores]
      /\ \A m, n \in models' : m.name = n.name => m = n
      /\ {m.name : m \in models'} = done
      /\ models' # {} <=> done # {}
  <2> DEFINE model(f) == [name |-> f, raw |-> raw[f]]
  <2>1. models' = {model(f) : f \in done}
    BY <1>3
  <2>2. \A f \in done : model(f) \in [name : selected, raw : RawScores] /\ model(f).name = f
    BY <1>2, <1>3
  <2> HIDE DEF model
  <2> QED BY <2>1, <2>2
<1>5. PICK new \in {"ok", "failed"} :
        /\ Settles("analyse", new, {})
        /\ new = "ok" => models' # {}
        /\ ~withModel => \A f \in selected \ done : Gap("analyse", f) \in gaps'
  <2>1. CASE Analyse
    BY <2>1 DEF Analyse, Settle, Settles
  <2>2. CASE Parse
    BY <2>2, <1>2, <1>4 DEF Settle, Settles
  <2> QED BY <2>1, <2>2
<1>6. /\ StatusInv' /\ FailureInv' /\ status'["analyse"] = new
      /\ \A q \in Phases \ {"analyse"} : status'[q] = status[q]
  BY <1>1, <1>5, SettleFacts
<1>7. \A q \in {"risk", "author", "validate", "approval"} :
        q \in Phases \ {"analyse"} /\ status[q] = "waiting" /\ status'[q] = "waiting"
  BY <1>1, <1>6, StatusFacts, OrderFacts DEF PhasesInv, Running
<1>8. register = <<>> /\ scenarios = {}
  BY <1>7 DEF PhasesInv, BoardInv, RiskInv, AuthorInv, NotYet
<1>9. SurveyInv' /\ AnalyseInv'
  BY <1>1, <1>4, <1>5, <1>6 DEF PhasesInv, BoardInv, SurveyInv, AnalyseInv, NotYet, Gap
<1>10. RiskInv' /\ AuthorInv' /\ CloseInv'
  BY <1>1, <1>7, <1>8 DEF RiskInv, AuthorInv, CloseInv, NotYet, Settled
<1> QED BY <1>6, <1>9, <1>10 DEF PhasesInv, BoardInv

LEMMA ScoreKeeps ==
  ASSUME PhasesInv, Score
  PROVE  PhasesInv'
<1>1. /\ Running("risk") /\ "risk" \in Phases
      /\ UNCHANGED <<selected, testedDirs, models, scenarios, withModel>>
      /\ register' \in Registers(Components)
  BY OrderFacts DEF Score, Settle, Components
<1>2. PICK new \in {"ok", "failed"} :
        /\ Settles("risk", new, {})
        /\ new = "ok" <=> register' # <<>>
  BY DEF Score, Settle, Settles
<1>3. /\ StatusInv' /\ FailureInv' /\ status'["risk"] = new
      /\ \A q \in Phases \ {"risk"} : status'[q] = status[q]
  BY <1>1, <1>2, SettleFacts
<1>4. \A q \in {"author", "validate", "approval"} :
        q \in Phases \ {"risk"} /\ status[q] = "waiting" /\ status'[q] = "waiting"
  BY <1>1, <1>3, StatusFacts, OrderFacts DEF PhasesInv, Running
<1>5. scenarios = {}
  BY <1>4 DEF PhasesInv, BoardInv, AuthorInv, NotYet
<1>6. "analyse" \in Phases \ {"risk"} /\ gaps \subseteq gaps'
  BY <1>2, OrderFacts DEF Settles
<1>7. SurveyInv' /\ AnalyseInv'
  BY <1>1, <1>3, <1>6 DEF PhasesInv, BoardInv, SurveyInv, AnalyseInv, NotYet, Settled, Gap
<1>8. RiskInv'
  <2>1. Components' = Components
    BY <1>1 DEF Components, Component
  <2> QED BY <1>1, <1>2, <1>3, <2>1 DEF RiskInv
<1>9. AuthorInv' /\ CloseInv'
  BY <1>1, <1>4, <1>5 DEF AuthorInv, CloseInv, NotYet, Settled
<1> QED BY <1>3, <1>7, <1>8, <1>9 DEF PhasesInv, BoardInv

LEMMA AuthorKeeps ==
  ASSUME PhasesInv, Author \/ Placeholders
  PROVE  PhasesInv'
<1>1. /\ Running("author") /\ "author" \in Phases
      /\ UNCHANGED <<selected, testedDirs, models, register, withModel>>
  BY OrderFacts DEF Author, Placeholders, Settle
<1>2. PICK new \in {"ok", "failed"} :
        /\ Settles("author", new, {})
        /\ new = "ok" => scenarios' # {} /\ Coverage(scenarios') \subseteq gaps'
        /\ ~withModel => Gap("author", "scenarios") \in gaps'
  <2>1. CASE Author
    <3>1. CASE scenarios' # {} /\ Settle("author", TRUE, Unprioritised \cup Coverage(scenarios'))
      BY <2>1, <3>1 DEF Author, Settle, Settles
    <3>2. CASE Settle("author", FALSE, Unprioritised)
      BY <2>1, <3>2 DEF Author, Settle, Settles
    <3> QED BY <2>1, <3>1, <3>2 DEF Author
  <2>2. CASE Placeholders
    <3>1. /\ scenarios' = {[risk |-> RiskID[r.name], sound |-> TRUE] : r \in TargetRisks(register)}
          /\ Settle("author", TRUE, {Gap("author", "scenarios")} \cup Coverage(scenarios'))
      BY <2>2 DEF Placeholders
    <3>2. status["risk"] = "ok"
      BY <1>1, StatusFacts DEF PhasesInv, Running
    <3>3. scenarios' # {}
      BY <3>1, <3>2, SomeTarget
    <3> QED BY <3>1, <3>3 DEF Settle, Settles
  <2> QED BY <2>1, <2>2
<1>3. /\ StatusInv' /\ FailureInv' /\ status'["author"] = new
      /\ \A q \in Phases \ {"author"} : status'[q] = status[q]
  BY <1>1, <1>2, SettleFacts
<1>4. \A q \in {"validate", "approval"} :
        q \in Phases \ {"author"} /\ status[q] = "waiting" /\ status'[q] = "waiting"
  BY <1>1, <1>3, StatusFacts, OrderFacts DEF PhasesInv, Running
<1>5. "analyse" \in Phases \ {"author"} /\ "risk" \in Phases \ {"author"}
      /\ gaps \subseteq gaps'
  BY <1>2, OrderFacts DEF Settles
<1>6. SurveyInv' /\ AnalyseInv'
  BY <1>1, <1>3, <1>5 DEF PhasesInv, BoardInv, SurveyInv, AnalyseInv, NotYet, Settled, Gap
<1>7. RiskInv'
  BY <1>1, <1>3, <1>5 DEF PhasesInv, BoardInv, RiskInv, Components, Component
<1>8. AuthorInv'
  <2>1. Coverage(scenarios') \subseteq gaps' /\ Uncovered(scenarios)' # {} =>
          Gap("author", "coverage") \in gaps'
    BY <1>1 DEF Coverage, Uncovered, Covered
  <2> QED BY <1>1, <1>2, <1>3, <2>1 DEF AuthorInv, NotYet, Gap
<1>9. CloseInv'
  BY <1>4 DEF CloseInv, Settled
<1> QED BY <1>3, <1>6, <1>7, <1>8, <1>9 DEF PhasesInv, BoardInv

LEMMA CloseKeeps ==
  ASSUME PhasesInv, ValidatePlan \/ AwaitApproval
  PROVE  PhasesInv'
<1>1. UNCHANGED <<selected, testedDirs, models, register, scenarios, withModel>>
  BY DEF ValidatePlan, AwaitApproval, Settle
<1>2. PICK p \in {"validate", "approval"}, new \in {"ok", "failed"} :
        /\ Running(p) /\ Settles(p, new, {})
        /\ p = "validate" => /\ Running("validate")
                             /\ Structural # {} => Gap("validate", "structure") \in gaps'
        /\ p = "approval" => new = "ok" /\ Gap("approval", "verdict") \in gaps'
  <2>1. CASE ValidatePlan
    <3>1. Structural # {} => "structure" \in Defects
      BY DEF Defects
    <3> QED BY <2>1, <3>1 DEF ValidatePlan, Settle, Settles
  <2>2. CASE AwaitApproval
    BY <2>2 DEF AwaitApproval, Settle, Settles
  <2> QED BY <2>1, <2>2
<1>3. p \in Phases /\ {"survey", "analyse", "risk", "author"} \subseteq Phases \ {p}
      /\ "validate" \in Phases /\ "approval" \in Phases
  BY OrderFacts
<1>4. /\ StatusInv' /\ FailureInv' /\ status'[p] = new
      /\ \A q \in Phases \ {p} : status'[q] = status[q]
  BY <1>2, <1>3, SettleFacts
<1>5. gaps \subseteq gaps'
  BY <1>2 DEF Settles
<1>6. SurveyInv' /\ AnalyseInv'
  BY <1>1, <1>3, <1>4, <1>5 DEF PhasesInv, BoardInv, SurveyInv, AnalyseInv, NotYet, Settled, Gap
<1>7. RiskInv'
  BY <1>1, <1>3, <1>4 DEF PhasesInv, BoardInv, RiskInv, Components, Component
<1>8. AuthorInv'
  BY <1>1, <1>3, <1>4, <1>5 DEF PhasesInv, BoardInv, AuthorInv, NotYet, Uncovered, Covered, Gap
<1>9. CloseInv'
  BY <1>1, <1>2, <1>3, <1>4, <1>5 DEF PhasesInv, BoardInv, CloseInv, Settled, Structural, Gap
<1> QED BY <1>4, <1>6, <1>7, <1>8, <1>9 DEF PhasesInv, BoardInv

-----------------------------------------------------------------------------
(* The run. *)

RunInv == TreeInv /\ PhasesInv

LEMMA RunInitInv == Init => RunInv
<1> SUFFICES ASSUME Init PROVE RunInv
  OBVIOUS
<1>1. TreeInv
  <2>1. maxFiles \in Nat
    BY SourceTreeAssumption DEF Init, TreeInit
  <2> QED BY <2>1 DEF Init, TreeInit, TreeInv, ListingHonest
<1>2. StatusInv
  BY OrderFacts, NeedsFacts DEF Init, StatusInv
<1>3. BoardInv
  <2>1. \A p \in Phases : status[p] = "waiting"
    BY DEF Init
  <2> QED BY <2>1, OrderFacts DEF Init, BoardInv, SurveyInv, AnalyseInv, RiskInv,
             AuthorInv, CloseInv, FailureInv, NotYet, Settled, Failed
<1> QED BY <1>1, <1>2, <1>3 DEF RunInv, PhasesInv

LEMMA TreeKept ==
  ASSUME TreeInv, UNCHANGED tree
  PROVE  TreeInv'
<1>1. UNCHANGED <<maxFiles, listing, pending, entries, skipped, unlisted>>
  BY DEF tree
<1>2. (WalkInv = WalkInv') /\ (ListingHonest = ListingHonest')
  BY <1>1 DEF WalkInv, WalkedSoFar, Known, Waiting, ListingHonest, Without, Files, Below, Children
<1> QED BY <1>1, <1>2 DEF TreeInv

LEMMA RunStep ==
  ASSUME RunInv, [Next]_vars
  PROVE  RunInv'
<1> USE DEF RunInv
<1>1. ASSUME NEW p \in Phases, Begin(p)
      PROVE  RunInv'
  <2>1. StatusInv'
    BY <1>1, BeginKeepsStatus DEF PhasesInv
  <2>2. \A q \in Phases : \/ status'[q] = status[q]
                          \/ status[q] = "waiting" /\ status'[q] = "running"
    BY <1>1, BeginRuns DEF PhasesInv, StatusInv
  <2>3. BoardInv'
    BY <1>1, <2>2, BeginRuns, BoardKept DEF PhasesInv
  <2> QED BY <1>1, <2>1, <2>3, BeginRuns, TreeKept DEF PhasesInv
<1>2. ASSUME UNCHANGED <<withModel, status, board>>, StatusInv', TreeInv'
      PROVE  RunInv'
  BY <1>2, BoardKept DEF PhasesInv
<1>3. CASE Listing
  <2>1. StatusInv'
    BY <1>3 DEF Listing, PhasesInv, StatusInv, Aborting, Failed
  <2> QED BY <1>2, <1>3, <2>1, ListTreeKeeps DEF Listing
<1>4. CASE Abort \/ Done
  <2>1. StatusInv'
    BY <1>4 DEF Abort, Done, Over, End, PhasesInv, StatusInv, Aborting, Failed
  <2> QED BY <1>2, <1>4, <2>1, TreeKept DEF Abort, Done, End
<1>5. CASE UNCHANGED vars
  <2>1. StatusInv'
    BY <1>5 DEF vars, PhasesInv, StatusInv, Aborting, Failed
  <2> QED BY <1>2, <1>5, <2>1, TreeKept DEF vars
<1>6. CASE SurveyFails \/ Survey
  BY <1>6, SurveyKeeps, TreeKept DEF SurveyFails, Survey
<1>7. CASE Analyse \/ Parse
  BY <1>7, AnalyseKeeps, TreeKept DEF Analyse, Parse
<1>8. CASE Score
  BY <1>8, ScoreKeeps, TreeKept DEF Score
<1>9. CASE Author \/ Placeholders
  BY <1>9, AuthorKeeps, TreeKept DEF Author, Placeholders
<1>10. CASE ValidatePlan \/ AwaitApproval
  BY <1>10, CloseKeeps, TreeKept DEF ValidatePlan, AwaitApproval
<1> QED BY <1>1, <1>3, <1>4, <1>5, <1>6, <1>7, <1>8, <1>9, <1>10 DEF Next

\* What holds of the listing and of the phases holds throughout a run.
THEOREM RunInvariance == Spec => []RunInv
<1>1. RunInv /\ [Next]_vars => RunInv'
  BY RunStep
<1> QED BY RunInitInv, <1>1, PTL DEF Spec

\* A listing that is accepted has every file of the repository but those below
\* a directory that was reported as skipped, whichever way it came about
\* (Tree of github.go, LocalSource.Tree), and is within the ceiling.
THEOREM ListingIsHonest == Spec => []ListingHonest
<1>1. RunInv => ListingHonest
  BY DEF RunInv, TreeInv
<1> QED BY <1>1, RunInvariance, PTL

\* The register is sorted, and every level is the one of the number of strictly
\* higher scores: no band boundary splits equal scores, of however many
\* components (assignLevels, Score).
THEOREM LevelsRanked == Spec => []LevelsAreRanked
<1>1. RunInv => LevelsAreRanked
  <2> SUFFICES ASSUME RunInv PROVE LevelsAreRanked
    OBVIOUS
  <2>1. CASE register = <<>>
    BY <2>1 DEF LevelsAreRanked, ToSet
  <2>2. CASE register \in Registers(Components)
    <3>1. Rankable(Components)
      BY ComponentsRankable DEF RunInv, PhasesInv, BoardInv
    <3>2. /\ \A i \in DOMAIN register : register[i].level = RankedLevel(register, register[i])
          /\ \A i, j \in DOMAIN register : i < j => ~Before(register[j], register[i])
      BY <2>2, <3>1, RegisterFacts
    <3> QED BY <3>2 DEF LevelsAreRanked, ToSet
  <2> QED BY <2>1, <2>2 DEF RunInv, PhasesInv, BoardInv, RiskInv
<1> QED BY <1>1, RunInvariance, PTL

\* How a run can have ended.
LEMMA EndedFacts ==
  ASSUME PhasesInv, end # "open"
  PROVE  /\ \A p \in Phases : status[p] # "running"
         /\ status["risk"] = "ok" => status["author"] \in {"ok", "failed"}
         /\ end = "done" => /\ \A p \in Phases : Required(p) => status[p] = "ok"
                            /\ status["validate"] \in {"ok", "failed"}
<1>1. StatusInv
  BY DEF PhasesInv
<1>2. ASSUME NEW p \in Phases, status[p] = "running" PROVE FALSE
  <2>1. PICK k \in 1..6 : Order[k] = p
    BY OrderFacts
  <2> QED BY <1>1, <1>2, <2>1, RunningFacts
<1>3. ASSUME end = "done"
      PROVE  /\ \A p \in Phases : status[p] \in {"ok", "failed"}
             /\ \A p \in Phases : Required(p) => status[p] = "ok"
  BY <1>1, <1>3 DEF StatusInv, Aborting, Failed
<1>4. ASSUME end = "aborted", status["risk"] = "ok"
      PROVE  status["author"] \in {"ok", "failed"}
  <2>1. PICK p \in Phases : Required(p) /\ status[p] = "failed"
    BY <1>1, <1>4 DEF StatusInv, Aborting, Failed
  <2>2. p \in {"author", "approval"}
    BY <1>1, <1>4, <2>1, StatusFacts, OrderFacts DEF Required
  <2> QED BY <1>1, <2>1, <2>2, StatusFacts
<1> QED BY <1>1, <1>2, <1>3, <1>4, OrderFacts DEF StatusInv

LEMMA EndIsHonest ==
  ASSUME PhasesInv
  PROVE  PlanHonest
<1> SUFFICES ASSUME end # "open" PROVE PlanHonest
  BY DEF PlanHonest
<1>1. \A p \in Phases : status[p] \in {"failed", "skipped"} => Gap(p, "phase") \in gaps
  BY DEF PhasesInv, StatusInv, BoardInv, FailureInv, Failed
<1>2. ASSUME register # <<>>
      PROVE  /\ {r.name : r \in ToSet(register)} = {m.name : m \in models}
             /\ (\E r \in Prioritised(register) : \A s \in scenarios : s.risk # RiskID[r.name]) =>
                  {Gap("author", "coverage"), Gap("author", "phase")} \cap gaps # {}
  <2>1. status["risk"] = "ok" /\ register \in Registers(Components)
    BY <1>2 DEF PhasesInv, BoardInv, RiskInv
  <2>2. /\ Rankable(Components)
        /\ \A c \in Components : \E m \in models : c.name = m.name
        /\ \A m \in models : \E c \in Components : c.name = m.name
    BY ComponentsRankable DEF PhasesInv, BoardInv
  <2> DEFINE all == Components
  <2>3. Rankable(all) /\ register \in Registers(all)
    BY <2>1, <2>2
  <2> HIDE DEF all
  <2>4. /\ \A i \in DOMAIN register : \E c \in all : register[i].name = c.name
        /\ \A c \in all : \E i \in DOMAIN register : register[i].name = c.name
    BY <2>3, RegisterFacts
  <2>5. {r.name : r \in ToSet(register)} = {m.name : m \in models}
    <3>1. \A r \in ToSet(register) : \E m \in models : r.name = m.name
      BY <2>2, <2>4 DEF ToSet, all
    <3>2. \A m \in models : \E r \in ToSet(register) : r.name = m.name
      <4>1. \A m \in models : \E c \in all : c.name = m.name
        BY <2>2 DEF all
      <4>2. \A c \in all : \E r \in ToSet(register) : r.name = c.name
        BY <2>4 DEF ToSet
      <4> QED BY <4>1, <4>2
    <3> QED BY <3>1, <3>2
  <2>6. /\ status["author"] \in {"ok", "failed"}
        /\ (\E r \in Prioritised(register) : \A s \in scenarios : s.risk # RiskID[r.name]) =>
             Uncovered(scenarios) # {}
    BY <2>1, EndedFacts DEF Uncovered, Covered
  <2>7. CASE status["author"] = "ok"
    BY <2>5, <2>6, <2>7 DEF PhasesInv, BoardInv, AuthorInv
  <2>8. CASE status["author"] = "failed"
    BY <1>1, <2>5, <2>8, OrderFacts DEF Failed
  <2> QED BY <2>6, <2>7, <2>8
<1>3. ~withModel /\ scenarios # {} => Gap("author", "scenarios") \in gaps
  BY DEF PhasesInv, BoardInv, AuthorInv
<1>4. ~withModel /\ status["analyse"] # "waiting" =>
        \A f \in selected \ {m.name : m \in models} : Gap("analyse", f) \in gaps
  <2>1. status["analyse"] # "waiting" => Settled("analyse")
    BY EndedFacts, StatusFacts, OrderFacts DEF Settled, PhasesInv
  <2> QED BY <2>1 DEF PhasesInv, BoardInv, AnalyseInv
<1>5. ASSUME end = "done"
      PROVE  /\ scenarios # {}
             /\ Gap("approval", "verdict") \in gaps
             /\ Structural # {} => Gap("validate", "structure") \in gaps
  <2>1. status["author"] = "ok" /\ status["approval"] = "ok" /\ Settled("validate")
    BY <1>5, EndedFacts, OrderFacts DEF Required, Settled
  <2> QED BY <2>1 DEF PhasesInv, BoardInv, AuthorInv, CloseInv
<1> QED BY <1>1, <1>2, <1>3, <1>4, <1>5 DEF PlanHonest

\* What the rendered document says can be relied on, wherever the run stopped:
\* failed phases, prioritised risks without scenarios, defects and placeholders
\* are told of, and so is that nobody has approved the plan.
THEOREM PlanIsHonest == Spec => []PlanHonest
<1>1. RunInv => PlanHonest
  BY EndIsHonest DEF RunInv
<1> QED BY <1>1, RunInvariance, PTL

-----------------------------------------------------------------------------
(* The contract of a pipeline. *)

Graph == [declared |-> Order, dependsOn |-> [p \in Phases |-> Needs(p)], optional |-> {"validate"}]

LEMMA GraphFacts ==
  /\ Dag!Declared(Graph) = Phases
  /\ \A p \in Phases : Graph.dependsOn[p] = Needs(p) /\ Needs(p) \subseteq Phases
  /\ Dag!Valid(Graph)
<1>0. Graph.declared = Order /\ \A p \in Phases : Graph.dependsOn[p] = Needs(p)
  BY DEF Graph
<1>1. Dag!Declared(Graph) = Phases
  <2>1. Dag!Declared(Graph) = {Order[i] : i \in 1..6}
    BY <1>0, OrderFacts DEF Dag!Declared
  <2>2. \A p \in Phases : \E i \in 1..6 : Order[i] = p
    BY OrderFacts
  <2>3. \A i \in 1..6 : Order[i] \in Phases
    BY OrderFacts
  <2> QED BY <2>1, <2>2, <2>3
<1>2. \A p \in Phases : Graph.dependsOn[p] = Needs(p) /\ Needs(p) \subseteq Phases
  <2>1. \A p \in Phases : Needs(p) \subseteq Phases
    BY OrderFacts, NeedsFacts
  <2> QED BY <1>0, <2>1
<1>3. ~Dag!Malformed(Graph)
  BY <1>0, <1>1, <1>2, OrderFacts DEF Dag!Malformed
<1>4. ~Dag!Cyclic(Graph)
  <2> SUFFICES ASSUME NEW part \in SUBSET Phases, part # {},
                      \A p \in part : Needs(p) \cap part # {}
               PROVE  FALSE
    BY <1>1, <1>2 DEF Dag!Cyclic
  <2>1. "survey" \notin part
    BY NeedsFacts
  <2>2. "analyse" \notin part
    BY <2>1, NeedsFacts
  <2>3. "risk" \notin part
    BY <2>2, NeedsFacts
  <2>4. "author" \notin part
    BY <2>3, NeedsFacts
  <2>5. "validate" \notin part /\ "approval" \notin part
    BY <2>4, NeedsFacts
  <2> QED BY <2>1, <2>2, <2>3, <2>4, <2>5, OrderFacts
<1> QED BY <1>1, <1>2, <1>3, <1>4 DEF Dag!Valid

LEMMA DagFacts ==
  /\ Dag!Phases = Phases
  /\ \A p \in Phases : Dag!Needed(p) = Needs(p) /\ (Dag!Required(p) <=> Required(p))
  /\ Dag!Quiet <=> \A p \in Phases : status[p] # "running"
<1>1. Dag!Phases = Phases
  BY GraphFacts DEF Dag!Phases, Graph
<1> QED BY <1>1, GraphFacts DEF Dag!Needed, Dag!Required, Dag!Quiet, Required, Graph

\* The end of a phase, in the contract.
LEMMA SettleFinishes ==
  ASSUME PhasesInv, NEW p \in Phases, Running(p), NEW new \in {"ok", "failed"},
         status' = [status EXCEPT ![p] = new], UNCHANGED end
  PROVE  Dag!Next
<1>1. PICK k \in 1..6 : Order[k] = p
  BY OrderFacts
<1>2. end = "open"
  BY <1>1, RunningFacts DEF PhasesInv, Running
<1>3. Dag!Finish(p)
  BY <1>2 DEF Dag!Finish, Dag!Become, Running
<1> QED BY <1>3, DagFacts DEF Dag!Next

LEMMA PhaseDagStep ==
  ASSUME PhasesInv, [Next]_vars
  PROVE  [Dag!Next]_(Dag!vars)
<1>1. ASSUME NEW p \in Phases, Begin(p)
      PROVE  Dag!Next
  <2>1. /\ end = "open" /\ ~Aborting /\ status[p] = "waiting"
        /\ \A i, j \in 1..6 : Order[j] = p /\ i < j => status[Order[i]] \in {"ok", "failed"}
        /\ \A d \in Needs(p) : status[d] = "ok"
        /\ status' = [status EXCEPT ![p] = "running"] /\ UNCHANGED end
    BY <1>1, BeginRuns DEF PhasesInv
  <2>2. \A q \in Phases : status[q] # "running"
    <3> SUFFICES ASSUME NEW q \in Phases, status[q] = "running" PROVE FALSE
      OBVIOUS
    <3>1. PICK k \in 1..6 : Order[k] = q
      BY OrderFacts
    <3>2. PICK j \in 1..6 : Order[j] = p
      BY OrderFacts
    <3>3. \A i \in 1..6 : i < k => status[Order[i]] \in {"ok", "failed"}
      BY <3>1, RunningFacts DEF PhasesInv
    <3> QED BY <2>1, <3>1, <3>2, <3>3
  <2>3. Dag!MayGoOn
    BY <2>1, <2>2, DagFacts, GraphFacts DEF Dag!MayGoOn, Graph, Aborting, Failed
  <2>4. Dag!Start(p)
    BY <2>1, <2>3, DagFacts DEF Dag!Start, Dag!Become
  <2> QED BY <2>4, DagFacts DEF Dag!Next
<1>2. ASSUME NEW p \in Phases, Running(p), NEW ok, NEW noted, Settle(p, ok, noted)
      PROVE  Dag!Next
  <2>1. PICK new \in {"ok", "failed"} : status' = [status EXCEPT ![p] = new] /\ UNCHANGED end
    BY <1>2 DEF Settle
  <2> QED BY <1>2, <2>1, SettleFinishes
<1>3. CASE SurveyFails \/ Survey
  BY <1>2, <1>3, OrderFacts DEF SurveyFails, Survey, ReadTests
<1>4. CASE Analyse \/ Parse
  BY <1>2, <1>4, OrderFacts DEF Analyse, Parse
<1>5. CASE Score
  BY <1>2, <1>5, OrderFacts DEF Score
<1>6. CASE Author \/ Placeholders
  BY <1>2, <1>6, OrderFacts DEF Author, Placeholders
<1>7. CASE ValidatePlan \/ AwaitApproval
  BY <1>2, <1>7, OrderFacts DEF ValidatePlan, AwaitApproval
<1>8. CASE Listing \/ UNCHANGED vars
  BY <1>8 DEF Listing, vars, Dag!vars
<1>9. CASE Abort
  <2>1. PICK p \in Phases : Required(p) /\ status[p] = "failed"
    BY <1>9 DEF Abort, Aborting, Failed
  <2>2. end = "open" /\ end' = "aborted" /\ UNCHANGED status
    BY <1>9 DEF Abort, End
  <2>3. ASSUME NEW q \in Phases, status[q] = "running" PROVE FALSE
    <3>1. PICK k \in 1..6 : Order[k] = q
      BY OrderFacts
    <3>2. PICK i \in 1..6 : Order[i] = p
      BY OrderFacts
    <3>3. i < k
      BY <2>1, <2>3, <3>1, <3>2, RunningFacts DEF PhasesInv
    <3> QED BY <2>1, <2>3, <3>1, <3>2, <3>3, FailedBlocks DEF PhasesInv
  <2>4. Dag!Abort
    BY <2>1, <2>2, <2>3, DagFacts DEF Dag!Abort, Dag!End
  <2> QED BY <2>4 DEF Dag!Next
<1>10. CASE Done
  <2>1. /\ ~Aborting /\ \A p \in Phases : status[p] \in {"ok", "failed"}
        /\ end = "open" /\ end' = "done" /\ UNCHANGED status
    BY <1>10 DEF Done, End, Over, PhasesInv, StatusInv
  <2>2. Dag!MayGoOn
    BY <2>1, DagFacts, GraphFacts DEF Dag!MayGoOn, Graph, Aborting, Failed
  <2>3. Dag!Complete
    BY <2>1, <2>2, DagFacts DEF Dag!Complete, Dag!End
  <2> QED BY <2>3 DEF Dag!Next
<1> QED BY <1>1, <1>3, <1>4, <1>5, <1>6, <1>7, <1>8, <1>9, <1>10 DEF Next

\* The six phases keep the contract of module PhaseDag: each begins after all
\* it needs has succeeded, one at a time, and a required failure ends the run.
THEOREM PipelineKeepsDag == Spec => KeepsDag
<1>1. Init => Dag!Init
  BY DEF Init, Dag!Init
<1>2. RunInv /\ [Next]_vars => [Dag!Next]_(Dag!vars)
  BY PhaseDagStep DEF RunInv
<1> QED BY <1>1, <1>2, RunInvariance, PTL DEF Spec, KeepsDag, Dag!Spec


-----------------------------------------------------------------------------
(* The run behind the server. *)

\* How many phases are announced, when they are the first k.
LEMMA AnnouncedFirst ==
  ASSUME NEW s, NEW k \in 0..6,
         \A i \in 1..6 : s[Order[i]] \notin {"waiting", "skipped"} <=> i <= k
  PROVE  Cardinality({i \in DOMAIN Order : s[Order[i]] \notin {"waiting", "skipped"}}) = k
<1>1. {i \in DOMAIN Order : s[Order[i]] \notin {"waiting", "skipped"}} = 1..k
  BY OrderFacts
<1>2. Cardinality(1..k) = k
  <2>1. k \in Int /\ 1 \in Int /\ 0 <= k
    OBVIOUS
  <2>2. Cardinality(1..k) = IF 1 > k THEN 0 ELSE k - 1 + 1
    BY <2>1, FS_Interval
  <2> QED BY <2>1, <2>2
<1> QED BY <1>1, <1>2

LEMMA OrderStands ==
  ASSUME StatusInv
  PROVE  \A i, j \in 1..6 :
           i < j /\ status[Order[j]] # "waiting" => status[Order[i]] \in {"ok", "failed"}
BY OrderFacts DEF StatusInv

LEMMA BeginAnnounces ==
  ASSUME StatusInv, NEW p \in Phases, Begin(p)
  PROVE  Announced \in 0..5 /\ Announced' = Announced + 1
<1>1. PICK m \in 1..6 : Order[m] = p
  BY OrderFacts
<1>2. /\ status[p] = "waiting"
      /\ \A i \in 1..6 : i < m => status[Order[i]] \in {"ok", "failed"}
      /\ status' = [status EXCEPT ![p] = "running"]
  BY <1>1, BeginRuns
<1>3. \A i \in 1..6 : m <= i => status[Order[i]] = "waiting"
  BY <1>1, <1>2, OrderStands
<1>4. \A i \in 1..6 : Order[i] \in Phases /\ (Order[i] = p => i = m)
  BY <1>1, OrderFacts
<1>5. \A i \in 1..6 : status'[Order[i]] = IF i = m THEN "running" ELSE status[Order[i]]
  BY <1>1, <1>2, <1>4 DEF StatusInv
<1>6. Announced = m - 1
  <2>1. \A i \in 1..6 : status[Order[i]] \notin {"waiting", "skipped"} <=> i <= m - 1
    BY <1>2, <1>3
  <2> QED BY <2>1, AnnouncedFirst DEF Announced
<1>7. Announced' = m
  <2>1. \A i \in 1..6 : status'[Order[i]] \notin {"waiting", "skipped"} <=> i <= m
    BY <1>2, <1>3, <1>5
  <2> QED BY <2>1, AnnouncedFirst DEF Announced
<1> QED BY <1>6, <1>7

\* A run is cut short before it announces the last phase, or when that has failed.
LEMMA EndAnnounced ==
  ASSUME PhasesInv, Abort \/ Done
  PROVE  /\ Announced \in 1..6 /\ Required(Order[Announced])
         /\ Done => Announced = 6
         /\ Abort => Announced # 6
<1>1. StatusInv /\ status["approval"] # "failed"
  BY DEF PhasesInv, BoardInv, CloseInv
<1>2. CASE Abort
  <2>1. PICK p \in Phases : Required(p) /\ status[p] = "failed"
    BY <1>2 DEF Abort, Aborting, Failed
  <2>2. PICK k \in 1..6 : Order[k] = p
    BY OrderFacts
  <2>3. \A i \in 1..6 : status[Order[i]] \notin {"waiting", "skipped"} <=> i <= k
    <3>1. \A i \in 1..6 : k < i => status[Order[i]] = "waiting"
      BY <1>1, <2>1, <2>2, FailedBlocks
    <3>2. \A i \in 1..6 : i < k => status[Order[i]] \in {"ok", "failed"}
      BY <1>1, <2>1, <2>2, OrderStands
    <3> QED BY <2>1, <2>2, <3>1, <3>2
  <2>4. Announced = k
    BY <2>3, AnnouncedFirst DEF Announced
  <2>5. ~Done
    BY <1>2 DEF Abort, Done
  <2> QED BY <1>1, <2>1, <2>2, <2>4, <2>5, OrderFacts
<1>3. CASE Done
  <2>1. \A i \in 1..6 : status[Order[i]] \notin {"waiting", "skipped"} <=> i <= 6
    BY <1>1, <1>3, OrderFacts DEF Done, Over, StatusInv
  <2>2. Announced = 6
    BY <2>1, AnnouncedFirst DEF Announced
  <2>3. ~Abort
    BY <1>3 DEF Abort, Done
  <2> QED BY <2>2, <2>3, OrderFacts DEF Required
<1> QED BY <1>2, <1>3

LEMMA SettledStaysAnnounced ==
  ASSUME StatusInv, NEW p \in Phases, Running(p), NEW new \in {"ok", "failed"},
         status' = [status EXCEPT ![p] = new], UNCHANGED end
  PROVE  UNCHANGED Served!runs
<1>1. \A i \in DOMAIN Order : status'[Order[i]] \in {"waiting", "skipped"}
                               <=> status[Order[i]] \in {"waiting", "skipped"}
  BY OrderFacts DEF StatusInv, Running
<1>2. {i \in DOMAIN Order : status'[Order[i]] \notin {"waiting", "skipped"}}
        = {i \in DOMAIN Order : status[Order[i]] \notin {"waiting", "skipped"}}
  BY <1>1
<1>3. UNCHANGED Announced
  BY <1>2 DEF Announced
<1> QED BY <1>3 DEF Served!runs

LEMMA ServedStep ==
  ASSUME PhasesInv, [Next]_vars
  PROVE  [Served!Work(1)]_(Served!runs)
<1> USE DEF PhasesInv
<1>1. ASSUME NEW p \in Phases, Begin(p)
      PROVE  Served!Work(1)
  <2>1. /\ Announced \in 0..5 /\ Announced' = Announced + 1
        /\ end = "open" /\ UNCHANGED end
    BY <1>1, BeginAnnounces, BeginRuns
  <2>2. Served!PhaseStarts(1)
    BY <2>1, OrderFacts DEF Served!PhaseStarts, Served!Live, Served!caller
  <2> QED BY <2>2 DEF Served!Work
<1>2. CASE Abort \/ Done
  <2>1. /\ Announced \in 1..6 /\ Required(Order[Announced])
        /\ end = "open" /\ UNCHANGED status
        /\ IF Announced = 6 THEN end' = "done" ELSE end' = "aborted"
    BY <1>2, EndAnnounced DEF Abort, Done, End
  <2>2. UNCHANGED Announced
    BY <2>1 DEF Announced
  <2>3. Announced \in {i \in DOMAIN Order : Required(Order[i])} \cup {Len(Order)}
    BY <2>1, OrderFacts
  <2>4. Served!Render(1)
    BY <2>1, <2>2, <2>3, OrderFacts DEF Served!Render, Served!Live, Served!caller
  <2> QED BY <2>4 DEF Served!Work
<1>3. ASSUME NEW p \in Phases, Running(p), NEW ok, NEW noted, Settle(p, ok, noted)
      PROVE  UNCHANGED Served!runs
  <2>1. PICK new \in {"ok", "failed"} : status' = [status EXCEPT ![p] = new] /\ UNCHANGED end
    BY <1>3 DEF Settle
  <2> QED BY <1>3, <2>1, SettledStaysAnnounced
<1>4. CASE SurveyFails \/ Survey
  BY <1>3, <1>4, OrderFacts DEF SurveyFails, Survey, ReadTests
<1>5. CASE Analyse \/ Parse
  BY <1>3, <1>5, OrderFacts DEF Analyse, Parse
<1>6. CASE Score
  BY <1>3, <1>6, OrderFacts DEF Score
<1>7. CASE Author \/ Placeholders
  BY <1>3, <1>7, OrderFacts DEF Author, Placeholders
<1>8. CASE ValidatePlan \/ AwaitApproval
  BY <1>3, <1>8, OrderFacts DEF ValidatePlan, AwaitApproval
<1>9. CASE Listing \/ UNCHANGED vars
  BY <1>9 DEF Listing, vars, Served!runs, Announced
<1> QED BY <1>1, <1>2, <1>4, <1>5, <1>6, <1>7, <1>8, <1>9 DEF Next

\* A run is what module TaskServer takes it for: it announces its phases in
\* order, is cut short only after one that may abort it, and its report is
\* whole only when it was not (runPhase, reportPhase, generatePlan).
THEOREM RunsAsServed == Spec => AsServed
<1>1. RunInv /\ [Next]_vars => [Served!Work(1)]_(Served!runs)
  BY ServedStep DEF RunInv
<1> QED BY <1>1, RunInvariance, PTL DEF Spec, AsServed

-----------------------------------------------------------------------------
(* The server. *)

Task == [status : {"none", "running", "completed"}, phase : Nat,
         result : {"none", "whole", "partial"}]

TaskTypes ==
  /\ lines \in Seq([kind : LineKinds, task : TaskIds])
  /\ sequence \in Nat
  /\ task \in [TaskIds -> Task]
  /\ run \in [TaskIds -> {"none", "running", "rendered", "ended"}]
  /\ report \in [TaskIds -> {"none", "whole", "partial"}]
  /\ seen \in [TaskIds -> Task]

\* A task that was not started is not there, and one that was stays.
TaskThere(t) ==
  /\ t > sequence => run[t] = "none" /\ task[t].status = "none"
  /\ t \in handles \/ (at = "started" /\ t = sequence) => task[t].status # "none"

\* A run that is over has rendered something, and only such a task is complete.
ResultThere(t) ==
  /\ run[t] \in {"rendered", "ended"} => report[t] # "none"
  /\ task[t].status = "completed" => run[t] = "ended" /\ task[t].result = report[t]

\* What was told is not ahead of what there is, and of a complete task it is
\* all there is.
ToldBehind(t) ==
  /\ seen[t].phase <= task[t].phase
  /\ seen[t].status = "completed" => task[t] = seen[t]

TaskInv == TaskTypes /\ \A t \in TaskIds : TaskThere(t) /\ ResultThere(t) /\ ToldBehind(t)

-----------------------------------------------------------------------------

LEMMA ServerInitInv == ServerInit => TaskInv
<1> SUFFICES ASSUME ServerInit PROVE TaskInv
  OBVIOUS
<1>1. TaskTypes
  BY DEF ServerInit, TaskTypes, Unpolled, Task
<1>2. \A t \in TaskIds : TaskThere(t) /\ ResultThere(t) /\ ToldBehind(t)
  BY DEF ServerInit, TaskThere, ResultThere, ToldBehind, Unpolled, TaskIds
<1> QED BY <1>1, <1>2 DEF TaskInv

LEMMA TakeTyped ==
  ASSUME TaskTypes, NEW kind \in LineKinds, Take(kind)
  PROVE  /\ Head(lines) \in [kind : LineKinds, task : TaskIds]
         /\ lines' \in Seq([kind : LineKinds, task : TaskIds])
<1> DEFINE Line == [kind : LineKinds, task : TaskIds]
<1>1. lines \in Seq(Line) /\ lines # <<>> /\ lines' = Tail(lines)
  BY DEF TaskTypes, Take
<1> HIDE DEF Line
<1>2. Head(lines) \in Line /\ Tail(lines) \in Seq(Line)
  BY <1>1
<1> QED BY <1>1, <1>2 DEF Line

\* What the caller does, and lines that start nothing, leave the tasks alone.
LEMMA CallerLeaves ==
  ASSUME TaskInv,
         \/ \E kind \in LineKinds, t \in TaskIds : Write(kind, t)
         \/ CloseInput \/ Interrupt \/ Top \/ InputEnds \/ Dismiss \/ UNCHANGED serverVars
  PROVE  TaskInv'
<1>1. lines' \in Seq([kind : LineKinds, task : TaskIds])
  <2>1. ASSUME NEW kind \in LineKinds, NEW t \in TaskIds, Write(kind, t)
        PROVE  lines' \in Seq([kind : LineKinds, task : TaskIds])
    BY <2>1 DEF TaskInv, TaskTypes, Write
  <2>2. CASE CloseInput \/ Interrupt \/ Top \/ InputEnds \/ UNCHANGED serverVars
    BY <2>2 DEF TaskInv, TaskTypes, CloseInput, Interrupt, Top, InputEnds, serverVars, caller
  <2>3. CASE Dismiss
    BY <2>3, TakeTyped DEF TaskInv, Dismiss, LineKinds
  <2> QED BY <2>1, <2>2, <2>3
<1>2. /\ sequence' = sequence /\ task' = task /\ run' = run /\ report' = report
      /\ seen' = seen /\ handles' = handles
      /\ at' = "started" => at = "started"
  BY DEF Write, CloseInput, Interrupt, Top, InputEnds, Dismiss, Take, serverVars, runs, caller
<1> QED BY <1>1, <1>2 DEF TaskInv, TaskTypes, TaskThere, ResultThere, ToldBehind

LEMMA PollKeeps ==
  ASSUME TaskInv, Poll
  PROVE  TaskInv'
<1> DEFINE t == Head(lines).task
<1>1. t \in TaskIds /\ lines' \in Seq([kind : LineKinds, task : TaskIds])
  BY TakeTyped DEF TaskInv, Poll, LineKinds
<1>2. /\ seen' = [seen EXCEPT ![t] = task[t]]
      /\ sequence' = sequence /\ task' = task /\ run' = run /\ report' = report
      /\ handles' = handles /\ at' = "top"
  BY DEF Poll, AnswerPoll, runs
<1> HIDE DEF t
<1>3. TaskTypes'
  BY <1>1, <1>2 DEF TaskInv, TaskTypes
<1>4. ASSUME NEW u \in TaskIds PROVE (TaskThere(u) /\ ResultThere(u) /\ ToldBehind(u))'
  <2>1. TaskThere(u)' /\ ResultThere(u)'
    BY <1>2 DEF TaskInv, TaskThere, ResultThere
  <2>2. ToldBehind(u)'
    BY <1>1, <1>2 DEF TaskInv, TaskTypes, ToldBehind, Task
  <2> QED BY <2>1, <2>2
<1> QED BY <1>3, <1>4 DEF TaskInv

LEMMA StartKeeps ==
  ASSUME TaskInv, StartTask
  PROVE  TaskInv'
<1>1. lines' \in Seq([kind : LineKinds, task : TaskIds])
  BY TakeTyped DEF TaskInv, StartTask, LineKinds
<1>2. /\ sequence' = sequence + 1 /\ at' = "started" /\ handles' = handles
      /\ report' = report /\ seen' = seen
      /\ task' = [task EXCEPT ![sequence + 1].status = "running"]
      /\ run' = [run EXCEPT ![sequence + 1] = "running"]
  BY DEF StartTask
<1>3. TaskTypes'
  <2>1. TaskTypes /\ sequence + 1 \in Nat
    BY DEF TaskInv, TaskTypes
  <2>2. ASSUME NEW u \in TaskIds PROVE [task[u] EXCEPT !.status = "running"] \in Task
    BY <2>1 DEF TaskTypes, Task
  <2>3. task' \in [TaskIds -> Task]
    BY <1>2, <2>1, <2>2 DEF TaskTypes
  <2>4. run' \in [TaskIds -> {"none", "running", "rendered", "ended"}]
    BY <1>2, <2>1 DEF TaskTypes
  <2> QED BY <1>1, <1>2, <2>1, <2>3, <2>4 DEF TaskTypes
<1>4. ASSUME NEW u \in TaskIds PROVE (TaskThere(u) /\ ResultThere(u) /\ ToldBehind(u))'
  <2>0. /\ TaskTypes /\ TaskThere(u) /\ ResultThere(u) /\ ToldBehind(u)
        /\ u \in Nat /\ sequence \in Nat
    BY DEF TaskInv, TaskTypes, TaskIds
  <2>1. CASE u = sequence + 1
    <3>1. /\ run[u] = "none" /\ task[u].status = "none"
      BY <2>0, <2>1 DEF TaskThere
    <3>2. /\ run'[u] = "running" /\ task'[u] = [task[u] EXCEPT !.status = "running"]
      BY <1>2, <2>0, <2>1 DEF TaskTypes
    <3>3. /\ task'[u].status = "running" /\ task'[u].phase = task[u].phase
      BY <2>0, <3>2 DEF TaskTypes, Task
    <3>4. seen[u].status # "completed"
      BY <2>0, <3>1 DEF ToldBehind
    <3> QED BY <1>2, <2>0, <2>1, <3>2, <3>3, <3>4 DEF TaskThere, ResultThere, ToldBehind
  <2>2. CASE u # sequence + 1
    <3>1. run'[u] = run[u] /\ task'[u] = task[u]
      BY <1>2, <2>0, <2>2 DEF TaskTypes
    <3> QED BY <1>2, <2>0, <2>2, <3>1 DEF TaskThere, ResultThere, ToldBehind
  <2> QED BY <2>1, <2>2
<1> QED BY <1>3, <1>4 DEF TaskInv

LEMMA AnswerKeeps ==
  ASSUME TaskInv, AnswerHandle
  PROVE  TaskInv'
BY DEF TaskInv, TaskTypes, TaskThere, ResultThere, ToldBehind, AnswerHandle, caller, runs

LEMMA WorkKeeps ==
  ASSUME TaskInv, NEW t \in TaskIds, Work(t)
  PROVE  TaskInv'
<1>1. /\ TaskTypes /\ TaskThere(t) /\ ResultThere(t) /\ ToldBehind(t) /\ task[t] \in Task
  BY DEF TaskInv, TaskTypes
<1>2. /\ lines' = lines /\ at' = at /\ sequence' = sequence /\ handles' = handles
      /\ seen' = seen
  BY DEF Work, PhaseStarts, Render, Complete, caller
<1>3. ASSUME NEW u \in TaskIds \ {t}
      PROVE  task'[u] = task[u] /\ run'[u] = run[u] /\ report'[u] = report[u]
  BY <1>1 DEF Work, PhaseStarts, Render, Complete, TaskTypes
<1>4. CASE PhaseStarts(t)
  <2>1. /\ run' = run /\ report' = report
        /\ task' = [task EXCEPT ![t] = [task[t] EXCEPT !.phase = @ + 1]]
        /\ run[t] = "running"
    BY <1>4 DEF PhaseStarts, Live
  <2>2. /\ [task[t] EXCEPT !.phase = @ + 1] \in Task
        /\ [task[t] EXCEPT !.phase = @ + 1].status = task[t].status
        /\ [task[t] EXCEPT !.phase = @ + 1].phase = task[t].phase + 1
    BY <1>1 DEF Task
  <2>3. task'[t] = [task[t] EXCEPT !.phase = @ + 1] /\ task' \in [TaskIds -> Task]
    BY <1>1, <2>1, <2>2 DEF TaskTypes
  <2>4. seen[t].phase \in Nat /\ task[t].phase \in Nat
    BY <1>1 DEF TaskTypes, Task
  <2>5. TaskThere(t)' /\ ResultThere(t)' /\ ToldBehind(t)'
    BY <1>1, <1>2, <2>1, <2>2, <2>3, <2>4 DEF TaskThere, ResultThere, ToldBehind
  <2> QED BY <1>1, <1>2, <1>3, <2>1, <2>3, <2>5 DEF TaskInv, TaskTypes, TaskThere, ResultThere, ToldBehind
<1>5. CASE Render(t)
  <2>1. /\ task' = task /\ run' = [run EXCEPT ![t] = "rendered"]
        /\ run[t] = "running" /\ report' \in [TaskIds -> {"none", "whole", "partial"}]
        /\ report'[t] # "none"
    BY <1>1, <1>5 DEF Render, Live, TaskTypes
  <2>2. TaskThere(t)' /\ ResultThere(t)' /\ ToldBehind(t)'
    BY <1>1, <1>2, <2>1 DEF TaskThere, ResultThere, ToldBehind, TaskTypes
  <2> QED BY <1>1, <1>2, <1>3, <2>1, <2>2 DEF TaskInv, TaskTypes, TaskThere, ResultThere, ToldBehind
<1>6. CASE Complete(t)
  <2>1. /\ report' = report /\ run' = [run EXCEPT ![t] = "ended"]
        /\ task' = [task EXCEPT ![t] = [task[t] EXCEPT !.status = "completed", !.result = report[t]]]
        /\ run[t] = "rendered"
    BY <1>6 DEF Complete
  <2>2. /\ [task[t] EXCEPT !.status = "completed", !.result = report[t]] \in Task
        /\ [task[t] EXCEPT !.status = "completed", !.result = report[t]].status = "completed"
        /\ [task[t] EXCEPT !.status = "completed", !.result = report[t]].result = report[t]
        /\ [task[t] EXCEPT !.status = "completed", !.result = report[t]].phase = task[t].phase
    BY <1>1 DEF Task, TaskTypes
  <2>3. /\ task'[t] = [task[t] EXCEPT !.status = "completed", !.result = report[t]]
        /\ task' \in [TaskIds -> Task] /\ run'[t] = "ended"
    BY <1>1, <2>1, <2>2 DEF TaskTypes
  <2>4. seen[t].status # "completed"
    BY <1>1, <2>1 DEF ResultThere, ToldBehind
  <2>5. TaskThere(t)' /\ ResultThere(t)' /\ ToldBehind(t)'
    BY <1>1, <1>2, <2>1, <2>2, <2>3, <2>4 DEF TaskThere, ResultThere, ToldBehind
  <2> QED BY <1>1, <1>2, <1>3, <2>1, <2>3, <2>5 DEF TaskInv, TaskTypes, TaskThere, ResultThere, ToldBehind
<1> QED BY <1>4, <1>5, <1>6 DEF Work

LEMMA ServerStep ==
  ASSUME TaskInv, [ServerNext]_serverVars
  PROVE  TaskInv'
BY CallerLeaves, PollKeeps, StartKeeps, AnswerKeeps, WorkKeeps DEF ServerNext, Serve

\* Only a poll tells anything.
LEMMA OnlyPolls ==
  ASSUME [ServerNext]_serverVars
  PROVE  Poll \/ UNCHANGED seen
BY DEF ServerNext, Serve, Work, Write, CloseInput, Interrupt, Top, InputEnds, Dismiss,
       StartTask, AnswerHandle, PhaseStarts, Render, Complete, serverVars

\* What polls tell of a task never goes back: it is found once its handle was
\* handed out, its phases come in order, and once complete it stays so and has
\* what its run has rendered (TaskStore.Get, SetPhase, Complete).
THEOREM PollsAgree == ServerSpec => PollsTell
<1> DEFINE Tells ==
      \A t \in TaskIds :
        LET told == seen[t]
            tells == seen'[t] IN
        tells # told =>
          /\ t \in handles => tells.status # "none"
          /\ told.phase <= tells.phase
          /\ told.status # "completed"
          /\ tells.status = "completed" => tells.result = report[t] /\ tells.result # "none"
<1>1. TaskInv /\ [ServerNext]_serverVars => [Tells]_seen
  <2> SUFFICES ASSUME TaskInv, Poll, NEW t \in TaskIds, seen'[t] # seen[t]
               PROVE  /\ t \in handles => seen'[t].status # "none"
                      /\ seen[t].phase <= seen'[t].phase
                      /\ seen[t].status # "completed"
                      /\ seen'[t].status = "completed" =>
                           seen'[t].result = report[t] /\ seen'[t].result # "none"
    BY OnlyPolls
  <2>1. seen'[t] = task[t]
    BY DEF TaskInv, TaskTypes, Poll, AnswerPoll
  <2> QED BY <2>1 DEF TaskInv, TaskThere, ResultThere, ToldBehind
<1>2. TaskInv /\ [ServerNext]_serverVars => TaskInv'
  BY ServerStep
<1> QED BY ServerInitInv, <1>1, <1>2, PTL DEF ServerSpec, PollsTell
=============================================================================
