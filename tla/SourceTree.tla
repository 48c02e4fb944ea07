----------------------------- MODULE SourceTree -----------------------------
(***************************************************************************)
(* How a run learns which files there are.  A local directory is walked,   *)
(* all of it but what lies in directories of certain names                 *)
(* (tool/repo/source.go, LocalSource.Tree).  For GitHub the server is      *)
(* asked what it speaks and offers (cmd/testplan/main.go, buildSource;     *)
(* mcpx/resolve.go); the listing comes from its tree tool or, if there is  *)
(* none or its answer is of no use, from a walk through the file tool,     *)
(* one directory a call (mcpx/github.go, Tree).                            *)
(***************************************************************************)
EXTENDS Naturals, Sequences, FiniteSets

CONSTANTS
  Root,
  Subdirs,         \* of each directory, in the order it lists them
  FilesIn,         \* of each directory
  Ignored,         \* the directories with one of the skippedDirectoryNames
  Ceilings,        \* what -max-files may be; 0 is no ceiling
  MaxDirectories   \* maxDirectoriesWalked

Directories == DOMAIN Subdirs
AllFiles == UNION {FilesIn[d] : d \in Directories}
Children(d) == {Subdirs[d][i] : i \in 1..Len(Subdirs[d])}

\* The directories of some, and those below them: what every set holds that
\* has them and, of each directory, the children.
Below(some) ==
  {d \in Directories :
     \A closed \in SUBSET Directories :
       some \subseteq closed /\ (\A e \in closed : Children(e) \subseteq closed)
         => d \in closed}

\* What is left of the repository without some of its directories.
Without(some) == AllFiles \ UNION {FilesIn[d] : d \in Below(some)}

\* Directories form a tree, as a file system's and a repository's do: the walk
\* through the file tool relies on it, for it does not look whether it has been
\* somewhere before.
ASSUME SourceTreeAssumption ==
  /\ Root \in Directories
  /\ \A d \in Directories : Subdirs[d] \in Seq(Directories \ {Root})
  /\ \A d, e \in Directories : \A i \in 1..Len(Subdirs[d]), j \in 1..Len(Subdirs[e]) :
       Subdirs[d][i] = Subdirs[e][j] => d = e /\ i = j
  /\ Below({Root}) = Directories
  /\ DOMAIN FilesIn = Directories
  /\ \A d, e \in Directories : d # e => FilesIn[d] \cap FilesIn[e] = {}
  /\ IsFiniteSet(AllFiles)
  /\ Ignored \subseteq Directories
  /\ Ceilings \subseteq Nat

VARIABLES
  maxFiles,  \* the stated ceiling
  listing,   \* "unasked", "negotiated", "connected" with or "toolless" without
             \*   a tree tool, "walking", "listed", "refused"
  pending,   \* the directories still to list, oldest first
  walked,    \* directoriesWalked
  entries,   \* the files found
  skipped,   \* the directories that could not be listed; only the log says so
  unlisted   \* history: the directories left out without a word

tree == <<maxFiles, listing, pending, walked, entries, skipped, unlisted>>

TreeInit ==
  /\ maxFiles \in Ceilings
  /\ listing = "unasked"
  /\ pending = <<>>
  /\ walked = 0
  /\ entries = {}
  /\ skipped = {}
  /\ unlisted = {}

Become(new) == listing' = new
TooMany(files) == maxFiles > 0 /\ Cardinality(files) > maxFiles

\* The listing is complete, or taken to be; a repository over the ceiling is
\* refused, never cut down to it.
Accept(files) ==
  /\ entries' = files
  /\ Become(IF TooMany(files) THEN "refused" ELSE "listed")

\* A listing without some of the directories is accepted like any other.
AcceptWithout(some) == unlisted' = some /\ Accept(Without(some))

\* LocalSource.Tree: what lies in a directory with one of the ignored names is
\* left out; every other file is opened, and one that cannot be read ends the
\* walk.
ListLocal ==
  /\ listing = "unasked"
  /\ AcceptWithout(Ignored) \/ (Become("refused") /\ UNCHANGED <<entries, unlisted>>)
  /\ UNCHANGED <<pending, walked, skipped>>

\* connectToGitHub and Discover: the server starts, and speaks our protocol
\* version or does not say which.
Negotiate ==
  /\ listing = "unasked"
  /\ Become("refused") \/ Become("negotiated")
  /\ UNCHANGED <<pending, walked, entries, skipped, unlisted>>

Tools == {"tree", "file"}

\* The tools that are used: those found in the catalogue, if it could be had,
\* and those the user names.
Resolved(catalogue, overrides) ==
  LET tools == catalogue \cup overrides IN
  CASE "file" \notin tools -> "refused"
    [] tools = {"file"} -> "toolless"
    [] tools = Tools -> "connected"

\* ResolveToolNames and buildSource: reading files is indispensable, a tree
\* tool is welcome.
ResolveTools ==
  /\ listing = "negotiated"
  /\ \E catalogue, overrides \in SUBSET Tools : Become(Resolved(catalogue, overrides))
  /\ UNCHANGED <<pending, walked, entries, skipped, unlisted>>

StartWalk ==
  /\ Become("walking")
  /\ pending' = <<Root>>
  /\ UNCHANGED <<walked, entries, skipped, unlisted>>

\* Mutant of Truncated: what the server sent is taken.
TruncatedTaken ==
  /\ \E part \in SUBSET AllFiles : part # {} /\ Accept(part)
  /\ UNCHANGED <<pending, walked, skipped, unlisted>>

\* A listing that the server says is not whole refuses the run.
Truncated == Become("refused") /\ UNCHANGED <<pending, walked, entries, skipped, unlisted>>

\* treeViaTreeTool: a listing; of the root alone, if the tool does not declare
\* the parameter that asks for more (buildArguments); a truncated one; or none
\* that is of use.
AskTreeTool ==
  /\ listing = "connected"
  /\ \/ /\ \E some \in {{}, Children(Root)} : Without(some) # {} /\ AcceptWithout(some)
        /\ UNCHANGED <<pending, walked, skipped>>
     \/ Truncated
     \/ StartWalk

WalkWithoutTool == listing = "toolless" /\ StartWalk

\* The walk goes on to the next directory.
Visit ==
  /\ listing = "walking"
  /\ pending # <<>>
  /\ walked < MaxDirectories
  /\ walked' = walked + 1

ListDirectory ==
  /\ Visit
  /\ LET d == Head(pending)
         found == entries \cup FilesIn[d] IN
       /\ pending' = Tail(pending) \o Subdirs[d]
       /\ entries' = found
       /\ Become(IF TooMany(found) THEN "refused" ELSE "walking")
  /\ UNCHANGED <<skipped, unlisted>>

Skip(d) == skipped' = skipped \cup {d}

\* Mutant of DirectoryFails: the directory is put back, to be counted once it
\* can be listed.
DirectoryPutBack ==
  /\ listing = "walking"
  /\ pending # <<>>
  /\ pending' = Append(Tail(pending), Head(pending))
  /\ UNCHANGED <<listing, walked, entries, skipped, unlisted>>

\* A directory that cannot be listed costs itself; the root, the run.
DirectoryFails ==
  /\ Visit
  /\ pending' = Tail(pending)
  /\ IF Head(pending) = Root
       THEN Become("refused") /\ UNCHANGED skipped
       ELSE Skip(Head(pending)) /\ UNCHANGED listing
  /\ UNCHANGED <<entries, unlisted>>

\* The context is done, or there are more directories than the walk may list.
WalkStops ==
  /\ listing = "walking"
  /\ pending # <<>>
  /\ Become("refused")
  /\ UNCHANGED <<pending, walked, entries, skipped, unlisted>>

WalkEnds ==
  /\ listing = "walking"
  /\ pending = <<>>
  /\ Become(IF entries = {} THEN "refused" ELSE "listed")
  /\ UNCHANGED <<pending, walked, entries, skipped, unlisted>>

ListTree ==
  UNCHANGED maxFiles /\
  (\/ ListLocal \/ Negotiate \/ ResolveTools \/ AskTreeTool \/ WalkWithoutTool
   \/ ListDirectory \/ DirectoryFails \/ WalkStops \/ WalkEnds)

\* Whichever way it came about, a listing that is accepted is within the
\* ceiling and has every file of the repository but those below a directory that
\* the log reports as skipped, "a truncated tree would silently produce a plan
\* that looks complete" (github.go 236), with two exceptions that nothing
\* reports: a local listing has nothing of directories with an ignored name, and
\* that of a tree tool which cannot be asked for more has the root's files alone.
ListingHonest ==
  listing = "listed" =>
    /\ entries = Without(skipped \cup unlisted)
    /\ unlisted \in {{}, Ignored, Children(Root)}
    /\ maxFiles > 0 => Cardinality(entries) <= maxFiles

=============================================================================
