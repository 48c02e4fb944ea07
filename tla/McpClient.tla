----------------------------- MODULE McpClient ------------------------------
(***************************************************************************)
(* File reads through one MCP client (mcpx/client.go, call and CallTool;   *)
(* mcpx/github.go, ReadFile): the workers of a phase share a GitHub        *)
(* source, its cache of contents, and the one pair of streams to the       *)
(* server.                                                                 *)
(*                                                                         *)
(* Request ids and the cache are under locks.  The buffered writer and the *)
(* buffered reader, of one array each, are not.  Two calls that meet in    *)
(* one of them race: a line may be lost, cut, or made up of parts of two,  *)
(* and what they leave behind may spoil the lines of later calls.  Of that *)
(* two outcomes are left out: a panic, which ends the process, and an id   *)
(* made up of the digits of two.                                           *)
(* The server is external; it answers in any order, or goes away.          *)
(***************************************************************************)
EXTENDS Integers, Sequences, FiniteSets

CONSTANTS
  Callers,      \* the workers that read files
  Paths,
  NoText,       \* no content
  MaxLines      \* bounds the requests of a behaviour and the lines that answer
                \*   nobody, together, for TLC

ASSUME McpClientAssumption ==
  /\ IsFiniteSet(Callers)
  /\ NoText \notin Paths
  /\ MaxLines \in Nat

\* A content is named by the file that it is of; any other file stands for a
\* content that is not the file's own, with a part missing or mixed as well.
Contents == Paths \cup {NoText}

\* A call: where it stands, its request, what it got, and whether its context
\* has ended.  overlap says that another call has been in the unlocked section
\* where it is.  met is history: so it was there or in the section before.
CallType ==
  [at : {"missed", "sending", "reading", "answered"}, id : Nat, path : Paths,
   text : Contents, ended : BOOLEAN, overlap : BOOLEAN, met : BOOLEAN]

NoCall == [at |-> "idle"]

\* A response holds the content of a file, or an error.
LineType == [id : Nat, text : Contents]

VARIABLES
  nextId,     \* nextRequestID
  requests,   \* the request lines the server has not answered
  responses,  \* the response lines nobody has read, oldest first
  closed,     \* the server has gone
  notices,    \* counts the lines that answer nobody
  cache,      \* contentCache
  call,       \* of each worker
  torn,       \* two calls have met in an unlocked section
  \* history, read by the properties only
  fetched,    \* how many times the content of each file was kept
  mixed       \* the files for which a call that had met another last kept what is
              \*   not their content

streams == <<requests, responses, closed, notices>>
history == <<fetched, mixed>>
vars == <<nextId, streams, cache, call, torn, history>>

TypeOK ==
  /\ nextId \in Nat
  /\ requests \subseteq [id : Nat, path : Paths]
  /\ responses \in Seq(LineType)
  /\ closed \in BOOLEAN
  /\ notices \in Nat
  /\ cache \in [Paths -> Contents]
  /\ call \in [Callers -> CallType \cup {NoCall}]
  /\ torn \in BOOLEAN

Init ==
  /\ nextId = 0
  /\ requests = {} /\ responses = <<>> /\ closed = FALSE /\ notices = 0
  /\ cache = [p \in Paths |-> NoText]
  /\ call = [c \in Callers |-> NoCall]
  /\ torn = FALSE
  /\ fetched = [p \in Paths |-> 0]
  /\ mixed = {}

At(where) == {c \in Callers : call[c].at = where}
InFlight == At("sending") \cup At("reading")

\* c enters an unlocked section; whoever is in it already takes note.
Enter(c, where, entering) ==
  LET others == At(where) \ {c} IN
  /\ call' = [d \in Callers |->
       IF d = c THEN [entering EXCEPT !.at = where, !.overlap = (others # {}),
                                      !.met = @ \/ others # {}]
       ELSE IF d \in others THEN [call[d] EXCEPT !.overlap = TRUE, !.met = TRUE]
       ELSE call[d]]
  /\ torn' = (torn \/ others # {})

\* The call is over.
Return(c) == call' = [call EXCEPT ![c] = NoCall] /\ UNCHANGED torn

\* ReadFile: the cache is looked at under the lock, and then let go.
Read(c, p) ==
  /\ call[c] = NoCall
  /\ cache[p] = NoText
  /\ call' = [call EXCEPT ![c] =
       [at |-> "missed", id |-> 0, path |-> p, text |-> NoText,
        ended |-> FALSE, overlap |-> FALSE, met |-> FALSE]]
  /\ UNCHANGED <<nextId, streams, cache, torn, history>>

NewId == nextId + 1

\* call: a request id, under the lock.
Start(c) ==
  /\ call[c].at = "missed"
  /\ nextId + notices < MaxLines
  /\ nextId' = NewId
  /\ Enter(c, "sending", [call[c] EXCEPT !.id = NewId])
  /\ UNCHANGED <<streams, cache, history>>

Request(c, p) == [id |-> call[c].id, path |-> p]

\* The file that the line of c names as the server gets it: part of it may be
\* that of a call that wrote at the same time.
Named(c) == IF call[c].overlap THEN Paths ELSE {call[c].path}

\* Write and Flush: the line goes out, or is lost, to a call that wrote at the
\* same time or to what two such calls have left in the buffer; then the writer
\* may have failed for good, too.  The context is looked at before the first read.
Send(c) ==
  /\ call[c].at = "sending"
  /\ \/ ~closed /\ \E p \in Named(c) : requests' = requests \cup {Request(c, p)}
     \/ (torn \/ closed) /\ UNCHANGED requests
  /\ \/ (torn \/ closed \/ call[c].ended) /\ Return(c)
     \/ ~closed /\ ~call[c].ended /\ Enter(c, "reading", call[c])
  /\ UNCHANGED <<nextId, responses, closed, notices, cache, history>>

\* Mutant of Mine: the response at hand is taken for the one awaited.
MineAny(c, line) == line.id # 0

Mine(c, line) == line.id = call[c].id

\* Mutant of NextLine: a line for somebody else is left to him.
NextLineKept(c) ==
  responses' = IF Mine(c, Head(responses)) THEN Tail(responses) ELSE responses

NextLine(c) == responses' = Tail(responses)

Reading(c) == call[c].at = "reading"
HasLine(c) == Reading(c) /\ responses # <<>>

Answered(c, content) ==
  /\ call' = [call EXCEPT ![c].at = "answered", ![c].text = content]
  /\ UNCHANGED torn

\* On to the next line, the context permitting.
ReadOn(c) == IF call[c].ended THEN Return(c) ELSE UNCHANGED <<call, torn>>

\* The response to this call: a content or an error.
ReadOwn(c) ==
  /\ HasLine(c)
  /\ Mine(c, Head(responses))
  /\ NextLine(c)
  /\ IF Head(responses).text = NoText THEN Return(c) ELSE Answered(c, Head(responses).text)
  /\ UNCHANGED <<nextId, requests, closed, notices, cache, history>>

\* A notification or the response to another request is dropped; then the
\* context is looked at again.
Skip(c) ==
  /\ HasLine(c)
  /\ ~Mine(c, Head(responses))
  /\ NextLine(c)
  /\ ReadOn(c)
  /\ UNCHANGED <<nextId, requests, closed, notices, cache, history>>

\* What two calls have left in the buffer does not decode, or hides the line.
ReadTorn(c) ==
  /\ HasLine(c)
  /\ torn
  /\ NextLine(c)
  /\ Return(c) \/ ReadOn(c)
  /\ UNCHANGED <<nextId, requests, closed, notices, cache, history>>

\* ReadBytes, while another call is in it: the buffer is refilled by one while the
\* other copies from it, so the line may be put together from what was ever read.
ReadMixed(c) ==
  /\ HasLine(c)
  /\ call[c].overlap
  /\ NextLine(c)
  /\ \E content \in Paths : Answered(c, content)
  /\ UNCHANGED <<nextId, requests, closed, notices, cache, history>>

\* Mutant of AtEnd: the end of the stream is read again.
AtEndAgain(c) == UNCHANGED <<call, torn>>

AtEnd(c) == Return(c)

\* The end of the stream.
ReadEnd(c) ==
  /\ Reading(c)
  /\ closed
  /\ responses = <<>>
  /\ AtEnd(c)
  /\ UNCHANGED <<nextId, streams, cache, history>>

\* Mutant of Put: the content is handed on and not kept.
PutNowhere(c) == UNCHANGED cache

Put(c) == cache' = [cache EXCEPT ![call[c].path] = call[c].text]

\* ReadFile, after the call: the content is kept, under the lock.
Memoise(c) ==
  /\ call[c].at = "answered"
  /\ Put(c)
  /\ fetched' = [fetched EXCEPT ![call[c].path] = @ + 1]
  /\ mixed' = IF call[c].met /\ call[c].text # call[c].path
                THEN mixed \cup {call[c].path} ELSE mixed \ {call[c].path}
  /\ Return(c)
  /\ UNCHANGED <<nextId, streams>>

\* Only a call in flight looks at its context.
ContextEnds(c) ==
  /\ c \in InFlight
  /\ ~call[c].ended
  /\ call' = [call EXCEPT ![c].ended = TRUE]
  /\ UNCHANGED <<nextId, streams, cache, torn, history>>

\* The server answers a request.
Serve(r, content) ==
  /\ ~closed
  /\ requests' = requests \ {r}
  /\ responses' = Append(responses, [id |-> r.id, text |-> content])
  /\ UNCHANGED <<nextId, closed, notices, cache, call, torn, history>>

\* The server writes a line that answers no request.
Notify ==
  /\ ~closed
  /\ nextId + notices < MaxLines
  /\ notices' = notices + 1
  /\ responses' = Append(responses, [id |-> 0, text |-> NoText])
  /\ UNCHANGED <<nextId, requests, closed, cache, call, torn, history>>

\* The server ends, or is killed; what it has written can still be read.
ServerEnds ==
  /\ ~closed
  /\ closed' = TRUE
  /\ requests' = {}
  /\ UNCHANGED <<nextId, responses, notices, cache, call, torn, history>>

Step(c) == Send(c) \/ ReadOwn(c) \/ Skip(c) \/ ReadEnd(c) \/ Memoise(c)

\* What comes of the race, and need not.
Race(c) == ReadTorn(c) \/ ReadMixed(c)

Answer == \E r \in requests : \E content \in {r.path, NoText} : Serve(r, content)

Next ==
  \/ \E c \in Callers : (\E p \in Paths : Read(c, p)) \/ Start(c) \/ Step(c) \/ Race(c) \/ ContextEnds(c)
  \/ Answer
  \/ Notify
  \/ ServerEnds

\* A worker's goroutine runs on, and a server that is there answers.  Nobody
\* need read a file, end a context or end the server.
Spec ==
  /\ Init /\ [][Next]_vars
  /\ \A c \in Callers : WF_vars(Step(c))
  /\ WF_vars(Answer)

(***************************************************************************)
(* Properties                                                              *)
(***************************************************************************)

\* Whatever the order of the responses, and whatever calls that gave up, or that
\* raced, have left on the streams, a content that a read returns, or the cache
\* keeps, is of the file that was asked for, unless that very read met another in
\* the writer or in the reader (Client.call 288-322, GitHubSource.ReadFile 465-479).
AnswerIsOwn ==
  /\ \A c \in Callers :
       call[c].at = "answered" => call[c].text = call[c].path \/ call[c].met
  /\ \A p \in Paths : cache[p] \in {p, NoText} \/ p \in mixed

\* The content of a file is fetched and kept at most once per worker, although
\* looking in the cache and filling it are two steps (github.go 436, 476).  A read
\* that fails or is given up keeps nothing, and asks again when it is tried again.
RefetchBounded == \A p \in Paths : fetched[p] <= Cardinality(Callers)

\* As long as no two calls have met in the writer or in the reader, a call skips
\* what those that gave up have left on the stream and comes to an end, unless the
\* server stays silent for ever.
AloneIsAnswered ==
  \A c \in Callers : (Reading(c) /\ ~torn) ~> (~Reading(c) \/ torn)

\* When the server goes, no call stays behind.
ClosedFreesAll == closed ~> At("reading") = {}

\* "Skip notifications and any response for a different id; a broken stream
\* loses the in-flight request" (client.go 295): that the stream is broken is
\* the only way to lose one.
EveryCallAnswered == \A c \in Callers : Reading(c) ~> ~Reading(c)

=============================================================================
