----------------------------- MODULE Conversation -----------------------------
(***************************************************************************)
(* What one agent loop keeps in view (loop.go): the working set with its   *)
(* compaction and the spill store (memory/working.go), the read and fetch  *)
(* tools that page through what is too large (tool/repo/tools.go,          *)
(* tool/context/fetch.go), and the two wire formats a request is sent in.  *)
(* Content is a sequence of atoms: characters of a line, and the notes     *)
(* that say where to read on.  Guards and the tool policy are modules      *)
(* AgentLoop and ToolPolicy; here a guard may stop the loop at any time.   *)
(***************************************************************************)
EXTENDS Naturals, Sequences, FiniteSetsExt, SequencesExt

CONSTANTS
  Files,      \* file -> the lengths of its lines; <<>> is an empty file
  MaxLines, ReadCap, \* of one read: lines, and size (Len of the content)
  SpillAt,    \* a larger result is spilled; its digest keeps a quarter
  Page,       \* the size of one fetch
  Threshold,  \* 0.7 of the context window
  Fanout,     \* bound: calls in one response
  MaxRounds   \* the iteration budget

\* The sizes the program is built with: a read and a fetch stay below SpillAt
\* but for what follows the cap, and the heading leaves room for lines.
ASSUME ConversationAssumption ==
  /\ \A f \in DOMAIN Files : Files[f] \in Seq(Nat)
  /\ {MaxLines, ReadCap, SpillAt, Page, Fanout} \subseteq Nat
  /\ 0 < MaxLines /\ 1 < ReadCap
  /\ Page < SpillAt /\ SpillAt \div 4 < Page

VARIABLES
  messages, \* the working set: [role, ids, size]
  summary,  \* of what was dropped: [parts, turns, named]
  turns,    \* how many messages were appended
  made,     \* how many calls were made; calls are numbered in their order
  store,    \* payload by handle
  seen,     \* every atom the loop's results have shown
  tried,    \* where files were read from and payloads fetched from
  asked,    \* calls of the response not yet answered
  results,  \* sizes of the answers to the others
  rounds, stage

conversationVars == <<messages, summary, turns, made, store, seen, tried, asked, results, rounds, stage>>

NoSummary == [parts |-> 0, turns |-> 0, named |-> <<>>]

ConversationInit ==
  /\ messages = <<[role |-> "user", ids |-> <<>>, size |-> 1]>>
  /\ summary = NoSummary /\ turns = 1 /\ made = 0
  /\ store = <<>> /\ seen = {} /\ tried = {}
  /\ asked = <<>> /\ results = <<>> /\ rounds = 0 /\ stage = "ready"

-----------------------------------------------------------------------------
\* Reading and paging.

Line(f, n) == [k \in 1..Files[f][n] |-> <<"line", f, n, k>>]
Lines(f, a, b) == FlattenSeq([i \in 1..(b + 1 - a) |-> Line(f, a + i - 1)])

\* resolveRange: past the end is the last line, no or a wrong end is the end.
FirstLine(f, from) == Min({from, Len(Files[f])})
LastLine(f, from, to) ==
  Min({IF to < from THEN Len(Files[f]) ELSE Min({to, Len(Files[f])}), from + MaxLines - 1})

\* The size is looked at before each line, so the last one may overshoot.
Rendered(f, from, to) ==
  Max({from - 1} \union {n \in from..to : 1 + Len(Lines(f, from, n - 1)) < ReadCap})

\* Mutant of Advised: the note names the line after the range asked for.
AdvisedUncapped(f, from, to) == LastLine(f, from, to) + 1

\* The line the note says to read on from.
Advised(f, from, to) == Rendered(f, from, LastLine(f, from, to)) + 1

ReadFile(f, asFrom, to) ==
  LET from == FirstLine(f, asFrom)
      next == Advised(f, from, to)
      shown == Rendered(f, from, LastLine(f, from, to))
  IN <<<<"heading">>>> \o Lines(f, from, shown)
       \o (IF next <= Len(Files[f]) THEN <<<<"more", f, next>>>> ELSE <<>>)

Fetch(h, asFrom) ==
  LET from == IF asFrom > Len(store[h]) THEN 0 ELSE asFrom
      end == Min({from + Page, Len(store[h])})
  IN SubSeq(store[h], from + 1, end)
       \o (IF end < Len(store[h]) THEN <<<<"rest", h, end>>>> ELSE <<>>)

\* An unknown path or handle and an empty file are answered by advice.
Content(c) ==
  CASE c.tool = "read" /\ Files[c.of] # <<>> -> ReadFile(c.of, c.from, c.to)
    [] c.tool = "fetch" /\ c.of \in DOMAIN store -> Fetch(c.of, c.from)
    [] OTHER -> <<<<"advice">>>>

Digest(payload, h) == Append(SubSeq(payload, 1, SpillAt \div 4), <<"handle", h>>)

\* What a model may ask: what it has been told of, and what does not exist.
Reads(f) ==
  [tool : {"read"}, of : {f}, to : {0, 1},
   from : {n \in 1..(Len(Files[f]) + 1) : n = 1 \/ n > Len(Files[f]) \/ <<"more", f, n>> \in seen}]
Fetches(h) ==
  [tool : {"fetch"}, of : {h},
   from : {0} \union {k \in DOMAIN store[h] : <<"rest", h, k>> \in seen}]
Calls ==
  (UNION {Reads(f) : f \in DOMAIN Files}) \union (UNION {Fetches(h) : h \in DOMAIN store})
    \union {[tool |-> "fetch", of |-> 0, from |-> 0]}

-----------------------------------------------------------------------------
\* The working set.

SumOf(s) == FoldSeq(+, 0, s)
ToolCalls(m) == IF m.role = "assistant" THEN m.ids ELSE <<>>
CallsOf(ms) == FlattenSeq([i \in DOMAIN ms |-> ToolCalls(ms[i])])

\* EstimateTokens of what Messages would return.
Estimate(ms) == SumOf([i \in DOMAIN ms |-> ms[i].size]) + summary.parts + Len(summary.named)

Keep(n) == Max({2, n \div 3})

\* Mutant of Summarise: the new summary takes the place of the old one.
SummariseAnew(dropped) == [parts |-> 1, turns |-> Len(dropped), named |-> CallsOf(dropped)]

\* What is dropped is counted and its calls named, after what was said before.
Summarise(dropped) ==
  [parts |-> summary.parts + 1, turns |-> summary.turns + Len(dropped),
   named |-> summary.named \o CallsOf(dropped)]

AppendMessage(m) ==
  LET all == Append(messages, m)
      drop == Len(all) - Keep(Len(all))
      fits == Estimate(all) <= Threshold \/ drop <= 0
  IN /\ turns' = turns + 1
     /\ messages' = IF fits THEN all ELSE SubSeq(all, drop + 1, Len(all))
     /\ summary' = IF fits THEN summary ELSE Summarise(SubSeq(all, 1, drop))

\* Messages: the summary goes first, as the user's.
Request ==
  IF summary = NoSummary THEN messages
  ELSE <<[role |-> "user", ids |-> <<>>, size |-> summary.parts + Len(summary.named)]>> \o messages

\* toWireMessages of the Anthropic provider: one message each, the results as
\* blocks of a user's; a message without blocks is left out.
AnthropicMessages(m) ==
  IF m.role = "user" \/ m.ids # <<>>
    THEN <<[role |-> IF m.role = "assistant" THEN "assistant" ELSE "user", ids |-> m.ids]>>
    ELSE <<>>
AnthropicWire(ms) == FlattenSeq([i \in DOMAIN ms |-> AnthropicMessages(ms[i])])

\* toWireMessages of the other: the system prompt first, a message per result.
OpenAIMessages(m) ==
  IF m.role = "tool" THEN [k \in DOMAIN m.ids |-> [role |-> "tool", ids |-> <<m.ids[k]>>]]
                     ELSE <<[role |-> m.role, ids |-> m.ids]>>
OpenAIWire(ms) ==
  <<[role |-> "system", ids |-> <<>>]>>
    \o FlattenSeq([i \in DOMAIN ms |-> OpenAIMessages(ms[i])])

-----------------------------------------------------------------------------
\* The loop.

\* A response with calls: they are appended, then answered one by one.
Complete ==
  /\ stage = "ready" /\ rounds < MaxRounds
  /\ \E calls \in UNION {[1..k -> Calls] : k \in 1..Fanout} :
       /\ asked' = calls
       /\ made' = made + Len(calls)
       /\ AppendMessage([role |-> "assistant", ids |-> [i \in DOMAIN calls |-> made + i],
                         size |-> Len(calls)])
  /\ results' = <<>> /\ rounds' = rounds + 1 /\ stage' = "calling"
  /\ UNCHANGED <<store, seen, tried>>

\* invokeOne: a result too large for the conversation is put in the store.
InvokeOne ==
  /\ stage = "calling" /\ asked # <<>>
  /\ LET content == Content(Head(asked))
         shown == IF Len(content) > SpillAt THEN Digest(content, Len(store) + 1) ELSE content
     IN /\ store' = IF Len(content) > SpillAt THEN Append(store, content) ELSE store
        /\ seen' = seen \union ToSet(shown)
        /\ results' = Append(results, Len(shown))
  /\ tried' = tried \union {<<Head(asked).tool, Head(asked).of, Head(asked).from>>}
  /\ asked' = Tail(asked)
  /\ UNCHANGED <<messages, summary, turns, made, rounds, stage>>

\* The results are appended as one message, in the order of the calls.
AppendResults(next) ==
  /\ stage = "calling"
  /\ AppendMessage([role |-> "tool", ids |-> [i \in DOMAIN results |-> made - Len(results) - Len(asked) + i],
                    size |-> SumOf(results)])
  /\ asked' = <<>> /\ results' = <<>> /\ stage' = next
  /\ UNCHANGED <<made, store, seen, tried, rounds>>

Reply == asked = <<>> /\ AppendResults("ready")

\* A guard stops the loop before or after a call: it keeps what there is.
StopBetweenCalls == AppendResults("over")

\* No calls in the response, a guard, an error or the end of the context.
Finish ==
  /\ stage = "ready"
  /\ stage' = "over"
  /\ UNCHANGED <<messages, summary, turns, made, store, seen, tried, asked, results, rounds>>

ConversationNext == Complete \/ InvokeOne \/ Reply \/ StopBetweenCalls \/ Finish

ConversationSpec == ConversationInit /\ [][ConversationNext]_conversationVars

-----------------------------------------------------------------------------
\* Results right after their calls, all of them and in their order.  Only the
\* message right after the summary may hold results whose calls were dropped.
PairedInBlocks(wire) ==
  \A i \in DOMAIN wire :
    /\ wire[i].role = "assistant" =>
         i + 1 \in DOMAIN wire /\ wire[i + 1] = [role |-> "user", ids |-> wire[i].ids]
    /\ wire[i].role = "user" /\ wire[i].ids # <<>> =>
         (IF wire[i - 1].role = "assistant" THEN wire[i - 1].ids = wire[i].ids
          ELSE i = 2 /\ summary # NoSummary)

PairedInMessages(wire) ==
  \A i \in DOMAIN wire :
    /\ \A k \in DOMAIN wire[i].ids : wire[i].role = "assistant" =>
         i + k \in DOMAIN wire /\ wire[i + k] = [role |-> "tool", ids |-> <<wire[i].ids[k]>>]
    /\ wire[i].role = "tool" =>
         \/ \E a \in 1..(i - 1) : wire[a].role = "assistant" /\ Contains(wire[a].ids, wire[i].ids[1])
         \/ summary # NoSummary /\ \A j \in 3..i : wire[j].role = "tool"

\* Every turn and call is in the summary or in view, in order and once.
Accounted ==
  /\ summary.turns + Len(messages) = turns
  /\ summary.named \o CallsOf(messages) = [i \in 1..made |-> i]

\* A request, in either wire format, pairs each call with its result and
\* leaves no turn and no call out, whatever was compacted before and how often
\* (working.go:115, anthropic.go:284, openaicompat.go:413).  What it does not
\* promise: the first results in view may be those of calls only summarised.
RequestsWhole ==
  stage = "ready" =>
    /\ PairedInBlocks(AnthropicWire(Request))
    /\ PairedInMessages(OpenAIWire(Request))
    /\ Accounted

Followed(h) == <<"fetch", h, 0>> \in tried /\ \A k \in DOMAIN store[h] : <<"rest", h, k>> \in seen => <<"fetch", h, k>> \in tried
ReadOn(f) == <<"read", f, 1>> \in tried /\ \A n \in DOMAIN Files[f] : <<"more", f, n>> \in seen => <<"read", f, n>> \in tried
Seen(payload) == ToSet(payload) \subseteq seen

\* Following the notes loses nothing.  Who has fetched a payload from its start
\* and from wherever a note said has all of it; who has read a file so, and all
\* that was spilled of it, has every line: over the caps on lines and on size,
\* the digest and the pages, which tools.go:153, loop.go:226 and fetch.go:87 cut
\* at different places.
ReadsComplete ==
  /\ \A h \in DOMAIN store : Followed(h) => Seen(store[h])
  /\ (\A h \in DOMAIN store : Seen(store[h])) =>
       \A f \in DOMAIN Files : ReadOn(f) => Seen(Lines(f, 1, Len(Files[f])))
=============================================================================
