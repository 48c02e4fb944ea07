--------------------------- MODULE McpClientProofs ---------------------------
(***************************************************************************)
(* That no caller of the MCP client that meets no other is given another's *)
(* answer, and that no file is kept more often than there are callers, for *)
(* any number of callers, files, requests and notices.                     *)
(***************************************************************************)
EXTENDS McpClient, FiniteSetTheorems, TLAPS

\* What a call in flight that has met no other can meet on the stream: its id was
\* handed out to it alone, so a request or a response of that id is about its file.
Matches(c) ==
  /\ call[c].id \in 1..nextId
  /\ ~call[c].met =>
       /\ \A r \in requests : r.id = call[c].id => r.path = call[c].path
       /\ \A i \in DOMAIN responses :
            responses[i].id = call[c].id => responses[i].text \in {call[c].path, NoText}

\* Ids on the stream were handed out before.
Issued ==
  /\ \A r \in requests : r.id \in 1..nextId
  /\ \A i \in DOMAIN responses : responses[i].id \in 0..nextId

\* Two calls in flight have two ids.
Apart(c, d) == call[c].id # call[d].id

\* A call in an unlocked section with another has met another.
Noticed(c) == call[c].overlap => call[c].met

Streams ==
  /\ Issued
  /\ \A c \in InFlight : Matches(c) /\ Noticed(c)
  /\ \A c, d \in InFlight : c # d => Apart(c, d)

\* An answered call holds a content.
Filled == \A c \in Callers : call[c].at = "answered" => call[c].text \in Paths

Inv == TypeOK /\ Streams /\ AnswerIsOwn /\ Filled

-----------------------------------------------------------------------------

LEMMA InFlightCall ==
  ASSUME TypeOK, NEW c \in Callers
  PROVE  /\ c \in InFlight <=> call[c].at \in {"sending", "reading"}
         /\ call[c].at # "idle" => call[c] \in CallType
BY DEF TypeOK, InFlight, At, NoCall

\* What entering an unlocked section does to the calls.
LEMMA Entering ==
  ASSUME TypeOK, NEW c \in Callers, NEW where \in {"sending", "reading"},
         NEW entering \in CallType, Enter(c, where, entering)
  PROVE  /\ call' \in [Callers -> CallType \cup {NoCall}] /\ torn' \in BOOLEAN
         /\ call'[c] \in CallType
         /\ call'[c].at = where /\ call'[c].id = entering.id
         /\ call'[c].path = entering.path /\ call'[c].text = entering.text
         /\ entering.met => call'[c].met
         /\ call'[c].overlap => call'[c].met
         /\ \A d \in Callers \ {c} :
              /\ call'[d].at = call[d].at
              /\ call[d].at # "idle" =>
                   /\ call'[d].id = call[d].id /\ call'[d].path = call[d].path
                   /\ call'[d].text = call[d].text
                   /\ call[d].met => call'[d].met
                   /\ (call[d].overlap => call[d].met) => (call'[d].overlap => call'[d].met)
<1> DEFINE others == At(where) \ {c}
<1>1. others \subseteq InFlight
  BY DEF InFlight, At
<1>2. call'[c] = [entering EXCEPT !.at = where, !.overlap = (others # {}),
                                  !.met = @ \/ others # {}]
  BY DEF Enter
<1>3. ASSUME NEW d \in Callers \ {c}
      PROVE  call'[d] = IF d \in others THEN [call[d] EXCEPT !.overlap = TRUE, !.met = TRUE]
                        ELSE call[d]
  BY DEF Enter
<1>8. call' = [d \in Callers |-> call'[d]]
  BY Zenon DEF Enter
<1>9. torn' \in BOOLEAN
  <2>1. torn' = (torn \/ others # {})
    BY DEF Enter
  <2> QED BY Zenon, <2>1
<1> HIDE DEF others
<1>4. call'[c] \in CallType
  <2>1. (others # {}) \in BOOLEAN /\ (entering.met \/ others # {}) \in BOOLEAN
    BY Zenon
  <2> QED BY <1>2, <2>1 DEF CallType
<1>5. /\ call'[c].at = where /\ call'[c].id = entering.id
      /\ call'[c].path = entering.path /\ call'[c].text = entering.text
      /\ call'[c].overlap = (others # {})
      /\ call'[c].met = (entering.met \/ others # {})
  BY <1>2 DEF CallType
<1>6. ASSUME NEW d \in Callers \ {c}
      PROVE  /\ call'[d] \in CallType \cup {NoCall}
             /\ call'[d].at = call[d].at
             /\ call[d].at # "idle" =>
                  /\ call'[d].id = call[d].id /\ call'[d].path = call[d].path
                  /\ call'[d].text = call[d].text
                  /\ call[d].met => call'[d].met
                  /\ (call[d].overlap => call[d].met) => (call'[d].overlap => call'[d].met)
  <2>1. CASE d \in others
    <3>1. call[d] \in CallType
      BY <1>1, <2>1, InFlightCall
    <3>2. call'[d] = [call[d] EXCEPT !.overlap = TRUE, !.met = TRUE]
      BY <1>3, <2>1
    <3> QED BY ONLY <3>1, <3>2 DEF CallType
  <2>2. CASE d \notin others
    <3>1. call'[d] = call[d] /\ call[d] \in CallType \cup {NoCall}
      BY <1>3, <2>2 DEF TypeOK
    <3> QED BY ONLY <3>1
  <2> QED BY <2>1, <2>2
<1>7. call' \in [Callers -> CallType \cup {NoCall}]
  BY ONLY <1>4, <1>6, <1>8
<1> QED BY <1>4, <1>5, <1>6, <1>7, <1>9

-----------------------------------------------------------------------------
\* Types.

LEMMA LinesTyped ==
  ASSUME TypeOK, responses # <<>>
  PROVE  /\ Head(responses) \in LineType
         /\ Tail(responses) \in Seq(LineType)
BY DEF TypeOK

LEMMA AnsweredTyped ==
  ASSUME TypeOK, NEW c \in Callers, call[c] \in CallType,
         NEW content \in Contents, Answered(c, content)
  PROVE  call' \in [Callers -> CallType \cup {NoCall}] /\ torn' \in BOOLEAN
<1>1. call' = [call EXCEPT ![c] = [@ EXCEPT !.at = "answered", !.text = content]]
  BY DEF Answered
<1>2. [call[c] EXCEPT !.at = "answered", !.text = content] \in CallType
  BY DEF CallType
<1>3. torn' \in BOOLEAN
  BY DEF Answered, TypeOK
<1> QED BY <1>1, <1>2, <1>3 DEF TypeOK

LEMMA ReturnTyped ==
  ASSUME TypeOK, NEW c \in Callers, Return(c)
  PROVE  call' \in [Callers -> CallType \cup {NoCall}] /\ torn' \in BOOLEAN
BY DEF TypeOK, Return

LEMMA InitTyped == Init => TypeOK
<1> SUFFICES ASSUME Init PROVE TypeOK
  OBVIOUS
<1>1. /\ nextId \in Nat /\ notices \in Nat
      /\ requests \subseteq [id : Nat, path : Paths]
      /\ responses \in Seq(LineType)
  BY DEF Init
<1>3. closed \in BOOLEAN /\ torn \in BOOLEAN
  BY Zenon DEF Init
<1>2. /\ cache \in [Paths -> Contents]
      /\ call \in [Callers -> CallType \cup {NoCall}]
  BY DEF Init, Contents
<1> QED BY <1>1, <1>2, <1>3 DEF TypeOK

\* Reading a line: the context is looked at, or not, and the call goes on.
LEMMA ReadOnTyped ==
  ASSUME TypeOK, NEW c \in Callers, ReadOn(c)
  PROVE  call' \in [Callers -> CallType \cup {NoCall}] /\ torn' \in BOOLEAN
BY ReturnTyped DEF ReadOn, TypeOK

LEMMA StepTyped ==
  ASSUME TypeOK, NEW c \in Callers, Step(c) \/ Race(c)
  PROVE  TypeOK'
<1> USE McpClientAssumption
<1>1. CASE Send(c)
  <2>1. call[c] \in CallType /\ c \in InFlight
    BY <1>1, InFlightCall DEF Send
  <2>2. requests' \subseteq [id : Nat, path : Paths]
    <3>1. PICK p \in Paths : requests' \subseteq requests \cup {Request(c, p)}
      BY <1>1, <2>1 DEF Send, Named, CallType
    <3> QED BY <2>1, <3>1 DEF Request, TypeOK, CallType
  <2>3. call' \in [Callers -> CallType \cup {NoCall}] /\ torn' \in BOOLEAN
    <3>1. CASE Return(c)
      BY <3>1, ReturnTyped
    <3>2. CASE Enter(c, "reading", call[c])
      BY <2>1, <3>2, Entering
    <3> QED BY <1>1, <3>1, <3>2 DEF Send
  <2> QED BY <1>1, <2>2, <2>3 DEF Send, TypeOK
<1>2. CASE ReadOwn(c)
  <2>1. call[c] \in CallType /\ Head(responses) \in LineType /\ Tail(responses) \in Seq(LineType)
    BY <1>2, InFlightCall, LinesTyped DEF ReadOwn, HasLine, Reading
  <2>2. call' \in [Callers -> CallType \cup {NoCall}] /\ torn' \in BOOLEAN
    <3>1. CASE Return(c)
      BY <3>1, ReturnTyped
    <3>2. CASE Answered(c, Head(responses).text)
      BY <2>1, <3>2, AnsweredTyped DEF LineType
    <3> QED BY <1>2, <3>1, <3>2 DEF ReadOwn
  <2> QED BY <1>2, <2>1, <2>2 DEF ReadOwn, NextLine, TypeOK
<1>3. CASE Skip(c)
  <2>1. Tail(responses) \in Seq(LineType)
    BY <1>3, LinesTyped DEF Skip, HasLine
  <2>2. call' \in [Callers -> CallType \cup {NoCall}] /\ torn' \in BOOLEAN
    BY <1>3, ReadOnTyped DEF Skip
  <2> QED BY <1>3, <2>1, <2>2 DEF Skip, NextLine, TypeOK
<1>4. CASE ReadTorn(c)
  <2>1. Tail(responses) \in Seq(LineType)
    BY <1>4, LinesTyped DEF ReadTorn, HasLine
  <2>2. call' \in [Callers -> CallType \cup {NoCall}] /\ torn' \in BOOLEAN
    BY <1>4, ReturnTyped, ReadOnTyped DEF ReadTorn
  <2> QED BY <1>4, <2>1, <2>2 DEF ReadTorn, NextLine, TypeOK
<1>7. CASE ReadMixed(c)
  <2>1. call[c] \in CallType /\ Tail(responses) \in Seq(LineType)
    BY <1>7, InFlightCall, LinesTyped DEF ReadMixed, HasLine, Reading
  <2>2. PICK content \in Contents : Answered(c, content)
    BY <1>7 DEF ReadMixed, Contents
  <2>3. call' \in [Callers -> CallType \cup {NoCall}] /\ torn' \in BOOLEAN
    BY <2>1, <2>2, AnsweredTyped
  <2> QED BY <1>7, <2>1, <2>3 DEF ReadMixed, NextLine, TypeOK
<1>5. CASE ReadEnd(c)
  BY <1>5, ReturnTyped DEF ReadEnd, AtEnd, streams, TypeOK
<1>6. CASE Memoise(c)
  <2>1. call[c] \in CallType
    BY <1>6, InFlightCall DEF Memoise
  <2>2. cache' \in [Paths -> Contents]
    BY <1>6, <2>1 DEF Memoise, Put, CallType, TypeOK
  <2> QED BY <1>6, <2>2, ReturnTyped DEF Memoise, streams, TypeOK
<1> QED BY <1>1, <1>2, <1>3, <1>4, <1>5, <1>6, <1>7 DEF Step, Race

LEMMA NextTyped ==
  ASSUME TypeOK, [Next]_vars
  PROVE  TypeOK'
<1> USE McpClientAssumption
<1>1. ASSUME NEW c \in Callers, NEW p \in Paths, Read(c, p) PROVE TypeOK'
  <2>1. [at |-> "missed", id |-> 0, path |-> p, text |-> NoText,
         ended |-> FALSE, overlap |-> FALSE, met |-> FALSE] \in CallType
    BY DEF CallType, Contents
  <2> QED BY <1>1, <2>1 DEF Read, streams, TypeOK
<1>2. ASSUME NEW c \in Callers, Start(c) PROVE TypeOK'
  <2>1. nextId' \in Nat
    BY <1>2 DEF Start, NewId, TypeOK
  <2>2. [call[c] EXCEPT !.id = NewId] \in CallType
    <3>1. call[c] \in CallType /\ NewId \in Nat
      BY <1>2, InFlightCall DEF Start, NewId, TypeOK
    <3> QED BY <3>1 DEF CallType
  <2>3. call' \in [Callers -> CallType \cup {NoCall}] /\ torn' \in BOOLEAN
    BY <1>2, <2>2, Entering DEF Start
  <2> QED BY <1>2, <2>1, <2>3 DEF Start, streams, TypeOK
<1>3. ASSUME NEW c \in Callers, Step(c) \/ Race(c) PROVE TypeOK'
  BY <1>3, StepTyped
<1>4. ASSUME NEW c \in Callers, ContextEnds(c) PROVE TypeOK'
  <2>1. call[c] \in CallType
    BY <1>4, InFlightCall DEF ContextEnds
  <2>2. [call[c] EXCEPT !.ended = TRUE] \in CallType
    BY <2>1 DEF CallType
  <2> QED BY <1>4, <2>2 DEF ContextEnds, streams, TypeOK
<1>5. ASSUME NEW r \in requests, NEW content \in {r.path, NoText}, Serve(r, content) PROVE TypeOK'
  <2>1. [id |-> r.id, text |-> content] \in LineType
    BY <1>5 DEF TypeOK, LineType, Contents
  <2>2. /\ responses' \in Seq(LineType) /\ requests' \subseteq [id : Nat, path : Paths]
        /\ nextId' \in Nat /\ notices' \in Nat
    BY <1>5, <2>1 DEF Serve, TypeOK
  <2>3. closed' = closed /\ cache' = cache /\ call' = call /\ torn' = torn
    BY <1>5 DEF Serve
  <2> QED BY <2>2, <2>3 DEF TypeOK
<1>6. CASE Notify
  <2>1. [id |-> 0, text |-> NoText] \in LineType
    BY DEF LineType, Contents
  <2>2. /\ responses' \in Seq(LineType) /\ requests' \subseteq [id : Nat, path : Paths]
        /\ nextId' \in Nat /\ notices' \in Nat
    BY <1>6, <2>1 DEF Notify, TypeOK
  <2>3. closed' = closed /\ cache' = cache /\ call' = call /\ torn' = torn
    BY <1>6 DEF Notify
  <2> QED BY <2>2, <2>3 DEF TypeOK
<1>7. CASE ServerEnds
  BY <1>7 DEF ServerEnds, history, TypeOK
<1>8. CASE UNCHANGED vars
  BY <1>8 DEF vars, streams, TypeOK
<1> QED BY <1>1, <1>2, <1>3, <1>4, <1>5, <1>6, <1>7, <1>8 DEF Next, Answer

-----------------------------------------------------------------------------
\* The stream.

\* Every action but Start: who is still in flight was, with the same request,
\* and what is on the stream was, or is its caller's request or its answer.
Kept(d) ==
  /\ d \in InFlight
  /\ call'[d].id = call[d].id /\ call'[d].path = call[d].path
  /\ call[d].met => call'[d].met
  /\ call'[d].overlap => call'[d].met

FromRequests(line) == \E r \in requests : line.id = r.id /\ line.text \in {r.path, NoText}

FromStreams ==
  /\ nextId' = nextId
  /\ \A r \in requests' :
       \/ r \in requests
       \/ \E c \in InFlight : r.id = call[c].id /\ (r.path = call[c].path \/ call[c].met)
  /\ \A i \in DOMAIN responses' :
       \/ \E j \in DOMAIN responses : responses'[i] = responses[j]
       \/ FromRequests(responses'[i])
       \/ responses'[i].id = 0

LEMMA StreamsKept ==
  ASSUME TypeOK, Streams, FromStreams, \A d \in InFlight' : Kept(d)
  PROVE  Streams'
<1>1. nextId \in Nat /\ nextId' = nextId
  BY DEF TypeOK, FromStreams
<1>2. ASSUME NEW r \in requests'
      PROVE  \/ r \in requests
             \/ \E c \in InFlight : r.id = call[c].id /\ (r.path = call[c].path \/ call[c].met)
  BY DEF FromStreams
<1>3. Issued'
  <2>1. \A r \in requests' : r.id \in 1..nextId
    BY <1>2 DEF Streams, Issued, Matches
  <2>2. ASSUME NEW i \in DOMAIN responses' PROVE responses'[i].id \in 0..nextId
    <3>1. CASE \E j \in DOMAIN responses : responses'[i] = responses[j]
      BY <3>1 DEF Streams, Issued
    <3>2. CASE FromRequests(responses'[i])
      BY <1>1, <3>2 DEF Streams, Issued, FromRequests
    <3>3. CASE responses'[i].id = 0
      BY <1>1, <3>3
    <3> QED BY <3>1, <3>2, <3>3 DEF FromStreams
  <2> QED BY <1>1, <2>1, <2>2 DEF Issued
<1>4. ASSUME NEW c \in InFlight' PROVE Matches(c)' /\ Noticed(c)'
  <2>1. /\ c \in InFlight /\ Matches(c)
        /\ call'[c].id = call[c].id /\ call'[c].path = call[c].path
        /\ call[c].met => call'[c].met
        /\ call'[c].overlap => call'[c].met
    BY DEF Kept, Streams
  <2>2. ASSUME ~call[c].met, NEW r \in requests', r.id = call[c].id
        PROVE  r.path = call[c].path
    <3>1. CASE r \in requests
      BY <2>1, <2>2, <3>1 DEF Matches
    <3>2. ASSUME NEW d \in InFlight, r.id = call[d].id, r.path = call[d].path \/ call[d].met
          PROVE  r.path = call[c].path
      BY <2>1, <2>2, <3>2 DEF Streams, Apart
    <3> QED BY <1>2, <3>1, <3>2
  <2>3. ASSUME ~call[c].met, NEW i \in DOMAIN responses', responses'[i].id = call[c].id
        PROVE  responses'[i].text \in {call[c].path, NoText}
    <3>1. CASE \E j \in DOMAIN responses : responses'[i] = responses[j]
      BY <2>1, <2>3, <3>1 DEF Matches
    <3>2. CASE FromRequests(responses'[i])
      BY <2>1, <2>3, <3>2 DEF Matches, FromRequests
    <3>3. CASE responses'[i].id = 0
      BY <1>1, <2>1, <2>3, <3>3 DEF Matches
    <3> QED BY <3>1, <3>2, <3>3 DEF FromStreams
  <2> QED BY <1>1, <2>1, <2>2, <2>3 DEF Matches, Noticed
<1>5. ASSUME NEW c \in InFlight', NEW d \in InFlight', c # d PROVE Apart(c, d)'
  BY <1>5 DEF Kept, Streams, Apart
<1> QED BY <1>3, <1>4, <1>5 DEF Streams

LEMMA StartKeepsStreams ==
  ASSUME TypeOK, Streams, NEW c \in Callers, Start(c)
  PROVE  Streams'
<1> DEFINE started == [call[c] EXCEPT !.id = NewId]
<1>1. /\ nextId \in Nat /\ nextId' = nextId + 1 /\ NewId = nextId + 1
      /\ UNCHANGED <<requests, responses>>
  BY DEF TypeOK, Start, NewId, streams
<1>2. call[c] \in CallType /\ c \notin InFlight
  BY InFlightCall DEF Start
<1>3. started \in CallType /\ started.id = nextId + 1
  BY <1>1, <1>2 DEF CallType
<1>4. Enter(c, "sending", started)
  BY DEF Start
<1> HIDE DEF started
<1>5. /\ call'[c].at = "sending" /\ call'[c].id = nextId + 1
      /\ call'[c].overlap => call'[c].met
      /\ \A d \in Callers \ {c} :
           /\ call'[d].at = call[d].at
           /\ call[d].at # "idle" =>
                /\ call'[d].id = call[d].id /\ call'[d].path = call[d].path
                /\ call[d].met => call'[d].met
                /\ (call[d].overlap => call[d].met) => (call'[d].overlap => call'[d].met)
  BY <1>3, <1>4, Entering
<1>6. InFlight \subseteq Callers /\ InFlight' = InFlight \cup {c}
  BY <1>2, <1>5 DEF InFlight, At
<1>7. Issued'
  BY <1>1 DEF Streams, Issued
<1>8. ASSUME NEW d \in InFlight' PROVE Matches(d)' /\ Noticed(d)'
  <2>1. CASE d = c
    BY <1>1, <1>5, <2>1 DEF Matches, Noticed, Streams, Issued
  <2>2. CASE d # c
    <3>1. /\ d \in InFlight /\ Matches(d) /\ Noticed(d)
          /\ d \in Callers \ {c} /\ call[d].at # "idle"
      BY <1>6, <2>2, InFlightCall DEF Streams
    <3>2. /\ call'[d].id = call[d].id /\ call'[d].path = call[d].path
          /\ call[d].met => call'[d].met
          /\ (call[d].overlap => call[d].met) => (call'[d].overlap => call'[d].met)
      BY <1>5, <3>1
    <3> QED BY <1>1, <3>1, <3>2 DEF Matches, Noticed
  <2> QED BY <2>1, <2>2
<1>9. ASSUME NEW d \in InFlight PROVE Apart(c, d)' /\ Apart(d, c)'
  <2>1. d # c /\ d \in Callers /\ call[d].at # "idle" /\ Matches(d)
    BY <1>2, <1>6, InFlightCall DEF Streams
  <2> QED BY <1>1, <1>5, <2>1 DEF Apart, Matches
<1>10. ASSUME NEW d \in InFlight, NEW e \in InFlight, d # e PROVE Apart(d, e)'
  <2>1. /\ d \in Callers \ {c} /\ call[d].at # "idle"
        /\ e \in Callers \ {c} /\ call[e].at # "idle" /\ Apart(d, e)
    BY <1>2, <1>6, <1>10, InFlightCall DEF Streams
  <2> QED BY <1>5, <2>1 DEF Apart
<1> QED BY <1>6, <1>7, <1>8, <1>9, <1>10 DEF Streams

\* A step that leaves c, and all others as they are, keeps what is in flight.
LEMMA LeavingKept ==
  ASSUME TypeOK, Streams, NEW c \in Callers,
         \A d \in Callers \ {c} : call'[d] = call[d],
         call'[c].at \notin {"sending", "reading"}
  PROVE  \A d \in InFlight' : Kept(d)
BY DEF InFlight, At, Kept, Streams, Noticed

LEMMA TailFrom ==
  ASSUME TypeOK, responses # <<>>, responses' = Tail(responses)
  PROVE  \A i \in DOMAIN responses' : \E j \in DOMAIN responses : responses'[i] = responses[j]
<1>1. responses \in Seq(LineType)
  BY DEF TypeOK
<1>2. \A i \in 1..Len(Tail(responses)) :
        i + 1 \in 1..Len(responses) /\ Tail(responses)[i] = responses[i + 1]
  BY <1>1
<1>3. Tail(responses) \in Seq(LineType)
  BY <1>1
<1> QED BY <1>1, <1>2, <1>3

LEMMA StepKeepsStreams ==
  ASSUME TypeOK, Streams, NEW c \in Callers, Step(c) \/ Race(c)
  PROVE  FromStreams /\ \A d \in InFlight' : Kept(d)
<1> USE DEF FromStreams
<1>same. ASSUME UNCHANGED call PROVE \A d \in InFlight' : Kept(d)
  BY <1>same DEF InFlight, At, Kept, Streams, Noticed
<1>return. ASSUME Return(c) PROVE \A d \in InFlight' : Kept(d)
  <2>1. call'[c].at = "idle" /\ \A d \in Callers \ {c} : call'[d] = call[d]
    BY <1>return DEF Return, NoCall, TypeOK
  <2> QED BY <2>1, LeavingKept
<1>on. ASSUME ReadOn(c) PROVE \A d \in InFlight' : Kept(d)
  BY <1>on, <1>return, <1>same DEF ReadOn
<1>answered. ASSUME NEW content, call[c] \in CallType, Answered(c, content)
             PROVE  \A d \in InFlight' : Kept(d)
  <2>1. call'[c].at = "answered" /\ \A d \in Callers \ {c} : call'[d] = call[d]
    BY <1>answered DEF Answered, CallType, TypeOK
  <2> QED BY <2>1, LeavingKept
<1>1. CASE Send(c)
  <2>1. call[c] \in CallType /\ c \in InFlight /\ Noticed(c)
    BY <1>1, InFlightCall DEF Send, Streams
  <2>2. FromStreams
    <3>1. UNCHANGED <<nextId, responses>>
      BY <1>1 DEF Send
    <3>2. ASSUME NEW r \in requests', r \notin requests
          PROVE  r.id = call[c].id /\ (r.path = call[c].path \/ call[c].met)
      <4>1. PICK p \in Named(c) : requests' = requests \cup {Request(c, p)}
        BY <1>1, <3>2 DEF Send
      <4>2. r = Request(c, p)
        BY <3>2, <4>1
      <4> QED BY <2>1, <4>1, <4>2 DEF Request, Named, Noticed
    <3> QED BY <2>1, <3>1, <3>2
  <2>3. CASE Enter(c, "reading", call[c])
    <3>1. /\ call'[c].id = call[c].id /\ call'[c].path = call[c].path
          /\ call[c].met => call'[c].met
          /\ call'[c].overlap => call'[c].met
          /\ \A d \in Callers \ {c} :
               /\ call'[d].at = call[d].at
               /\ call[d].at # "idle" =>
                    /\ call'[d].id = call[d].id /\ call'[d].path = call[d].path
                    /\ call[d].met => call'[d].met
                    /\ (call[d].overlap => call[d].met) => (call'[d].overlap => call'[d].met)
      BY <2>1, <2>3, Entering
    <3>2. Kept(c)
      BY <2>1, <3>1 DEF Kept
    <3>3. ASSUME NEW d \in InFlight', d # c PROVE Kept(d)
      <4>1. d \in Callers \ {c} /\ d \in InFlight /\ call[d].at # "idle" /\ Noticed(d)
        BY <3>1, <3>3, InFlightCall DEF InFlight, At, Streams
      <4> QED BY <3>1, <4>1 DEF Kept, Noticed
    <3> QED BY <2>2, <3>2, <3>3
  <2>4. Return(c) \/ Enter(c, "reading", call[c])
    BY <1>1 DEF Send
  <2>5. \A d \in InFlight' : Kept(d)
    BY <1>return, <2>3, <2>4
  <2> QED BY <2>2, <2>5
<1>2. CASE ReadOwn(c)
  <2>1. call[c] \in CallType
    BY <1>2, InFlightCall DEF ReadOwn, HasLine, Reading
  <2>2. FromStreams
    BY <1>2, TailFrom DEF ReadOwn, HasLine, NextLine
  <2>3. Return(c) \/ Answered(c, Head(responses).text)
    BY <1>2 DEF ReadOwn
  <2>4. \A d \in InFlight' : Kept(d)
    <3>1. CASE Return(c)
      BY <1>return, <3>1
    <3>2. CASE Answered(c, Head(responses).text)
      BY <1>answered, <2>1, <3>2
    <3> QED BY <2>3, <3>1, <3>2
  <2> QED BY <2>2, <2>4
<1>3. CASE Skip(c)
  BY <1>3, <1>on, TailFrom DEF Skip, HasLine, NextLine
<1>4. CASE ReadTorn(c)
  BY <1>4, <1>return, <1>on, TailFrom DEF ReadTorn, HasLine, NextLine
<1>7. CASE ReadMixed(c)
  <2>1. call[c] \in CallType
    BY <1>7, InFlightCall DEF ReadMixed, HasLine, Reading
  <2>2. PICK content \in Paths : Answered(c, content)
    BY <1>7 DEF ReadMixed
  <2>3. \A d \in InFlight' : Kept(d)
    BY <1>answered, <2>1, <2>2
  <2> QED BY <1>7, <2>3, TailFrom DEF ReadMixed, HasLine, NextLine
<1>5. CASE ReadEnd(c)
  BY <1>5, <1>return DEF ReadEnd, AtEnd, streams
<1>6. CASE Memoise(c)
  BY <1>6, <1>return DEF Memoise, streams
<1> QED BY <1>1, <1>2, <1>3, <1>4, <1>5, <1>6, <1>7 DEF Step, Race

LEMMA NextKeepsStreams ==
  ASSUME TypeOK, Streams, [Next]_vars
  PROVE  Streams'
<1>1. ASSUME NEW c \in Callers, NEW p \in Paths, Read(c, p) PROVE Streams'
  <2>1. call'[c].at = "missed" /\ \A d \in Callers \ {c} : call'[d] = call[d]
    BY <1>1 DEF Read, TypeOK
  <2>2. \A d \in InFlight' : Kept(d)
    BY <2>1, LeavingKept
  <2> QED BY <1>1, <2>2, StreamsKept DEF Read, streams, FromStreams
<1>2. ASSUME NEW c \in Callers, Start(c) PROVE Streams'
  BY <1>2, StartKeepsStreams
<1>3. ASSUME NEW c \in Callers, Step(c) \/ Race(c) PROVE Streams'
  BY <1>3, StepKeepsStreams, StreamsKept
<1>4. ASSUME NEW c \in Callers, ContextEnds(c) PROVE Streams'
  <2>1. call[c] \in CallType /\ call' = [call EXCEPT ![c] = [@ EXCEPT !.ended = TRUE]]
    BY <1>4, InFlightCall DEF ContextEnds
  <2>2. /\ call'[c].at = call[c].at /\ call'[c].id = call[c].id /\ call'[c].path = call[c].path
        /\ call'[c].met = call[c].met /\ call'[c].overlap = call[c].overlap
        /\ \A d \in Callers \ {c} : call'[d] = call[d]
    BY <2>1 DEF TypeOK, CallType
  <2>3. \A d \in InFlight' : Kept(d)
    BY <2>2 DEF InFlight, At, Kept, Streams, Noticed
  <2> QED BY <1>4, <2>3, StreamsKept DEF ContextEnds, streams, FromStreams
<1>same. ASSUME UNCHANGED call PROVE \A d \in InFlight' : Kept(d)
  BY <1>same DEF InFlight, At, Kept, Streams, Noticed
<1>append. ASSUME NEW line, responses' = Append(responses, line), nextId' = nextId,
                  requests' \subseteq requests, FromRequests(line) \/ line.id = 0
           PROVE  FromStreams
  <2>1. responses \in Seq(LineType)
    BY DEF TypeOK
  <2>2. ASSUME NEW i \in DOMAIN responses'
        PROVE  responses'[i] = line \/ \E j \in DOMAIN responses : responses'[i] = responses[j]
    BY <1>append, <2>1
  <2> QED BY <1>append, <2>2 DEF FromStreams
<1>5. ASSUME NEW r \in requests, NEW content \in {r.path, NoText}, Serve(r, content) PROVE Streams'
  <2>1. FromRequests([id |-> r.id, text |-> content])
    BY DEF FromRequests
  <2>2. FromStreams
    BY <1>5, <1>append, <2>1 DEF Serve
  <2> QED BY <1>5, <1>same, <2>2, StreamsKept DEF Serve
<1>6. CASE Notify
  <2>1. FromStreams
    BY <1>6, <1>append DEF Notify
  <2> QED BY <1>6, <1>same, <2>1, StreamsKept DEF Notify
<1>7. CASE ServerEnds
  BY <1>7, <1>same, StreamsKept DEF ServerEnds, FromStreams
<1>8. CASE UNCHANGED vars
  BY <1>8, <1>same, StreamsKept DEF vars, streams, FromStreams
<1> QED BY <1>1, <1>2, <1>3, <1>4, <1>5, <1>6, <1>7, <1>8 DEF Next, Answer

-----------------------------------------------------------------------------
\* Answers.

\* What a call that is answered holds.
Own(c) == call[c].text = call[c].path \/ call[c].met

LEMMA AnsweredHolds ==
  ASSUME TypeOK, NEW c \in Callers, Reading(c), NEW content, Answered(c, content)
  PROVE  call'[c].text = content /\ call'[c].path = call[c].path /\ call'[c].met = call[c].met
BY InFlightCall DEF Reading, Answered, CallType, TypeOK

LEMMA ReadIsOwn ==
  ASSUME TypeOK, Streams, NEW c \in Callers, ReadOwn(c) \/ ReadMixed(c),
         call'[c].at = "answered"
  PROVE  Own(c)'
<1>1. /\ call[c] \in CallType /\ c \in InFlight /\ Matches(c) /\ Noticed(c)
      /\ Reading(c) /\ responses # <<>>
  BY InFlightCall DEF ReadOwn, ReadMixed, HasLine, Reading, Streams
<1>2. 1 \in DOMAIN responses /\ Head(responses) = responses[1]
  BY <1>1 DEF TypeOK
<1>3. CASE ReadOwn(c)
  <2>1. ~call[c].met => Head(responses).text \in {call[c].path, NoText}
    BY <1>1, <1>2, <1>3 DEF Matches, ReadOwn, Mine
  <2>2. CASE Return(c)
    BY <2>2 DEF Return, NoCall, TypeOK
  <2>3. CASE Head(responses).text # NoText /\ Answered(c, Head(responses).text)
    BY <1>1, <2>1, <2>3, AnsweredHolds DEF Own
  <2> QED BY <1>3, <2>2, <2>3 DEF ReadOwn
<1>4. CASE ReadMixed(c)
  <2>1. PICK content \in Paths : Answered(c, content)
    BY <1>4 DEF ReadMixed
  <2> QED BY <1>1, <1>4, <2>1, AnsweredHolds DEF ReadMixed, Own, Noticed
<1> QED BY <1>3, <1>4

\* A call that is answered stays what it is until it returns.
LEMMA AnsweredStays ==
  ASSUME TypeOK, [Next]_vars, NEW c \in Callers, call'[c].at = "answered",
         ~(ReadOwn(c) \/ ReadMixed(c))
  PROVE  /\ call[c].at = "answered"
         /\ call'[c].text = call[c].text /\ call'[c].path = call[c].path
         /\ call[c].met => call'[c].met
<1>return. ASSUME NEW d \in Callers, Return(d) PROVE d # c /\ call'[c] = call[c]
  BY <1>return DEF Return, NoCall, TypeOK
<1>on. ASSUME NEW d \in Callers, ReadOn(d) PROVE call'[c] = call[c]
  BY <1>on, <1>return DEF ReadOn
<1>enter. ASSUME NEW d \in Callers, NEW where \in {"sending", "reading"},
                 NEW entering \in CallType, Enter(d, where, entering)
          PROVE  /\ call[c].at = "answered"
                 /\ call'[c].text = call[c].text /\ call'[c].path = call[c].path
                 /\ call[c].met => call'[c].met
  BY <1>enter, Entering
<1>1. ASSUME NEW d \in Callers, NEW p \in Paths, Read(d, p) PROVE call'[c] = call[c]
  BY <1>1 DEF Read, TypeOK
<1>2. ASSUME NEW d \in Callers, Start(d)
      PROVE  \E where \in {"sending", "reading"} : \E entering \in CallType : Enter(d, where, entering)
  <2>1. call[d] \in CallType /\ NewId \in Nat
    BY <1>2, InFlightCall DEF Start, NewId, TypeOK
  <2>2. [call[d] EXCEPT !.id = NewId] \in CallType
    BY <2>1 DEF CallType
  <2> QED BY <1>2, <2>2 DEF Start
<1>3. ASSUME NEW d \in Callers, Send(d)
      PROVE  Return(d) \/ \E where \in {"sending", "reading"} : \E entering \in CallType : Enter(d, where, entering)
  BY <1>3, InFlightCall DEF Send
<1>4. ASSUME NEW d \in Callers, ReadOwn(d) \/ ReadMixed(d) PROVE call'[c] = call[c]
  <2>1. d # c
    BY <1>4
  <2>2. ASSUME NEW content, Answered(d, content) PROVE call'[c] = call[c]
    BY <2>1, <2>2 DEF Answered, TypeOK
  <2>3. Return(d) \/ \E content \in Paths \cup {Head(responses).text} : Answered(d, content)
    BY <1>4 DEF ReadOwn, ReadMixed
  <2> QED BY <1>return, <2>2, <2>3
<1>5. ASSUME NEW d \in Callers, Skip(d) \/ ReadTorn(d) \/ ReadEnd(d) \/ Memoise(d)
      PROVE  call'[c] = call[c]
  BY <1>5, <1>return, <1>on DEF Skip, ReadTorn, ReadEnd, AtEnd, Memoise
<1>6. ASSUME NEW d \in Callers, ContextEnds(d) PROVE call'[c] = call[c]
  <2>1. call'[d].at = call[d].at
    BY <1>6, InFlightCall DEF ContextEnds, TypeOK, CallType
  <2>2. d # c
    BY <1>6, <2>1 DEF ContextEnds, InFlight, At
  <2> QED BY <1>6, <2>2 DEF ContextEnds
<1>7. CASE Answer \/ Notify \/ ServerEnds \/ UNCHANGED vars
  BY <1>7 DEF Answer, Serve, Notify, ServerEnds, vars
<1> QED BY <1>return, <1>enter, <1>1, <1>2, <1>3, <1>4, <1>5, <1>6, <1>7 DEF Next, Step, Race

Keeps(p) == cache[p] \in {p, NoText} \/ p \in mixed

\* What is put in the cache is what the call holds.
LEMMA CacheKept ==
  ASSUME TypeOK, AnswerIsOwn, [Next]_vars
  PROVE  \A p \in Paths : Keeps(p)'
<1>1. ASSUME NEW c \in Callers, Memoise(c), NEW p \in Paths
      PROVE  Keeps(p)'
  <2>1. call[c] \in CallType /\ Own(c)
    BY <1>1, InFlightCall DEF Memoise, AnswerIsOwn, Own
  <2>2. /\ cache' = [cache EXCEPT ![call[c].path] = call[c].text]
        /\ mixed' = IF call[c].met /\ call[c].text # call[c].path
                    THEN mixed \cup {call[c].path} ELSE mixed \ {call[c].path}
    BY <1>1 DEF Memoise, Put
  <2>3. Keeps(p)
    BY DEF AnswerIsOwn, Keeps
  <2>4. CASE p = call[c].path
    BY <2>1, <2>2, <2>4 DEF Keeps, Own, TypeOK
  <2>5. CASE p # call[c].path
    BY <2>2, <2>3, <2>5 DEF Keeps, TypeOK
  <2> QED BY <2>4, <2>5
<1>2. ASSUME NEW c \in Callers, \/ \E p \in Paths : Read(c, p)
                               \/ Start(c) \/ ContextEnds(c) \/ Send(c) \/ ReadOwn(c)
                               \/ Skip(c) \/ Race(c) \/ ReadEnd(c)
      PROVE  cache' = cache /\ mixed' = mixed
  BY <1>2 DEF Read, Start, ContextEnds, Send, ReadOwn, Skip, ReadTorn, ReadMixed, Race, ReadEnd, history
<1>3. CASE Answer \/ Notify \/ ServerEnds \/ UNCHANGED vars
  BY <1>3 DEF Answer, Serve, Notify, ServerEnds, vars, history, AnswerIsOwn, Keeps
<1> QED BY <1>1, <1>2, <1>3 DEF Next, Step, AnswerIsOwn, Keeps

LEMMA NextKeepsAnswers ==
  ASSUME TypeOK, Streams, AnswerIsOwn, [Next]_vars
  PROVE  AnswerIsOwn'
<1>1. ASSUME NEW c \in Callers, call'[c].at = "answered" PROVE Own(c)'
  <2>1. CASE ReadOwn(c) \/ ReadMixed(c)
    BY <1>1, <2>1, ReadIsOwn
  <2>2. CASE ~(ReadOwn(c) \/ ReadMixed(c))
    BY <1>1, <2>2, AnsweredStays DEF Own, AnswerIsOwn
  <2> QED BY <2>1, <2>2
<1> QED BY <1>1, CacheKept DEF AnswerIsOwn, Own, Keeps

LEMMA NextKeepsFilled ==
  ASSUME TypeOK, Filled, [Next]_vars
  PROVE  Filled'
<1> SUFFICES ASSUME NEW c \in Callers, call'[c].at = "answered"
             PROVE  call'[c].text \in Paths
  BY DEF Filled
<1>1. CASE ReadOwn(c)
  <2>1. (Reading(c) /\ Head(responses).text \in Paths) \/ Return(c)
    BY <1>1, LinesTyped DEF ReadOwn, HasLine, LineType, Contents
  <2>2. CASE Return(c)
    BY <2>2 DEF Return, NoCall, TypeOK
  <2>3. CASE ~Return(c)
    <3>1. /\ Reading(c) /\ Head(responses).text \in Paths
          /\ Answered(c, Head(responses).text)
      BY <1>1, <2>1, <2>3 DEF ReadOwn, HasLine
    <3> QED BY <3>1, AnsweredHolds
  <2> QED BY <2>2, <2>3
<1>2. CASE ReadMixed(c)
  <2>1. PICK content \in Paths : Answered(c, content)
    BY <1>2 DEF ReadMixed
  <2> QED BY <1>2, <2>1, AnsweredHolds DEF ReadMixed, HasLine
<1>3. CASE ~(ReadOwn(c) \/ ReadMixed(c))
  BY <1>3, AnsweredStays DEF Filled
<1> QED BY <1>1, <1>2, <1>3

LEMMA InitInv == Init => Inv
<1> SUFFICES ASSUME Init PROVE Inv
  OBVIOUS
<1>1. \A c \in Callers : call[c].at = "idle"
  BY DEF Init, NoCall
<1>2. Streams
  BY <1>1 DEF Init, Streams, Issued, InFlight, At
<1>3. AnswerIsOwn
  BY <1>1 DEF Init, AnswerIsOwn
<1>4. Filled
  BY <1>1 DEF Filled
<1> QED BY <1>2, <1>3, <1>4, InitTyped DEF Inv

\* A reader of the shared client is given, and the cache keeps for it, nothing but
\* the content of the file that was asked for, unless that very read met another in
\* the writer or in the reader, whatever the order of the responses, whoever has
\* given up, and whatever others have raced (Client.call, GitHubSource.ReadFile).
THEOREM AnswersAreOwn == Spec => []AnswerIsOwn
<1>1. Inv /\ [Next]_vars => Inv'
  BY NextTyped, NextKeepsStreams, NextKeepsAnswers, NextKeepsFilled DEF Inv
<1>2. Inv => AnswerIsOwn
  BY DEF Inv
<1> QED BY InitInv, <1>1, <1>2, PTL DEF Spec

-----------------------------------------------------------------------------
\* How often a file is fetched.

Asking(p) == {c \in Callers : call[c].at # "idle" /\ call[c].path = p}

\* Who asks for a file may yet fetch it; once it has been fetched nobody more
\* will ask.
Fetches(p) ==
  /\ fetched[p] \in Nat
  /\ cache[p] = NoText => fetched[p] = 0
  /\ fetched[p] + Cardinality(Asking(p)) <= Cardinality(Callers)

FetchInv == fetched \in [Paths -> Nat] /\ \A p \in Paths : Fetches(p)

LEMMA AskingFinite ==
  ASSUME NEW p \in Paths
  PROVE  IsFiniteSet(Asking(p)) /\ Cardinality(Asking(p)) \in Nat /\ Cardinality(Callers) \in Nat
BY McpClientAssumption, FS_Subset, FS_CardinalityType DEF Asking

LEMMA OutsideCalls ==
  ASSUME Answer \/ Notify \/ ServerEnds \/ UNCHANGED vars
  PROVE  UNCHANGED <<cache, call, fetched>>
<1>1. ASSUME NEW r, NEW content, Serve(r, content)
      PROVE  UNCHANGED <<cache, call, fetched>>
  BY <1>1 DEF Serve, history
<1>2. CASE Notify \/ ServerEnds \/ UNCHANGED vars
  BY <1>2 DEF Notify, ServerEnds, vars, history
<1> QED BY <1>1, <1>2 DEF Answer

\* Nobody begins to ask but in Read.
LEMMA AskingShrinks ==
  ASSUME TypeOK, [Next]_vars, NEW p \in Paths, ~ \E c \in Callers : Read(c, p)
  PROVE  Asking(p)' \subseteq Asking(p)
<1> SUFFICES ASSUME NEW d \in Callers, call'[d].at # "idle", call'[d].path = p
             PROVE  call[d].at # "idle" /\ call[d].path = p
  BY DEF Asking
<1>1. ASSUME NEW c \in Callers, NEW q \in Paths \ {p}, Read(c, q)
      PROVE  call[d].at # "idle" /\ call[d].path = p
  BY <1>1 DEF Read, TypeOK
<1>2. ASSUME NEW c \in Callers, Start(c)
      PROVE  call[d].at # "idle" /\ call[d].path = p
  <2>1. call[c] \in CallType /\ NewId \in Nat
    BY <1>2, InFlightCall DEF Start, NewId, TypeOK
  <2>2. /\ [call[c] EXCEPT !.id = NewId] \in CallType
        /\ [call[c] EXCEPT !.id = NewId].path = call[c].path
    BY <2>1 DEF CallType
  <2>3. /\ call'[c].path = call[c].path
        /\ \A e \in Callers \ {c} :
             /\ call'[e].at = call[e].at
             /\ call[e].at # "idle" => call'[e].path = call[e].path
    BY <1>2, <2>2, Entering DEF Start
  <2> QED BY <1>2, <2>3 DEF Start
<1>3. ASSUME NEW c \in Callers, Send(c)
      PROVE  call[d].at # "idle" /\ call[d].path = p
  <2>1. call[c] \in CallType
    BY <1>3, InFlightCall DEF Send
  <2>2. CASE Return(c)
    BY <2>2 DEF Return, NoCall, TypeOK
  <2>3. CASE Enter(c, "reading", call[c])
    <3>1. /\ call'[c].path = call[c].path
          /\ \A e \in Callers \ {c} :
               /\ call'[e].at = call[e].at
               /\ call[e].at # "idle" => call'[e].path = call[e].path
      BY <2>1, <2>3, Entering
    <3> QED BY <1>3, <3>1 DEF Send
  <2> QED BY <1>3, <2>2, <2>3 DEF Send
<1>4. ASSUME NEW c \in Callers, ReadOwn(c) \/ Skip(c) \/ Race(c) \/ ReadEnd(c) \/ Memoise(c)
      PROVE  call[d].at # "idle" /\ call[d].path = p
  <2>1. \/ UNCHANGED call \/ Return(c)
        \/ call[c].at = "reading" /\ \E content : Answered(c, content)
    BY <1>4 DEF ReadOwn, Skip, Race, ReadTorn, ReadMixed, ReadOn, ReadEnd, AtEnd, Memoise, HasLine, Reading
  <2>2. CASE Return(c)
    BY <2>2 DEF Return, NoCall, TypeOK
  <2>3. ASSUME call[c].at = "reading", NEW content, Answered(c, content)
        PROVE  call[d].at # "idle" /\ call[d].path = p
    <3>1. call[c] \in CallType
      BY <2>3, InFlightCall
    <3>2. /\ call'[c].path = call[c].path
          /\ \A e \in Callers \ {c} : call'[e] = call[e]
      BY <2>3, <3>1 DEF Answered, TypeOK, CallType
    <3> QED BY <2>3, <3>2
  <2> QED BY <2>1, <2>2, <2>3
<1>5. ASSUME NEW c \in Callers, ContextEnds(c)
      PROVE  call[d].at # "idle" /\ call[d].path = p
  BY <1>5, InFlightCall DEF ContextEnds, TypeOK, CallType
<1>6. CASE Answer \/ Notify \/ ServerEnds \/ UNCHANGED vars
  BY <1>6, OutsideCalls
<1> QED BY <1>1, <1>2, <1>3, <1>4, <1>5, <1>6 DEF Next, Step, Race

\* A step that fetches nothing.
LEMMA UnfetchedKept ==
  ASSUME TypeOK, [Next]_vars, FetchInv, UNCHANGED <<cache, fetched>>
  PROVE  FetchInv'
<1> SUFFICES ASSUME NEW p \in Paths
             PROVE  fetched[p] + Cardinality(Asking(p)') <= Cardinality(Callers)
  BY DEF FetchInv, Fetches
<1>1. Asking(p)' \subseteq Callers
  BY DEF Asking
<1>2. CASE \E c \in Callers : Read(c, p)
  <2>1. fetched[p] = 0
    BY <1>2 DEF Read, FetchInv, Fetches
  <2>2. /\ Cardinality(Asking(p)') \in Nat
        /\ Cardinality(Asking(p)') <= Cardinality(Callers)
    BY <1>1, McpClientAssumption, FS_Subset, FS_CardinalityType
  <2> QED BY <2>1, <2>2
<1>3. CASE ~ \E c \in Callers : Read(c, p)
  <2>1. Asking(p)' \subseteq Asking(p)
    BY <1>3, AskingShrinks
  <2>2. /\ Cardinality(Asking(p)') \in Nat
        /\ Cardinality(Asking(p)') <= Cardinality(Asking(p))
    BY <2>1, AskingFinite, FS_Subset, FS_CardinalityType
  <2>3. fetched[p] \in Nat /\ fetched[p] + Cardinality(Asking(p)) <= Cardinality(Callers)
    BY DEF FetchInv, Fetches
  <2> QED BY <2>2, <2>3, AskingFinite
<1> QED BY <1>2, <1>3

LEMMA MemoiseKeepsFetches ==
  ASSUME TypeOK, Filled, FetchInv, NEW c \in Callers, Memoise(c)
  PROVE  FetchInv'
<1> DEFINE q == call[c].path
<1>1. call[c] \in CallType /\ q \in Paths /\ call[c].text # NoText
  BY InFlightCall, McpClientAssumption DEF Memoise, Filled, CallType
<1>2. /\ cache'[q] # NoText /\ fetched'[q] = fetched[q] + 1
      /\ \A p \in Paths \ {q} : cache'[p] = cache[p] /\ fetched'[p] = fetched[p]
      /\ fetched' \in [Paths -> Nat]
  BY <1>1 DEF Memoise, Put, TypeOK, FetchInv
<1>3. ASSUME NEW p \in Paths PROVE Asking(p)' = Asking(p) \ {c}
  BY DEF Memoise, Return, Asking, NoCall, TypeOK
<1>4. c \in Asking(q)
  BY DEF Memoise, Asking
<1>5. ASSUME NEW p \in Paths PROVE Fetches(p)'
  <2>1. /\ Cardinality(Asking(p)) \in Nat /\ Cardinality(Callers) \in Nat
        /\ Cardinality(Asking(p)') = IF c \in Asking(p) THEN Cardinality(Asking(p)) - 1 ELSE Cardinality(Asking(p))
    BY <1>3, AskingFinite, FS_RemoveElement
  <2>2. Fetches(p)
    BY DEF FetchInv
  <2>3. CASE p = q
    BY <1>2, <1>4, <2>1, <2>2, <2>3 DEF Fetches
  <2>4. CASE p # q
    BY <1>2, <2>1, <2>2, <2>4 DEF Fetches
  <2> QED BY <2>3, <2>4
<1> QED BY <1>2, <1>5 DEF FetchInv

LEMMA NextKeepsFetches ==
  ASSUME TypeOK, Filled, FetchInv, [Next]_vars
  PROVE  FetchInv'
<1>1. ASSUME NEW c \in Callers, Memoise(c) PROVE FetchInv'
  BY <1>1, MemoiseKeepsFetches
<1>2. ASSUME NEW c \in Callers, \/ \E p \in Paths : Read(c, p)
                               \/ Start(c) \/ ContextEnds(c) \/ Send(c) \/ ReadOwn(c)
                               \/ Skip(c) \/ Race(c) \/ ReadEnd(c)
      PROVE  FetchInv'
  <2>1. UNCHANGED <<cache, fetched>>
    BY <1>2 DEF Read, Start, ContextEnds, Send, ReadOwn, Skip, Race, ReadTorn, ReadMixed, ReadEnd, history
  <2> QED BY <2>1, UnfetchedKept
<1>3. CASE Answer \/ Notify \/ ServerEnds \/ UNCHANGED vars
  BY <1>3, OutsideCalls, UnfetchedKept
<1> QED BY <1>1, <1>2, <1>3 DEF Next, Step

LEMMA InitFetches == Init => FetchInv
<1> SUFFICES ASSUME Init PROVE FetchInv
  OBVIOUS
<1> SUFFICES ASSUME NEW p \in Paths PROVE Fetches(p)
  BY DEF Init, FetchInv
<1>1. Asking(p) = {}
  BY DEF Init, Asking, NoCall
<1>2. Cardinality(Asking(p)) = 0 /\ Cardinality(Callers) \in Nat
  BY <1>1, FS_EmptySet, AskingFinite
<1> QED BY <1>2 DEF Init, Fetches

\* No file is fetched and kept more often than there are workers, although looking in
\* the cache and filling it are two steps (GitHubSource.ReadFile).
THEOREM FetchesBounded == Spec => []RefetchBounded
<1>1. Inv /\ FetchInv /\ [Next]_vars => Inv' /\ FetchInv'
  BY NextTyped, NextKeepsStreams, NextKeepsAnswers, NextKeepsFilled, NextKeepsFetches DEF Inv
<1>2. FetchInv => RefetchBounded
  <2> SUFFICES ASSUME FetchInv, NEW p \in Paths PROVE fetched[p] <= Cardinality(Callers)
    BY DEF RefetchBounded
  <2> QED BY AskingFinite DEF FetchInv, Fetches
<1> QED BY InitInv, InitFetches, <1>1, <1>2, PTL DEF Spec
=============================================================================
