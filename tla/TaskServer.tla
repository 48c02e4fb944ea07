----------------------------- MODULE TaskServer -----------------------------
(***************************************************************************)
(* The pipeline behind an MCP server (mcpx/server.go, Server and           *)
(* TaskStore; cmd/testplan-mcp/main.go, makePlanHandler, generatePlan).    *)
(* One loop reads lines from the caller and answers each before it reads   *)
(* the next.  A plan takes minutes, so the handler of generate_test_plan   *)
(* registers a task, leaves the run to a goroutine, and answers with a     *)
(* handle; the caller polls tasks/get.                                     *)
(*                                                                         *)
(* The caller is external and may write anything at any time.  Of a run    *)
(* only the phases it announces, and whether it is cut short, are kept:    *)
(* the phases are module Pipeline's subject.                               *)
(***************************************************************************)
EXTENDS Integers, Sequences, FiniteSets

CONSTANTS
  MaxTasks,    \* bounds the tasks of a behaviour, for TLC
  MaxLines,    \* bounds the lines of a behaviour, for TLC
  LastPhase,   \* the phases a run announces are 1..LastPhase
  MayAbort     \* those whose failure ends the run

ASSUME TaskServerAssumption ==
  /\ MaxTasks \in Nat \ {0}
  /\ MaxLines \in Nat
  /\ LastPhase \in Nat \ {0}
  /\ MayAbort \subseteq 1..LastPhase

TaskIds == 1..MaxTasks

\* What the caller may write: a plan that can be started; a poll; anything
\* else, which is refused (no path, an unknown tool or method), or skipped
\* because it does not decode.
LineKinds == {"plan", "poll", "other"}

VARIABLES
  lines,        \* written and not yet read
  written,      \* how many lines were written
  eof,          \* the caller has closed the input
  interrupted,  \* the context of Serve is done
  at,           \* Serve: at the "top" of its loop, "blocked" in the read,
                \*   "started" a task, or "stopped", which ends the process
  sequence,     \* sequenceNumber
  task,         \* tasksByID
  run,          \* of each task's goroutine: "none", "running", "rendered", "ended"
  report,       \* what the run has rendered
  \* history, read by the properties only
  handles,      \* the tasks whose handle was handed out
  seen          \* the last answer to a poll of each task

caller == <<lines, written, eof, interrupted>>
runs == <<task, run, report>>
serverVars == <<caller, at, sequence, runs, handles, seen>>

Unpolled == [status |-> "none", phase |-> 0, result |-> "none"]

ServerInit ==
  /\ lines = <<>> /\ written = 0 /\ eof = FALSE /\ interrupted = FALSE
  /\ at = "top"
  /\ sequence = 0
  /\ task = [t \in TaskIds |-> Unpolled]
  /\ run = [t \in TaskIds |-> "none"]
  /\ report = [t \in TaskIds |-> "none"]
  /\ handles = {}
  /\ seen = [t \in TaskIds |-> Unpolled]

(* The caller *)

Write(kind, t) ==
  /\ ~eof
  /\ written < MaxLines
  /\ kind = "plan" => Cardinality({i \in 1..Len(lines) : lines[i].kind = "plan"}) + sequence < MaxTasks
  /\ written' = written + 1
  /\ lines' = Append(lines, [kind |-> kind, task |-> t])
  /\ UNCHANGED <<eof, interrupted, at, sequence, runs, handles, seen>>

CloseInput ==
  /\ ~eof
  /\ eof' = TRUE
  /\ UNCHANGED <<lines, written, interrupted, at, sequence, runs, handles, seen>>

Interrupt ==
  /\ ~interrupted
  /\ interrupted' = TRUE
  /\ UNCHANGED <<lines, written, eof, at, sequence, runs, handles, seen>>

(* Serve *)

\* The context is looked at between lines only: the read does not know of it.
Top ==
  /\ at = "top"
  /\ at' = IF interrupted THEN "stopped" ELSE "blocked"
  /\ UNCHANGED <<caller, sequence, runs, handles, seen>>

InputEnds ==
  /\ at = "blocked"
  /\ eof /\ lines = <<>>
  /\ at' = "stopped"
  /\ UNCHANGED <<caller, sequence, runs, handles, seen>>

\* The next line is one of kind.
Take(kind) ==
  /\ at = "blocked"
  /\ lines # <<>>
  /\ Head(lines).kind = kind
  /\ lines' = Tail(lines)
  /\ UNCHANGED <<written, eof, interrupted>>

Dismiss == Take("other") /\ at' = "top" /\ UNCHANGED <<sequence, runs, handles, seen>>

\* Mutant of AnswerPoll: the fields are copied outside the lock, the status
\* before the rest.
AnswerPollTorn(t) ==
  IF task[t].status = "running" /\ run[t] = "rendered"
    THEN [task[t] EXCEPT !.status = "completed"] ELSE task[t]

\* Get copies the task under the lock.
AnswerPoll(t) == task[t]

\* tasks/get; a task that is not there is refused.
Poll ==
  /\ Take("poll")
  /\ at' = "top"
  /\ LET t == Head(lines).task IN
       seen' = [seen EXCEPT ![t] = AnswerPoll(t)]
  /\ UNCHANGED <<sequence, runs, handles>>

\* Start, and the go statement.
StartTask ==
  /\ Take("plan")
  /\ sequence' = sequence + 1
  /\ task' = [task EXCEPT ![sequence'].status = "running"]
  /\ run' = [run EXCEPT ![sequence'] = "running"]
  /\ at' = "started"
  /\ UNCHANGED <<report, handles, seen>>

\* Mutant of HandOut: the handler waits for its task.
HandOutAtEnd == run[sequence] = "ended"

HandOut == TRUE

\* The handle names the task and its status, which is read without the lock:
\* whatever is read, the handle goes out.
AnswerHandle ==
  /\ at = "started"
  /\ HandOut
  /\ at' = "top"
  /\ handles' = handles \cup {sequence}
  /\ UNCHANGED <<caller, sequence, runs, seen>>

(* The goroutine of a run; it ends with the process *)

\* Mutant of Live: the run has the context of the request.
LiveInRequest(t) == at = "started" /\ run[t] = "running"

Live(t) == at # "stopped" /\ run[t] = "running"

\* OnPhase, SetPhase.
PhaseStarts(t) ==
  /\ Live(t)
  /\ task[t].phase < LastPhase
  /\ task' = [task EXCEPT ![t].phase = @ + 1]
  /\ UNCHANGED <<caller, at, sequence, run, report, handles, seen>>

\* Run returns and the report is rendered; also from what an aborted run has
\* left.  Run returns an error for a malformed graph alone, and the pipeline's
\* graph is not, so Fail is never called.
Render(t) ==
  /\ Live(t)
  /\ task[t].phase \in MayAbort \cup {LastPhase}
  /\ run' = [run EXCEPT ![t] = "rendered"]
  /\ report' = [report EXCEPT ![t] = IF task[t].phase = LastPhase THEN "whole" ELSE "partial"]
  /\ UNCHANGED <<caller, at, sequence, task, handles, seen>>

Complete(t) ==
  /\ at # "stopped"
  /\ run[t] = "rendered"
  /\ run' = [run EXCEPT ![t] = "ended"]
  /\ task' = [task EXCEPT ![t].status = "completed", ![t].result = report[t]]
  /\ UNCHANGED <<caller, at, sequence, report, handles, seen>>

Serve == Top \/ InputEnds \/ Dismiss \/ Poll \/ StartTask \/ AnswerHandle
Work(t) == PhaseStarts(t) \/ Render(t) \/ Complete(t)

ServerNext ==
  \/ \E kind \in LineKinds, t \in TaskIds : Write(kind, t)
  \/ CloseInput \/ Interrupt
  \/ Serve
  \/ \E t \in TaskIds : Work(t)

\* Serve runs on.  Nothing is assumed of the runs here, for a caller is to be
\* served whatever they do, nor of the caller.
ServerSpec == ServerInit /\ [][ServerNext]_serverVars /\ WF_serverVars(Serve)

\* The phases of a run end with their budgets.
RunsGoOn == \A t \in TaskIds : WF_serverVars(Work(t))

(***************************************************************************)
(* Properties                                                              *)
(***************************************************************************)

\* What polls tell of a task never goes back, although a goroutine changes it
\* between them: a task whose handle was handed out is found, its phases come
\* in order, and a completed task stays as it is and carries what its run has
\* rendered.
PollsTell ==
  [][\A t \in TaskIds :
       LET told == seen[t]
           tells == seen'[t] IN
       tells # told =>
         /\ t \in handles => tells.status # "none"
         /\ told.phase <= tells.phase
         /\ told.status # "completed"
         /\ tells.status = "completed" => tells.result = report[t] /\ tells.result # "none"]_seen

\* Holding a request open for the length of a run "would be the wrong shape"
\* (testplan-mcp/main.go 5): every line is read and answered however long the
\* runs take, unless the server is stopped.
LinesServed ==
  \A n \in 1..MaxLines :
    written >= n ~> (written - Len(lines) >= n /\ at # "started") \/ at = "stopped"

\* A task that was started completes, if its run goes on, or the process ends;
\* the end of the request that started it does not stop it.
TasksEnd ==
  RunsGoOn => \A t \in TaskIds : run[t] = "running" ~> task[t].status = "completed" \/ at = "stopped"

=============================================================================
