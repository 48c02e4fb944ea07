------------------------------ MODULE PhaseDag ------------------------------
(***************************************************************************)
(* What a run of the pipeline promises (the comments of                    *)
(* orchestrator/orchestrator.go), without the order the phases are put in: *)
(* a pipeline is refused when it is no DAG and only then; a phase begins   *)
(* when all it depends on has succeeded, at most once, one at a time; it   *)
(* is skipped only when something it depends on has not succeeded and will *)
(* not; the failure of a required phase ends the run; otherwise the run    *)
(* ends when every phase has had its turn.                                 *)
(***************************************************************************)
EXTENDS Naturals, Sequences

CONSTANTS
  Names,      \* phase names
  Pipelines   \* the pipelines AddPhase may have built

VARIABLES
  pipeline,   \* the one that is run
  status,     \* of each phase
  end         \* how the run ended, or "open"

vars == <<pipeline, status, end>>

Declared(pl) == {pl.declared[i] : i \in 1..Len(pl.declared)}

Malformed(pl) ==
  \/ \E i, j \in 1..Len(pl.declared) :
       i # j /\ pl.declared[i] = pl.declared[j]
  \/ \E p \in Declared(pl) : ~(pl.dependsOn[p] \subseteq Declared(pl))

\* A finite graph has a cycle iff some part of it can be followed for ever.
Cyclic(pl) ==
  \E part \in SUBSET Declared(pl) :
    part # {} /\ \A p \in part : pl.dependsOn[p] \cap part # {}

Valid(pl) == ~Malformed(pl) /\ ~Cyclic(pl)

Phases == Declared(pipeline)
Needed(p) == pipeline.dependsOn[p]
Required(p) == p \notin pipeline.optional

Quiet == \A p \in Phases : status[p] # "running"
MayGoOn ==
  /\ end = "open"
  /\ Valid(pipeline)
  /\ Quiet
  /\ \A p \in Phases : Required(p) => status[p] # "failed"

Init ==
  /\ pipeline \in Pipelines
  /\ status = [p \in Names |-> "waiting"]
  /\ end = "open"

Become(p, new) ==
  /\ status' = [status EXCEPT ![p] = new]
  /\ UNCHANGED <<pipeline, end>>

Start(p) ==
  /\ MayGoOn
  /\ status[p] = "waiting"
  /\ \A d \in Needed(p) : status[d] = "ok"
  /\ Become(p, "running")

Finish(p) ==
  /\ end = "open"
  /\ status[p] = "running"
  /\ Become(p, "ok") \/ Become(p, "failed")

Skip(p) ==
  /\ MayGoOn
  /\ status[p] = "waiting"
  /\ \E d \in Needed(p) : status[d] \in {"failed", "skipped"}
  /\ Become(p, "skipped")

End(how) ==
  /\ end = "open"
  /\ end' = how
  /\ UNCHANGED <<pipeline, status>>

Refuse ==
  /\ ~Valid(pipeline)
  /\ \A p \in Phases : status[p] = "waiting"
  /\ End("refused")

Complete ==
  /\ MayGoOn
  /\ \A p \in Phases : status[p] \in {"ok", "failed", "skipped"}
  /\ End("done")

Abort ==
  /\ Quiet
  /\ \E p \in Phases : Required(p) /\ status[p] = "failed"
  /\ End("aborted")

Next ==
  \/ \E p \in Phases : Start(p) \/ Finish(p) \/ Skip(p)
  \/ Refuse
  \/ Complete
  \/ Abort

Spec == Init /\ [][Next]_vars
=============================================================================
