--------------------------- MODULE MCAnalystPhase ---------------------------
(* Small instances of AnalystPhase: three files, of which the parser may    *)
(* resolve the first two, and two workers.                                  *)
EXTENDS AnalystPhase

MCGoFiles == {1, 2}
=============================================================================
