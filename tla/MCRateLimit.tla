---------------------------- MODULE MCRateLimit -----------------------------
(* Small instances of RateLimit.  The callers are interchangeable, but no   *)
(* symmetry is declared: TLC's reduction is unsound for liveness.           *)
EXTENDS RateLimit
=============================================================================
