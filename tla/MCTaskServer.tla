---- MODULE MCTaskServer ----
\* Two tasks, so that polls of one pass a run of the other, and lines enough to
\* start both and poll twice.  Three phases: one that may end a run, one that
\* may not, and the last.
EXTENDS TaskServer
====
