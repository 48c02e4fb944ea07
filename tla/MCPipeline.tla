---- MODULE MCPipeline ----
\* Four components in four directories, one of them with a test: enough for
\* every band, for ties across a boundary, for a register too small to band, for a
\* directory that is skipped or ignored with one below it, and for two risks that
\* share an identifier.
EXTENDS Pipeline

MCSubdirs == [root |-> <<"a", "b">>, a |-> <<"c">>, b |-> <<>>, c |-> <<>>]
MCFilesIn == [root |-> {"f1", "readme"}, a |-> {"f2"}, b |-> {"f3", "t3"}, c |-> {"f4"}]
MCRiskID == [f1 |-> "x", f2 |-> "y", f3 |-> "x", f4 |-> "z"]
MCIDOrder == <<"x", "y", "z">>
MCDirOf == [f1 |-> "root", f2 |-> "a", f3 |-> "b", t3 |-> "b", f4 |-> "c"]
MCThresholds == [critical |-> 4, high |-> 2, medium |-> 1]
MCBands == [critical |-> 10, high |-> 20, medium |-> 35]
====
