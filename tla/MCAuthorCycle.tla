--------------------------- MODULE MCAuthorCycle ---------------------------
(* Small instances of AuthorCycle: two risks, of two components or of two   *)
(* components that share a slug.                                            *)
EXTENDS AuthorCycle

CONSTANTS s1, s2   \* slugs

MCOwnSlugs == [r \in Risks |-> IF r = 1 THEN s1 ELSE s2]
MCOneSlug == [r \in Risks |-> s1]

MCReports ==
  LET found(s, b) == [target |-> s, blocking |-> b] IN
  {<<>>, <<found(s1, FALSE)>>, <<found(Nobody, TRUE)>>,
   <<found(s1, TRUE), found(s2, FALSE)>>, <<found(s2, TRUE), found(Nobody, TRUE)>>,
   <<found(s1, TRUE), found(s2, TRUE), found(Nobody, TRUE)>>}
=============================================================================
