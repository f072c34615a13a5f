---------------------------- MODULE MCRowStore ------------------------------
(* Values of RowStore's constants for TLC.                                 *)
EXTENDS RowStore

CONSTANTS u1, u2, u3, old, new

Entry(u, t, p) == [user |-> u, ticket |-> t, profile |-> p]

\* two players who match again, one of them with a third player, and with one
\* whose client has another build
SomeMatches == {{Entry(u1, "t1", old), Entry(u2, "t2", old)},
                {Entry(u1, "t3", old), Entry(u3, "t4", old)},
                {Entry(u1, "t5", old), Entry(u3, "t6", new)},
                {Entry(u2, "t7", new), Entry(u3, "t8", new)}}

=============================================================================
