------------------------------ MODULE MCFleet -------------------------------
(* Values of Fleet's constants for TLC.                                    *)
EXTENDS Fleet, TLC

CONSTANTS u1, u2, u3, u4

FourUsers == {u1, u2, u3, u4}
ThreeUsers == {u1, u2, u3}
TwoUsers == {u1, u2}
\* two pairs that share a player
SharedPairs == {{u1, u2}, {u2, u3}}
\* two rooms that can be held at once, and a pair that shares players with both
ChainedPairs == {{u1, u2}, {u2, u3}, {u3, u4}}
DisjointPairs == {{u1, u2}, {u3, u4}}
OnePair == {{u1, u2}}

CalmOnly == {Calm}
CalmOrBusy == {Calm, [busy |-> TRUE, overloaded |-> FALSE]}
CalmOrOverloaded == {Calm, [busy |-> FALSE, overloaded |-> TRUE]}

\* A fleet that has come up: every worker in Up serves on a running machine and
\* the others have not been created.
CONSTANT Up
ServingWorker == [NoWorker EXCEPT
    !.state = "ready", !.provider = TRUE, !.boot = TRUE, !.host = TRUE,
    !.maxRooms = MaxRooms, !.heartbeat = "fresh", !.ready = TRUE]
ServingInit ==
    /\ store = [New EXCEPT !.workers = [w \in Workers |->
                    IF w \in Up THEN ServingWorker ELSE NoWorker]]
    /\ cloud = [w \in Workers |-> IF w \in Up THEN "running" ELSE "none"]
    /\ ctl = [c \in Controllers |-> Idle]
ServingSpec == ServingInit /\ [][Next]_vars

Symmetry == Permutations(Workers) \cup Permutations(Controllers) \cup Permutations(Keys)

=============================================================================
