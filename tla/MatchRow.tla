------------------------------ MODULE MatchRow ------------------------------
(***************************************************************************)
(* What the transactions of Nakama's nodes do to the fleet's row: a node   *)
(* that starts pins the pool's profile, a finished match asks for a room,  *)
(* and rooms end.  Only requests and profiles are kept of the state.       *)
(***************************************************************************)
EXTENDS Integers, FiniteSets

CONSTANTS
    Nodes, None,
    Profiles,   \* build, region and the rest of a pool's configuration
    Matches,    \* pairs of entries [user, ticket, profile] the matchmaker makes
    Sequel,     \* whether rooms end, so that players match again
    Capacity    \* allocations that fit into the row (16 MiB)

ASSUME NoneAssumption == None \notin Nodes \cup Profiles
ASSUME CapacityAssumption == Capacity \in Nat

\* The matched hook is handed the two entries in some order.
Deliveries == {d \in (UNION Matches) \X (UNION Matches) :
                   d[1] # d[2] /\ {d[1], d[2]} \in Matches}

UsersOf(d) == {d[1].user, d[2].user}

\* Mutant of KeyOf: the tickets are joined in the order they come in.
KeyInOrder(d) == <<d[1].ticket, d[2].ticket>>
\* the tickets are sorted before they are hashed
KeyOf(d) == {d[1].ticket, d[2].ticket}

\* validateClientProfile of both entries, against the node's own configuration
Accepted(d, profile) == d[1].profile = profile /\ d[2].profile = profile

Empty == [profile |-> None, allocs |-> {}]

NewOp(p) == [kind |-> "new", profile |-> p]
MatchOp(d) == [kind |-> "match", entries |-> d]
EndOp(i) == [kind |-> "end", id |-> i]
Ops == {NewOp(p) : p \in Profiles} \cup {MatchOp(d) : d \in Deliveries}
        \cup IF Sequel THEN {EndOp(i) : i \in 1 .. Capacity} ELSE {}

\* the node's profile lets it begin op: it has one once New has returned
MayBegin(profile, op) ==
    CASE op.kind = "new" -> profile = None
      [] op.kind = "match" -> profile # None /\ Accepted(op.entries, profile)
      [] op.kind = "end" -> profile # None

Outcome(row, said, id) == [row |-> row, answer |-> [said |-> said, id |-> id]]

\* Mutant of Pin: a node with another configuration takes the pool over.
PinAnew(row, p) == {Outcome([row EXCEPT !.profile = p], "started", 0)}

\* New refuses a row that another profile has pinned.
Pin(row, p) == IF row.profile \in {None, p}
               THEN {Outcome([row EXCEPT !.profile = p], "started", 0)}
               ELSE {Outcome(row, "refused", 0)}

\* allocation() ranges over a map: it stops at the first entry that has the key
\* or holds one of the players, whichever comes first.
Allocate(row, d) ==
    LET same  == {a \in row.allocs : a.key = KeyOf(d)}
        busy  == {a \in row.allocs \ same : ~a.over /\ a.users \cap UsersOf(d) # {}}
        id    == Cardinality(row.allocs) + 1
        added == [row EXCEPT !.allocs = @ \cup
                    {[id |-> id, key |-> KeyOf(d), users |-> UsersOf(d), entries |-> {d[1], d[2]},
                      over |-> FALSE]}]
    IN  IF same \cup busy # {}
        THEN {IF a \in busy THEN Outcome(row, "busy", 0)
              ELSE IF a.users # UsersOf(d) THEN Outcome(row, "forbidden", 0)
              ELSE Outcome(row, "allocated", a.id) : a \in same \cup busy}
        ELSE IF id > Capacity THEN {Outcome(row, "error", 0)}
        ELSE {Outcome(added, "allocated", id)}

End(row, i) ==
    {Outcome([row EXCEPT !.allocs = {IF a.id = i THEN [a EXCEPT !.over = TRUE] ELSE a : a \in @}],
             "ended", i)}

\* what fn may make of the row, and its answer
Outcomes(row, op) ==
    CASE op.kind = "new" -> Pin(row, op.profile)
      [] op.kind = "match" -> Allocate(row, op.entries)
      [] op.kind = "end" -> End(row, op.id)

\* what the callers learn from an answer they get
Told(told, op, answer) ==
    IF answer.said = "allocated"
    THEN told \cup {[match |-> {op.entries[1], op.entries[2]}, id |-> answer.id]} ELSE told
Running(runs, n, op, answer) ==
    IF answer.said = "started" THEN [runs EXCEPT ![n] = op.profile] ELSE runs

=============================================================================
