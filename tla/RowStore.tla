------------------------------ MODULE RowStore ------------------------------
(***************************************************************************)
(* The Postgres store: Update locks the namespace's row, runs fn on a copy *)
(* of it, writes the copy and commits.  Nodes of a Nakama cluster share    *)
(* the row.  A node dies, its context ends or its connection breaks at any *)
(* moment; after the commit that loses only the answer.                    *)
(***************************************************************************)
EXTENDS MatchRow

VARIABLES
    row,     \* the committed payload
    holder,  \* the node whose transaction holds the row lock
    tx,      \* each node's Update: its step, the copy it will write, the answer
    runs,    \* the profile with which each node's manager runs
    told     \* the allocations that callers have been told of, by match
vars == <<row, holder, tx, runs, told>>

Idle == [step |-> "idle"]
Waiting(op) == [step |-> "waiting", op |-> op]
Staged(op, o) == [step |-> "staged", op |-> op, copy |-> o.row, answer |-> o.answer]
Answered(op, answer) == [step |-> "answered", op |-> op, answer |-> answer]
Set(n, t) == tx' = [tx EXCEPT ![n] = t]
Release(n) == holder' = IF holder = n THEN None ELSE holder

Init == /\ row = Empty /\ holder = None /\ told = {}
        /\ tx = [n \in Nodes |-> Idle]
        /\ runs = [n \in Nodes |-> None]

Begin(n, op) ==
    /\ tx[n] = Idle /\ MayBegin(runs[n], op)
    /\ Set(n, Waiting(op))
    /\ UNCHANGED <<row, holder, runs, told>>

\* Mutant of SelectForUpdate: the row is read without its lock.
SelectOnly(n, op) ==
    /\ tx[n] = Waiting(op)
    /\ \E o \in Outcomes(row, op) : Set(n, Staged(op, o))
    /\ UNCHANGED <<row, holder, runs, told>>

\* The row is locked and read, and fn runs on the copy.
SelectForUpdate(n, op) ==
    /\ tx[n] = Waiting(op) /\ holder = None
    /\ holder' = n
    /\ \E o \in Outcomes(row, op) : Set(n, Staged(op, o))
    /\ UNCHANGED <<row, runs, told>>

\* An fn that fails leaves the copy as the row was: rolling back writes the same.
Commit(n) ==
    /\ tx[n].step = "staged"
    /\ row' = tx[n].copy
    /\ Release(n)
    /\ Set(n, Answered(tx[n].op, tx[n].answer))
    /\ UNCHANGED <<runs, told>>

Reply(n) ==
    /\ tx[n].step = "answered"
    /\ Set(n, Idle)
    /\ told' = Told(told, tx[n].op, tx[n].answer)
    /\ runs' = Running(runs, n, tx[n].op, tx[n].answer)
    /\ UNCHANGED <<row, holder>>

\* Rolled back before the commit; after it, only the answer is lost.
Fail(n) ==
    /\ tx[n] # Idle
    /\ Set(n, Idle) /\ Release(n)
    /\ UNCHANGED <<row, runs, told>>

Die(n) ==
    /\ runs[n] # None
    /\ Set(n, Idle) /\ Release(n)
    /\ runs' = [runs EXCEPT ![n] = None]
    /\ UNCHANGED <<row, told>>

Next == \E n \in Nodes :
    \/ Commit(n) \/ Reply(n) \/ Fail(n) \/ Die(n)
    \/ \E op \in Ops : Begin(n, op) \/ SelectForUpdate(n, op)

Spec == Init /\ [][Next]_vars

-----------------------------------------------------------------------------
\* The refinement: a call takes effect when it commits.
Call(t) == CASE t.step = "idle" -> [step |-> "idle"]
             [] t.step \in {"waiting", "staged"} -> [step |-> "pending", op |-> t.op]
             [] t.step = "answered" -> [step |-> "applied", op |-> t.op, answer |-> t.answer]
Atomic == INSTANCE AtomicRow WITH call <- [n \in Nodes |-> Call(tx[n])]

\* Every Update happens at one moment, on the row of that moment, whatever
\* other nodes are doing between its read and its commit.
UpdatesAreAtomic == Atomic!Spec

\* However often a match is delivered, to whichever node, in whatever order its
\* entries come, and although answers are lost: all who are told of a room for
\* it are told of the same one.
MatchesAgree == \A x, y \in told : x.match = y.match => x.id = y.id

\* The players of a room all have the profile of the pool, although nodes of
\* another configuration start, stop and race for the row.
OneProfile == \A a \in row.allocs : \A e \in a.entries : e.profile = row.profile

=============================================================================
