--------------------------- MODULE RowStoreProofs ---------------------------
(***************************************************************************)
(* The row lock makes every Update atomic, for any nodes, profiles and     *)
(* matches.                                                                *)
(***************************************************************************)
EXTENDS RowStore, TLAPS

\* A copy that is about to be written was made from the row as it still is, and
\* its transaction is the one that holds the lock.
Locked(n) == tx[n].step = "staged" =>
    /\ holder = n
    /\ [row |-> tx[n].copy, answer |-> tx[n].answer] \in Outcomes(row, tx[n].op)

Known(n) == tx[n].step # "idle" => tx[n].op \in Ops

IInv == /\ tx = [n \in Nodes |-> tx[n]]
        /\ \A n \in Nodes : Locked(n) /\ Known(n)

\* What fn makes of a row is a copy and an answer.
LEMMA OutcomesAreRecords ==
  ASSUME NEW r, NEW op \in Ops, NEW o \in Outcomes(r, op)
  PROVE  o = [row |-> o.row, answer |-> o.answer]
<1>1. CASE op.kind = "new"
  BY <1>1 DEF Outcomes, Pin, Outcome
<1>2. CASE op.kind = "match"
  BY <1>2 DEF Outcomes, Allocate, Outcome
<1>3. CASE op.kind = "end"
  BY <1>3 DEF Outcomes, End, Outcome
<1>4. op.kind \in {"new", "match", "end"}
  BY DEF Ops, NewOp, MatchOp, EndOp
<1>5. QED BY <1>1, <1>2, <1>3, <1>4

\* A node's own step keeps the others' copies valid, if it keeps the row or
\* holds the lock.
LEMMA OthersKeep ==
  ASSUME IInv, NEW n \in Nodes, NEW t, Set(n, t),
         row' = row \/ holder = n,
         holder' = holder \/ holder \in {n, None}
  PROVE  /\ tx' = [m \in Nodes |-> tx'[m]]
         /\ tx'[n] = t
         /\ \A m \in Nodes \ {n} : Locked(m)' /\ Known(m)'
<1>1. /\ tx' = [m \in Nodes |-> tx'[m]] /\ tx'[n] = t
      /\ \A m \in Nodes \ {n} : tx'[m] = tx[m]
  BY DEF IInv, Set
<1>2. ASSUME NEW m \in Nodes \ {n} PROVE Locked(m)' /\ Known(m)'
  <2>1. Locked(m) /\ Known(m) /\ m # None
    BY NoneAssumption DEF IInv
  <2>2. tx[m].step = "staged" => holder = m /\ holder' = holder /\ row' = row
    BY <2>1 DEF Locked
  <2>3. QED BY <1>1, <2>1, <2>2 DEF Locked, Known
<1>3. QED BY <1>1, <1>2

\* Every reachable state is one in which the lock protects the staged copies.
THEOREM Invariance == Spec => []IInv
<1>1. Init => IInv
  BY DEF Init, IInv, Locked, Known, Idle
<1>2. IInv /\ [Next]_vars => IInv'
  <2> SUFFICES ASSUME IInv, [Next]_vars PROVE IInv'
    OBVIOUS
  <2>1. ASSUME NEW n \in Nodes, NEW op \in Ops, Begin(n, op) PROVE IInv'
    <3>1. Set(n, Waiting(op)) /\ row' = row /\ holder' = holder
      BY <2>1 DEF Begin
    <3>2. Locked(n)' /\ Known(n)'
      BY <3>1, OthersKeep DEF Locked, Known, Waiting
    <3>3. QED BY <3>1, <3>2, OthersKeep DEF IInv
  <2>2. ASSUME NEW n \in Nodes, NEW op \in Ops, SelectForUpdate(n, op) PROVE IInv'
    <3>1. PICK o \in Outcomes(row, op) :
            Set(n, Staged(op, o)) /\ row' = row /\ holder = None /\ holder' = n
      BY <2>2 DEF SelectForUpdate
    <3>2. [row |-> o.row, answer |-> o.answer] \in Outcomes(row', op)
      BY <3>1, OutcomesAreRecords
    <3>3. tx'[n] = Staged(op, o)
      BY <3>1, OthersKeep
    <3>4. Locked(n)' /\ Known(n)'
      BY <3>1, <3>2, <3>3 DEF Locked, Known, Staged
    <3>5. QED BY <3>1, <3>4, OthersKeep DEF IInv
  <2>3. ASSUME NEW n \in Nodes, Commit(n) PROVE IInv'
    <3>1. /\ Set(n, Answered(tx[n].op, tx[n].answer)) /\ holder = n
          /\ tx[n].op \in Ops
      BY <2>3 DEF Commit, IInv, Locked, Known
    <3>2. Locked(n)' /\ Known(n)'
      BY <3>1, OthersKeep DEF Locked, Known, Answered
    <3>3. QED BY <3>1, <3>2, OthersKeep DEF IInv
  <2>4. ASSUME NEW n \in Nodes, Reply(n) \/ Fail(n) \/ Die(n) PROVE IInv'
    <3>1. /\ Set(n, Idle) /\ row' = row
          /\ holder' = holder \/ holder = n
      BY <2>4 DEF Reply, Fail, Die, Release
    <3>2. Locked(n)' /\ Known(n)'
      BY <3>1, OthersKeep DEF Locked, Known, Idle
    <3>3. QED BY <3>1, <3>2, OthersKeep DEF IInv
  <2>5. CASE UNCHANGED vars
    BY <2>5 DEF vars, IInv, Locked, Known
  <2>6. QED BY <2>1, <2>2, <2>3, <2>4, <2>5 DEF Next
<1>3. QED BY <1>1, <1>2, PTL DEF Spec

\* A node's step is a step of its call.
LEMMA CallMoves ==
  ASSUME IInv, NEW n \in Nodes, NEW t, Set(n, t)
  PROVE  [m \in Nodes |-> Call(tx[m])]' = [[m \in Nodes |-> Call(tx[m])] EXCEPT ![n] = Call(t)]
  BY DEF IInv, Set

\* The call that each step of a transaction stands for.
LEMMA CallOf ==
  /\ Call(Idle) = Atomic!NoCall
  /\ \A op : Call(Waiting(op)) = Atomic!Pending(op)
  /\ \A op, a : Call(Answered(op, a)) = Atomic!Applied(op, a)
<1>1. Call(Idle) = Atomic!NoCall
  BY DEF Idle, Call, Atomic!NoCall
<1>2. ASSUME NEW op PROVE Call(Waiting(op)) = Atomic!Pending(op)
  BY DEF Waiting, Call, Atomic!Pending
<1>3. ASSUME NEW op, NEW a PROVE Call(Answered(op, a)) = Atomic!Applied(op, a)
  BY DEF Answered, Call, Atomic!Applied
<1>4. QED BY <1>1, <1>2, <1>3

\* The abstract row and the store speak of the same transactions.
LEMMA SameTransactions ==
  /\ Atomic!Empty = Empty /\ Atomic!Ops = Ops
  /\ \A profile, op : Atomic!MayBegin(profile, op) = MayBegin(profile, op)
  /\ \A r, op : Atomic!Outcomes(r, op) = Outcomes(r, op)
  /\ \A t, op, a : Atomic!Told(t, op, a) = Told(t, op, a)
  /\ \A f, n, op, a : Atomic!Running(f, n, op, a) = Running(f, n, op, a)
<1>1. Atomic!Empty = Empty
  BY DEF Atomic!Empty, Empty
<1>2. Atomic!Ops = Ops
  BY DEF Atomic!Ops, Ops, Atomic!NewOp, NewOp, Atomic!MatchOp, MatchOp, Atomic!EndOp, EndOp,
         Atomic!Deliveries, Deliveries
<1>3. ASSUME NEW profile, NEW op PROVE Atomic!MayBegin(profile, op) = MayBegin(profile, op)
  BY DEF Atomic!MayBegin, MayBegin, Atomic!Accepted, Accepted
<1>4. ASSUME NEW r, NEW op PROVE Atomic!Outcomes(r, op) = Outcomes(r, op)
  BY DEF Atomic!Outcomes, Outcomes, Atomic!Pin, Pin, Atomic!Allocate, Allocate, Atomic!End, End,
         Atomic!Outcome, Outcome, Atomic!KeyOf, KeyOf, Atomic!UsersOf, UsersOf
<1>5. ASSUME NEW t, NEW op, NEW a PROVE Atomic!Told(t, op, a) = Told(t, op, a)
  BY DEF Atomic!Told, Told
<1>6. ASSUME NEW f, NEW n, NEW op, NEW a PROVE Atomic!Running(f, n, op, a) = Running(f, n, op, a)
  BY DEF Atomic!Running, Running
<1>7. QED BY <1>1, <1>2, <1>3, <1>4, <1>5, <1>6

\* The store implements the atomic row: every Update takes effect when it
\* commits, on the row as it is then.
THEOREM Refinement == Spec => UpdatesAreAtomic
<1>1. Init => Atomic!Init
  BY SameTransactions, CallOf DEF Init, Atomic!Init
<1>2. IInv /\ [Next]_vars => [Atomic!Next]_(Atomic!vars)
  <2> SUFFICES ASSUME IInv, [Next]_vars PROVE [Atomic!Next]_(Atomic!vars)
    OBVIOUS
  <2> DEFINE call == [m \in Nodes |-> Call(tx[m])]
  <2>1. ASSUME NEW n \in Nodes, NEW op \in Ops, Begin(n, op) PROVE Atomic!Begin(n, op)
    <3>1. call[n] = Atomic!NoCall
      BY <2>1 DEF Begin, Idle, Call, Atomic!NoCall
    <3>2. call' = [call EXCEPT ![n] = Atomic!Pending(op)]
      BY <2>1, CallMoves, CallOf DEF Begin
    <3>3. QED BY <2>1, <3>1, <3>2, SameTransactions DEF Begin, Atomic!Begin, Atomic!Set
  <2>2. ASSUME NEW n \in Nodes, NEW op \in Ops, SelectForUpdate(n, op)
        PROVE  UNCHANGED Atomic!vars
    <3>1. PICK o : Set(n, Staged(op, o))
      BY <2>2 DEF SelectForUpdate
    <3>2. Call(tx[n]) = Call(Staged(op, o))
      BY <2>2 DEF SelectForUpdate, Waiting, Staged, Call
    <3>3. call' = [call EXCEPT ![n] = Call(Staged(op, o))]
      BY <3>1, CallMoves
    <3>4. call' = call
      BY <3>2, <3>3
    <3>5. QED BY <2>2, <3>4 DEF SelectForUpdate, Atomic!vars
  <2>3. ASSUME NEW n \in Nodes, Commit(n) PROVE Atomic!Next
    <3> DEFINE op == tx[n].op
               answer == tx[n].answer
    <3>1. op \in Ops /\ [row |-> tx[n].copy, answer |-> answer] \in Outcomes(row, op)
      BY <2>3 DEF Commit, IInv, Locked, Known
    <3>2. call[n] = Atomic!Pending(op)
      BY <2>3 DEF Commit, Call, Atomic!Pending
    <3>3. call' = [call EXCEPT ![n] = Atomic!Applied(op, answer)]
      BY <2>3, CallMoves, CallOf DEF Commit
    <3>4. \E o \in Outcomes(row, op) :
            row' = o.row /\ call' = [call EXCEPT ![n] = Atomic!Applied(op, o.answer)]
      BY <2>3, <3>1, <3>3 DEF Commit
    <3>5. Atomic!Apply(n, op)
      BY <2>3, <3>2, <3>4, SameTransactions DEF Commit, Atomic!Apply, Atomic!Set
    <3>6. QED BY <3>1, <3>5, SameTransactions DEF Atomic!Next
  <2>4. ASSUME NEW n \in Nodes, Reply(n) PROVE Atomic!Next
    <3>1. call[n] = Atomic!Applied(tx[n].op, tx[n].answer)
      BY <2>4 DEF Reply, Call, Atomic!Applied
    <3>2. call' = [call EXCEPT ![n] = Atomic!NoCall]
      BY <2>4, CallMoves, CallOf DEF Reply
    <3>3. /\ call[n].step = "applied"
          /\ call[n].op = tx[n].op /\ call[n].answer = tx[n].answer
      BY <3>1 DEF Atomic!Applied
    <3>4. Atomic!Reply(n, call[n].op, call[n].answer)
      BY <2>4, <3>1, <3>2, <3>3, SameTransactions DEF Reply, Atomic!Reply, Atomic!Set
    <3>5. QED BY <3>3, <3>4 DEF Atomic!Next
  <2>5. ASSUME NEW n \in Nodes, Fail(n) \/ Die(n) PROVE Atomic!Next
    <3>1. call' = [call EXCEPT ![n] = Atomic!NoCall]
      BY <2>5, CallMoves, CallOf DEF Fail, Die
    <3>2. Atomic!Fail(n) \/ Atomic!Die(n)
      BY <2>5, <3>1 DEF Fail, Die, Atomic!Fail, Atomic!Die, Atomic!Set
    <3>3. QED BY <3>2 DEF Atomic!Next
  <2>6. CASE UNCHANGED vars
    BY <2>6 DEF vars, Atomic!vars
  <2>7. QED BY <2>1, <2>2, <2>3, <2>4, <2>5, <2>6, SameTransactions DEF Next, Atomic!Next
<1>3. QED BY <1>1, <1>2, Invariance, PTL DEF Spec, UpdatesAreAtomic, Atomic!Spec

-----------------------------------------------------------------------------
(* What the lock buys: one profile for the pool, one room for a match.     *)

\* a request that began on a node of the row's own profile
Fits(r, op) == op.kind = "match" => r.profile # None /\ Accepted(op.entries, r.profile)

RowOK(r) ==
    /\ r = [profile |-> r.profile, allocs |-> r.allocs]
    /\ \A a \in r.allocs :
        /\ a = [id |-> a.id, key |-> a.key, users |-> a.users, entries |-> a.entries,
                over |-> a.over]
        /\ r.profile # None
        /\ \A e \in a.entries : e.profile = r.profile
    /\ \A a, b \in r.allocs : a.key = b.key => a.id = b.id

\* the row has a room of this key under this identity
Holds(r, key, id) == \E a \in r.allocs : a.key = key /\ a.id = id

\* what the row has, it keeps
Grows(r, t) == /\ r.profile # None => t.profile = r.profile
               /\ \A key, id : Holds(r, key, id) => Holds(t, key, id)

Tickets(match) == {e.ticket : e \in match}

\* a node runs with the row's profile, and accepted its request under it
Loyal(n) == /\ runs[n] # None => runs[n] = row.profile
            /\ tx[n].step \in {"waiting", "staged"} => Fits(row, tx[n].op)

\* an answer that has not been returned yet is true of the row
Truthful(n) == tx[n].step = "answered" =>
    /\ tx[n].answer.said = "started" =>
            tx[n].op.profile # None /\ row.profile = tx[n].op.profile
    /\ tx[n].answer.said = "allocated" =>
            /\ tx[n].op.kind = "match"
            /\ Holds(row, KeyOf(tx[n].op.entries), tx[n].answer.id)

RowInv == /\ RowOK(row)
          /\ runs = [n \in Nodes |-> runs[n]]
          /\ \A n \in Nodes : Loyal(n) /\ Truthful(n)
          /\ \A x \in told : Holds(row, Tickets(x.match), x.id)

LEMMA KeyIsTickets ==
  ASSUME NEW d PROVE KeyOf(d) = Tickets({d[1], d[2]})
  BY DEF KeyOf, Tickets

\* A node that pins its profile leaves the rooms alone.
LEMMA PinFits ==
  ASSUME NEW r, RowOK(r), NEW p \in Profiles, NEW o \in Pin(r, p)
  PROVE  /\ RowOK(o.row) /\ Grows(r, o.row)
         /\ o.answer.said = "started" => o.row.profile = p
         /\ o.answer.said # "allocated"
<1>1. CASE r.profile \in {None, p}
  <2>1. o = Outcome([r EXCEPT !.profile = p], "started", 0)
    BY <1>1 DEF Pin
  <2>2. o.row = [profile |-> p, allocs |-> r.allocs] /\ o.answer.said = "started"
    BY <2>1 DEF Outcome, RowOK
  <2>3. p # None
    BY NoneAssumption
  <2>4. r.profile # None => p = r.profile
    BY <1>1
  <2>5. RowOK(o.row)
    BY <2>2, <2>3, <2>4 DEF RowOK
  <2>6. QED BY <2>2, <2>4, <2>5 DEF Grows, Holds
<1>2. CASE r.profile \notin {None, p}
  <2>1. o = Outcome(r, "refused", 0)
    BY <1>2 DEF Pin
  <2>2. QED BY <2>1 DEF Outcome, Grows
<1>3. QED BY <1>1, <1>2

\* A match adds a room under a new key, or is told of the one its key has.
LEMMA AllocateFits ==
  ASSUME NEW r, RowOK(r), NEW d, NEW o \in Allocate(r, d),
         r.profile # None, Accepted(d, r.profile)
  PROVE  /\ RowOK(o.row) /\ Grows(r, o.row)
         /\ o.answer.said # "started"
         /\ o.answer.said = "allocated" => Holds(o.row, KeyOf(d), o.answer.id)
<1> DEFINE same == {a \in r.allocs : a.key = KeyOf(d)}
           busy == {a \in r.allocs \ same : ~a.over /\ a.users \cap UsersOf(d) # {}}
           id == Cardinality(r.allocs) + 1
           new == [id |-> id, key |-> KeyOf(d), users |-> UsersOf(d), entries |-> {d[1], d[2]},
                   over |-> FALSE]
           added == [r EXCEPT !.allocs = @ \cup {new}]
<1>1. CASE same \cup busy # {}
  <2>1. PICK a \in same \cup busy :
          o = IF a \in busy THEN Outcome(r, "busy", 0)
              ELSE IF a.users # UsersOf(d) THEN Outcome(r, "forbidden", 0)
              ELSE Outcome(r, "allocated", a.id)
    BY <1>1 DEF Allocate
  <2>2. o.row = r /\ o.answer.said \in {"busy", "forbidden", "allocated"}
    BY <2>1 DEF Outcome
  <2>3. o.answer.said = "allocated" => a \in same /\ o.answer.id = a.id
    BY <2>1 DEF Outcome
  <2>4. QED BY <2>2, <2>3 DEF Grows, Holds
<1>2. CASE same \cup busy = {} /\ id > Capacity
  <2>1. o = Outcome(r, "error", 0)
    BY <1>2 DEF Allocate
  <2>2. QED BY <2>1 DEF Outcome, Grows
<1>3. CASE same \cup busy = {} /\ ~(id > Capacity)
  <2>1. o = Outcome(added, "allocated", id)
    BY <1>3 DEF Allocate
  <2>2. added = [profile |-> r.profile, allocs |-> r.allocs \cup {new}]
    BY DEF RowOK
  <2>3. o.row = added /\ o.answer.said = "allocated" /\ o.answer.id = id
    BY <2>1 DEF Outcome
  <2>4. new.key = KeyOf(d) /\ new.id = id /\ new.entries = {d[1], d[2]}
    OBVIOUS
  <2>5. new = [id |-> new.id, key |-> new.key, users |-> new.users, entries |-> new.entries,
               over |-> new.over]
    OBVIOUS
  <2>6. \A e \in new.entries : e.profile = r.profile
    BY <2>4 DEF Accepted
  <2>7. \A a \in r.allocs : a.key # new.key
    BY <1>3, <2>4
  <2> HIDE DEF new, id
  <2>8. RowOK(added)
    BY <2>2, <2>5, <2>6, <2>7 DEF RowOK
  <2>9. Grows(r, added) /\ Holds(added, KeyOf(d), id)
    BY <2>2, <2>4 DEF Grows, Holds
  <2>10. QED BY <2>3, <2>8, <2>9
<1>4. QED BY <1>1, <1>2, <1>3

\* The end of a room leaves its key, its players and its profile.
LEMMA EndFits ==
  ASSUME NEW r, RowOK(r), NEW i, NEW o \in End(r, i)
  PROVE  /\ RowOK(o.row) /\ Grows(r, o.row)
         /\ o.answer.said \notin {"started", "allocated"}
<1> DEFINE Ended(a) == IF a.id = i THEN [a EXCEPT !.over = TRUE] ELSE a
           after == {Ended(a) : a \in r.allocs}
<1>1. o = Outcome([r EXCEPT !.allocs = after], "ended", i)
  BY DEF End
<1>2. o.row = [profile |-> r.profile, allocs |-> after] /\ o.answer.said = "ended"
  BY <1>1 DEF Outcome, RowOK
<1>3. ASSUME NEW a \in r.allocs
      PROVE  /\ Ended(a).id = a.id /\ Ended(a).key = a.key /\ Ended(a).entries = a.entries
             /\ Ended(a) = [id |-> Ended(a).id, key |-> Ended(a).key, users |-> Ended(a).users,
                            entries |-> Ended(a).entries, over |-> Ended(a).over]
  <2>1. a = [id |-> a.id, key |-> a.key, users |-> a.users, entries |-> a.entries, over |-> a.over]
    BY DEF RowOK
  <2>2. QED BY <2>1
<1> HIDE DEF Ended
<1>4. RowOK(o.row)
  BY <1>2, <1>3 DEF RowOK
<1>5. Grows(r, o.row)
  BY <1>2, <1>3 DEF Grows, Holds
<1>6. QED BY <1>2, <1>4, <1>5

\* Whatever fn does, the row grows and the answer is true of what is written.
LEMMA OutcomeFits ==
  ASSUME NEW r, RowOK(r), NEW op \in Ops, Fits(r, op), NEW o \in Outcomes(r, op)
  PROVE  /\ RowOK(o.row) /\ Grows(r, o.row)
         /\ o.answer.said = "started" => op.profile # None /\ o.row.profile = op.profile
         /\ o.answer.said = "allocated" =>
                op.kind = "match" /\ Holds(o.row, KeyOf(op.entries), o.answer.id)
<1>1. CASE op \in {NewOp(p) : p \in Profiles}
  <2>1. op.kind = "new" /\ op.profile \in Profiles
    BY <1>1 DEF NewOp
  <2>2. o \in Pin(r, op.profile)
    BY <2>1 DEF Outcomes
  <2>3. QED BY <2>1, <2>2, PinFits, NoneAssumption
<1>2. CASE op \in {MatchOp(d) : d \in Deliveries}
  <2>1. op.kind = "match"
    BY <1>2 DEF MatchOp
  <2>2. o \in Allocate(r, op.entries)
    BY <2>1 DEF Outcomes
  <2>3. QED BY <2>1, <2>2, AllocateFits DEF Fits
<1>3. CASE Sequel /\ op \in {EndOp(i) : i \in 1 .. Capacity}
  <2>1. op.kind = "end"
    BY <1>3 DEF EndOp
  <2>2. o \in End(r, op.id)
    BY <2>1 DEF Outcomes
  <2>3. QED BY <2>2, EndFits
<1>4. QED BY <1>1, <1>2, <1>3 DEF Ops

\* When the row grows, what was true of it stays true.
LEMMA GrowthKeeps ==
  ASSUME Grows(row, row'), NEW m, Loyal(m), Truthful(m), tx'[m] = tx[m], runs'[m] = runs[m]
  PROVE  Loyal(m)' /\ Truthful(m)'
<1>1. Loyal(m)'
  BY DEF Loyal, Fits, Accepted, Grows
<1>2. Truthful(m)'
  BY DEF Truthful, Grows
<1>3. QED BY <1>1, <1>2

\* A node's step keeps what the others know.
LEMMA NodeStep ==
  ASSUME IInv, RowInv, NEW n \in Nodes, NEW t, Set(n, t),
         RowOK(row'), Grows(row, row'),
         runs' = [m \in Nodes |-> runs'[m]], \A m \in Nodes \ {n} : runs'[m] = runs[m],
         Loyal(n)', Truthful(n)',
         \A x \in told' : Holds(row', Tickets(x.match), x.id)
  PROVE  RowInv'
<1>1. \A m \in Nodes \ {n} : tx'[m] = tx[m]
  BY DEF Set, IInv
<1>2. \A m \in Nodes \ {n} : Loyal(m)' /\ Truthful(m)'
  BY <1>1, GrowthKeeps DEF RowInv
<1>3. QED BY <1>2 DEF RowInv

\* The row of the pool: its profile, its keys, and what has been told of them.
THEOREM RowInvariance == Spec => []RowInv
<1>1. Init => RowInv
  BY DEF Init, RowInv, RowOK, Empty, Loyal, Truthful, Idle
<1>2. IInv /\ RowInv /\ [Next]_vars => RowInv'
  <2> SUFFICES ASSUME IInv, RowInv, [Next]_vars PROVE RowInv'
    OBVIOUS
  <2>0. ASSUME row' = row
        PROVE  RowOK(row') /\ Grows(row, row') /\ \A x \in told : Holds(row', Tickets(x.match), x.id)
    BY <2>0 DEF RowInv, Grows
  <2>1. ASSUME NEW n \in Nodes, NEW op \in Ops, Begin(n, op) PROVE RowInv'
    <3>1. Set(n, Waiting(op)) /\ UNCHANGED <<row, runs, told>> /\ MayBegin(runs[n], op)
      BY <2>1 DEF Begin
    <3>2. tx'[n] = Waiting(op)
      BY <3>1, OthersKeep, <2>1 DEF Begin
    <3>3. Fits(row, op)
      BY <3>1 DEF RowInv, Loyal, Fits, MayBegin
    <3>4. Loyal(n)' /\ Truthful(n)'
      BY <3>1, <3>2, <3>3 DEF Loyal, Truthful, Waiting, RowInv
    <3>5. QED BY <2>0, <3>1, <3>4, NodeStep DEF RowInv
  <2>2. ASSUME NEW n \in Nodes, NEW op \in Ops, SelectForUpdate(n, op) PROVE RowInv'
    <3>1. PICK o \in Outcomes(row, op) :
            Set(n, Staged(op, o)) /\ UNCHANGED <<row, runs, told>> /\ tx[n] = Waiting(op)
      BY <2>2 DEF SelectForUpdate
    <3>2. tx'[n] = Staged(op, o)
      BY <3>1 DEF Set, IInv
    <3>3. Fits(row, op)
      BY <3>1 DEF RowInv, Loyal, Waiting
    <3>4. Loyal(n)' /\ Truthful(n)'
      BY <3>1, <3>2, <3>3 DEF Loyal, Truthful, Staged, RowInv
    <3>5. QED BY <2>0, <3>1, <3>4, NodeStep DEF RowInv
  <2>3. ASSUME NEW n \in Nodes, Commit(n) PROVE RowInv'
    <3> DEFINE op == tx[n].op
               o == [row |-> tx[n].copy, answer |-> tx[n].answer]
    <3>1. op \in Ops /\ o \in Outcomes(row, op)
      BY <2>3 DEF Commit, IInv, Locked, Known
    <3>2. /\ Set(n, Answered(op, o.answer)) /\ row' = o.row
          /\ UNCHANGED <<runs, told>>
      BY <2>3 DEF Commit
    <3>3. Fits(row, op)
      BY <2>3 DEF Commit, RowInv, Loyal
    <3>4. tx'[n] = Answered(op, o.answer)
      BY <3>2 DEF Set, IInv
    <3> HIDE DEF op, o
    <3>5. /\ RowOK(o.row) /\ Grows(row, o.row)
          /\ o.answer.said = "started" => op.profile # None /\ o.row.profile = op.profile
          /\ o.answer.said = "allocated" =>
                op.kind = "match" /\ Holds(o.row, KeyOf(op.entries), o.answer.id)
      BY <3>1, <3>3, OutcomeFits DEF RowInv
    <3>6. /\ tx'[n].step = "answered" /\ tx'[n].op = op /\ tx'[n].answer = o.answer
      BY <3>4 DEF Answered
    <3>7. Loyal(n)'
      BY <3>2, <3>5, <3>6 DEF Loyal, Grows, RowInv
    <3>8. Truthful(n)'
      BY <3>2, <3>5, <3>6 DEF Truthful
    <3>9. \A x \in told' : Holds(row', Tickets(x.match), x.id)
      BY <3>2, <3>5 DEF RowInv, Grows
    <3>10. QED BY <3>2, <3>5, <3>7, <3>8, <3>9, NodeStep DEF RowInv
  <2>4. ASSUME NEW n \in Nodes, Reply(n) PROVE RowInv'
    <3> DEFINE op == tx[n].op
               answer == tx[n].answer
    <3>1. /\ Set(n, Idle) /\ row' = row /\ told' = Told(told, op, answer)
          /\ runs' = Running(runs, n, op, answer)
          /\ tx[n].step = "answered"
      BY <2>4 DEF Reply
    <3>2. tx'[n] = Idle
      BY <3>1 DEF Set, IInv
    <3>3. /\ answer.said = "started" => op.profile # None /\ row.profile = op.profile
          /\ answer.said = "allocated" => Holds(row, KeyOf(op.entries), answer.id)
      BY <3>1 DEF RowInv, Truthful
    <3> HIDE DEF op, answer
    <3>4. /\ runs' = [m \in Nodes |-> runs'[m]] /\ \A m \in Nodes \ {n} : runs'[m] = runs[m]
          /\ runs'[n] # None => runs'[n] = row.profile
      BY <3>1, <3>3 DEF Running, RowInv, Loyal
    <3>5. Loyal(n)' /\ Truthful(n)'
      BY <3>1, <3>2, <3>4 DEF Loyal, Truthful, Idle
    <3>6. \A x \in told' : x \in told \/ Holds(row, Tickets(x.match), x.id)
      <4>1. CASE answer.said = "allocated"
        <5>1. told' = told \cup {[match |-> {op.entries[1], op.entries[2]}, id |-> answer.id]}
          BY <3>1, <4>1 DEF Told
        <5>2. QED BY <3>3, <4>1, <5>1, KeyIsTickets
      <4>2. CASE answer.said # "allocated"
        BY <3>1, <4>2 DEF Told
      <4>3. QED BY <4>1, <4>2
    <3>7. QED BY <2>0, <3>1, <3>4, <3>5, <3>6, NodeStep
  <2>5. ASSUME NEW n \in Nodes, Fail(n) PROVE RowInv'
    <3>1. Set(n, Idle) /\ UNCHANGED <<row, runs, told>>
      BY <2>5 DEF Fail
    <3>2. Loyal(n)' /\ Truthful(n)'
      BY <3>1 DEF Loyal, Truthful, Idle, Set, IInv, RowInv
    <3>3. QED BY <2>0, <3>1, <3>2, NodeStep DEF RowInv
  <2>6. ASSUME NEW n \in Nodes, Die(n) PROVE RowInv'
    <3>1. Set(n, Idle) /\ UNCHANGED <<row, told>> /\ runs' = [runs EXCEPT ![n] = None]
      BY <2>6 DEF Die
    <3>2. /\ runs' = [m \in Nodes |-> runs'[m]] /\ runs'[n] = None
          /\ \A m \in Nodes \ {n} : runs'[m] = runs[m]
      BY <3>1 DEF RowInv
    <3>3. Loyal(n)' /\ Truthful(n)'
      BY <3>1, <3>2 DEF Loyal, Truthful, Idle, Set, IInv
    <3>4. QED BY <2>0, <3>1, <3>2, <3>3, NodeStep
  <2>7. CASE UNCHANGED vars
    <3>1. /\ UNCHANGED <<row, tx, runs, told>>
      BY <2>7 DEF vars
    <3>2. QED BY <3>1 DEF RowInv, Loyal, Truthful
  <2>8. QED BY <2>1, <2>2, <2>3, <2>4, <2>5, <2>6, <2>7 DEF Next
<1>3. QED BY <1>1, <1>2, Invariance, PTL DEF Spec

\* Nodes of several configurations start, stop and race for the row, and all
\* players of a room nevertheless have the profile of the pool.
THEOREM PoolHasOneProfile == Spec => []OneProfile
<1>1. RowInv => OneProfile
  BY DEF RowInv, RowOK, OneProfile
<1>2. QED BY <1>1, RowInvariance, PTL

\* All who are told of a room for a match are told of the same one.
THEOREM MatchesAlwaysAgree == Spec => []MatchesAgree
<1>1. RowInv => MatchesAgree
  BY DEF RowInv, RowOK, Holds, MatchesAgree
<1>2. QED BY <1>1, RowInvariance, PTL

=============================================================================
