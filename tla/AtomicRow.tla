----------------------------- MODULE AtomicRow ------------------------------
(***************************************************************************)
(* What Store.Update promises its callers: a call takes effect at one      *)
(* moment on the row of that moment, or not at all; a caller that gets no  *)
(* answer cannot tell which.                                               *)
(***************************************************************************)
EXTENDS MatchRow

VARIABLES row, call, runs, told
vars == <<row, call, runs, told>>

NoCall == [step |-> "idle"]
Pending(op) == [step |-> "pending", op |-> op]
Applied(op, answer) == [step |-> "applied", op |-> op, answer |-> answer]
Set(n, c) == call' = [call EXCEPT ![n] = c]

Init == /\ row = Empty /\ told = {}
        /\ call = [n \in Nodes |-> NoCall]
        /\ runs = [n \in Nodes |-> None]

Begin(n, op) ==
    /\ call[n] = NoCall /\ MayBegin(runs[n], op)
    /\ Set(n, Pending(op))
    /\ UNCHANGED <<row, runs, told>>

Apply(n, op) ==
    /\ call[n] = Pending(op)
    /\ \E o \in Outcomes(row, op) : row' = o.row /\ Set(n, Applied(op, o.answer))
    /\ UNCHANGED <<runs, told>>

Reply(n, op, answer) ==
    /\ call[n] = Applied(op, answer)
    /\ Set(n, NoCall)
    /\ told' = Told(told, op, answer) /\ runs' = Running(runs, n, op, answer)
    /\ UNCHANGED row

\* The call fails, before its effect or after it.
Fail(n) == Set(n, NoCall) /\ UNCHANGED <<row, runs, told>>

Die(n) == Set(n, NoCall) /\ runs' = [runs EXCEPT ![n] = None] /\ UNCHANGED <<row, told>>

Next == \E n \in Nodes :
    \/ Fail(n) \/ Die(n)
    \/ \E op \in Ops : Begin(n, op) \/ Apply(n, op)
    \/ call[n].step = "applied" /\ Reply(n, call[n].op, call[n].answer)

Spec == Init /\ [][Next]_vars

=============================================================================
