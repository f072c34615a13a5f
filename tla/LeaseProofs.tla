---------------------------- MODULE LeaseProofs -----------------------------
(***************************************************************************)
(* For every number of processes and all durations that the assumption of  *)
(* Lease admits, one process at a time is inside provider calls.           *)
(***************************************************************************)
EXTENDS Lease, TLAPS

\* how long after the renewal the step may still last
Budget == [step \in Timed |->
    CASE step = "renewed" -> TxLimit
      [] step \in {"intending", "rechecking"} -> 2 * TxLimit
      [] step \in {"calling", "deleting"} -> 2 * TxLimit + CallLimit
      [] step = "confirming" -> 2 * TxLimit + 2 * CallLimit
      [] step = "recording" -> 3 * TxLimit + 2 * CallLimit]

\* A process between its renewal and the end of its operation leads, and ends
\* its step within the budget counted from the renewal.
Held(p) ==
    proc[p].step \in Timed =>
        /\ leader = p
        /\ clock <= proc[p].deadline
        /\ proc[p].deadline <= (until - LeaseTerm) + Budget[proc[p].step]

\* A transaction's now is never ahead of the clock.
Behind(p) == proc[p].now <= clock

IInv == TypeOK /\ \A p \in Processes : Held(p) /\ Behind(p)

\* Every budget ends before the lease does.
LEMMA BudgetFits == \A step \in Timed : Budget[step] \in Nat /\ Budget[step] < LeaseTerm
  BY TimesAssumption DEF Budget, Timed, Calling

\* Outside its own transactions a process changes its own step only; if it
\* keeps its budget, the invariant is kept.
LEMMA StepKeeps ==
  ASSUME IInv, NEW p \in Processes, NEW step \in Steps, NEW now \in Nat, NEW deadline \in Nat,
         Become(p, step, now, deadline), UNCHANGED <<clock, leader, until>>,
         now <= clock,
         step \in Timed => /\ leader = p /\ clock <= deadline
                           /\ deadline <= (until - LeaseTerm) + Budget[step]
  PROVE  IInv'
  BY DEF IInv, TypeOK, Held, Behind, Become

\* The inductive invariant holds initially and is kept by every step.
THEOREM Invariance == Spec => []IInv
<1>1. Init => IInv
  BY TimesAssumption DEF Init, IInv, TypeOK, Held, Behind, Steps, Timed, Calling
<1>2. IInv /\ [Next]_vars => IInv'
  <2> SUFFICES ASSUME IInv, [Next]_vars PROVE IInv'
    OBVIOUS
  <2> USE TimesAssumption
  <2>1. CASE Advance
    BY <2>1 DEF Advance, IInv, TypeOK, Held, Behind, Steps, Timed, Calling
  <2>2. ASSUME NEW p \in Processes, Begin(p) PROVE IInv'
    <3>1. Become(p, "ticking", clock, 0) /\ UNCHANGED <<clock, leader, until>>
      BY <2>2 DEF Begin
    <3>2. clock \in Nat /\ "ticking" \in Steps /\ "ticking" \notin Timed
      BY DEF IInv, TypeOK, Steps, Timed, Calling
    <3>3. QED BY <3>1, <3>2, StepKeeps
  <2>3. ASSUME NEW p \in Processes, TickTx(p) PROVE IInv'
    <3>1. At(p, "ticking") /\ UNCHANGED clock
      BY <2>3 DEF TickTx
    <3>2. CASE leader # p /\ until > proc[p].now
      <4>1. Become(p, "idle", 0, 0) /\ UNCHANGED <<clock, leader, until>>
        BY <2>3, <3>2 DEF TickTx, Leave
      <4>2. "idle" \in Steps /\ "idle" \notin Timed /\ 0 <= clock
        BY DEF IInv, TypeOK, Steps, Timed, Calling
      <4>3. QED BY <4>1, <4>2, StepKeeps
    <3>3. CASE ~(leader # p /\ until > proc[p].now)
      <4>1. /\ leader' = p /\ until' = proc[p].now + LeaseTerm
            /\ proc' = [proc EXCEPT ![p] = [step |-> "leading", now |-> 0, deadline |-> 0]]
        BY <2>3, <3>3 DEF TickTx, Leave, Become
      <4>2. \A q \in Processes : q # p => proc[q].step \notin Timed
        <5> SUFFICES ASSUME NEW q \in Processes, q # p, proc[q].step \in Timed PROVE FALSE
          OBVIOUS
        <5>1. leader = q /\ clock < until
          BY BudgetFits DEF IInv, TypeOK, Held
        <5>2. proc[p].now <= clock
          BY DEF IInv, Behind
        <5>3. QED BY <5>1, <5>2, <3>3 DEF IInv, TypeOK
      <4>3. TypeOK'
        BY <3>1, <4>1 DEF IInv, TypeOK, Steps
      <4>4. ASSUME NEW q \in Processes PROVE Held(q)' /\ Behind(q)'
        <5>1. CASE q = p
          BY <5>1, <3>1, <4>1 DEF IInv, TypeOK, Held, Behind, Timed, Calling
        <5>2. CASE q # p
          BY <5>2, <3>1, <4>1, <4>2 DEF IInv, TypeOK, Held, Behind
        <5>3. QED BY <5>1, <5>2
      <4>5. QED BY <4>3, <4>4 DEF IInv
    <3>4. QED BY <3>2, <3>3
  <2>4. ASSUME NEW p \in Processes, Renew(p) PROVE IInv'
    <3>1. CASE leader = p /\ until > clock
      <4>1. /\ until' = clock + LeaseTerm /\ UNCHANGED <<clock, leader>>
            /\ proc' = [proc EXCEPT ![p] = [step |-> "renewed", now |-> 0,
                                            deadline |-> clock + TxLimit]]
        BY <2>4, <3>1 DEF Renew, Become
      <4>2. \A q \in Processes : q # p => proc[q].step \notin Timed
        BY <3>1 DEF IInv, Held
      <4>3. TypeOK'
        BY <4>1 DEF IInv, TypeOK, Steps, Timed
      <4>4. ASSUME NEW q \in Processes PROVE Held(q)' /\ Behind(q)'
        <5>1. CASE q = p
          BY <5>1, <3>1, <4>1 DEF IInv, TypeOK, Held, Behind, Timed, Budget
        <5>2. CASE q # p
          BY <5>2, <4>1, <4>2 DEF IInv, TypeOK, Held, Behind
        <5>3. QED BY <5>1, <5>2
      <4>5. QED BY <4>3, <4>4 DEF IInv
    <3>2. CASE ~(leader = p /\ until > clock)
      <4>1. Become(p, "idle", 0, 0) /\ UNCHANGED <<clock, leader, until>>
        BY <2>4, <3>2 DEF Renew, Leave
      <4>2. "idle" \in Steps /\ "idle" \notin Timed /\ 0 <= clock
        BY DEF IInv, TypeOK, Steps, Timed, Calling
      <4>3. QED BY <4>1, <4>2, StepKeeps
    <3>3. QED BY <3>1, <3>2
  <2>5. ASSUME NEW p \in Processes, Operate(p) PROVE IInv'
    <3>1. At(p, "renewed") /\ UNCHANGED <<clock, leader, until>>
      BY <2>5 DEF Operate
    <3>2. /\ leader = p /\ clock <= proc[p].deadline /\ proc[p].deadline \in Nat
          /\ proc[p].deadline <= (until - LeaseTerm) + TxLimit
          /\ clock \in Nat /\ until \in Nat
      BY <3>1 DEF At, IInv, TypeOK, Held, Budget, Timed
    <3>3. {"intending", "rechecking", "calling"} \subseteq Steps
      BY DEF Steps, Timed, Calling
    <3>4. /\ Budget["intending"] = 2 * TxLimit /\ Budget["rechecking"] = 2 * TxLimit
          /\ Budget["calling"] = 2 * TxLimit + CallLimit
      BY DEF Budget, Timed, Calling
    <3>5. CASE Become(p, "intending", clock, clock + TxLimit)
      BY <3>1, <3>2, <3>3, <3>4, <3>5, StepKeeps
    <3>6. CASE Become(p, "rechecking", 0, clock + TxLimit)
      BY <3>1, <3>2, <3>3, <3>4, <3>6, StepKeeps
    <3>7. CASE Become(p, "calling", 0, proc[p].deadline + CallLimit)
      BY <3>1, <3>2, <3>3, <3>4, <3>7, StepKeeps
    <3>8. QED BY <2>5, <3>5, <3>6, <3>7 DEF Operate
  <2>6. ASSUME NEW p \in Processes, Intend(p) \/ Recheck(p) PROVE IInv'
    <3>1. PICK step \in {"calling", "deleting"} :
            /\ UNCHANGED <<clock, leader, until>>
            /\ \/ Become(p, "idle", 0, 0)
               \/ Become(p, step, 0, proc[p].deadline + CallLimit)
      BY <2>6 DEF Intend, Recheck, Guarded, Leave
    <3>2. proc[p].step \in {"intending", "rechecking"}
      BY <2>6 DEF Intend, Recheck, At
    <3>3. /\ leader = p /\ clock <= proc[p].deadline /\ proc[p].deadline \in Nat
          /\ proc[p].deadline <= (until - LeaseTerm) + 2 * TxLimit
          /\ clock \in Nat /\ until \in Nat
      BY <3>2 DEF IInv, TypeOK, Held, Budget, Timed
    <3>4. /\ Budget[step] = 2 * TxLimit + CallLimit
          /\ "idle" \in Steps /\ step \in Steps /\ "idle" \notin Timed
      BY <3>1 DEF Budget, Steps, Timed, Calling
    <3>5. CASE Become(p, "idle", 0, 0)
      BY <3>1, <3>3, <3>4, <3>5, StepKeeps
    <3>6. CASE Become(p, step, 0, proc[p].deadline + CallLimit)
      BY <3>1, <3>3, <3>4, <3>6, StepKeeps
    <3>7. QED BY <3>1, <3>5, <3>6
  <2>7. ASSUME NEW p \in Processes, Confirm(p) PROVE IInv'
    <3>1. /\ At(p, "deleting") /\ UNCHANGED <<clock, leader, until>>
          /\ Become(p, "confirming", 0, proc[p].deadline + CallLimit)
      BY <2>7 DEF Confirm
    <3>2. /\ leader = p /\ clock <= proc[p].deadline /\ proc[p].deadline \in Nat
          /\ proc[p].deadline <= (until - LeaseTerm) + (2 * TxLimit + CallLimit)
          /\ clock \in Nat /\ until \in Nat
      BY <3>1 DEF At, IInv, TypeOK, Held, Budget, Timed, Calling
    <3>3. Budget["confirming"] = 2 * TxLimit + 2 * CallLimit /\ "confirming" \in Steps
      BY DEF Budget, Steps, Timed, Calling
    <3>4. QED BY <3>1, <3>2, <3>3, StepKeeps
  <2>8. ASSUME NEW p \in Processes, Return(p) PROVE IInv'
    <3>1. /\ proc[p].step \in Calling /\ UNCHANGED <<clock, leader, until>>
          /\ Become(p, "recording", 0, proc[p].deadline + TxLimit)
      BY <2>8 DEF Return
    <3>2. /\ leader = p /\ clock <= proc[p].deadline /\ proc[p].deadline \in Nat
          /\ proc[p].deadline <= (until - LeaseTerm) + (2 * TxLimit + 2 * CallLimit)
          /\ clock \in Nat /\ until \in Nat
      <4>1. leader = p /\ clock <= proc[p].deadline /\ proc[p].deadline \in Nat
            /\ proc[p].deadline <= (until - LeaseTerm) + Budget[proc[p].step]
            /\ clock \in Nat /\ until \in Nat
        BY <3>1 DEF IInv, TypeOK, Held, Timed
      <4>2. /\ Budget["calling"] = 2 * TxLimit + CallLimit
            /\ Budget["deleting"] = 2 * TxLimit + CallLimit
            /\ Budget["confirming"] = 2 * TxLimit + 2 * CallLimit
        BY DEF Budget, Timed, Calling
      <4>3. Budget[proc[p].step] \in {2 * TxLimit + CallLimit, 2 * TxLimit + 2 * CallLimit}
        BY <3>1, <4>2 DEF Calling
      <4>4. QED BY <4>1, <4>3, TimesAssumption
    <3>3. Budget["recording"] = 3 * TxLimit + 2 * CallLimit /\ "recording" \in Steps
      BY DEF Budget, Steps, Timed, Calling
    <3>4. QED BY <3>1, <3>2, <3>3, StepKeeps
  <2>9. ASSUME NEW p \in Processes, Finish(p) \/ Die(p) PROVE IInv'
    <3>1. PICK step \in {"idle", "dead"} : /\ Become(p, step, 0, 0)
                                           /\ UNCHANGED <<clock, leader, until>>
      BY <2>9 DEF Finish, Die, Leave
    <3>2. step \in Steps /\ step \notin Timed /\ 0 <= clock
      BY <3>1 DEF IInv, TypeOK, Steps, Timed, Calling
    <3>3. QED BY <3>1, <3>2, StepKeeps
  <2>10. ASSUME NEW p \in Processes, Shutdown(p) PROVE IInv'
    <3>1. /\ At(p, "idle") /\ UNCHANGED <<clock, leader>>
          /\ until' = IF leader = p THEN 0 ELSE until
          /\ proc' = [proc EXCEPT ![p] = [step |-> "dead", now |-> 0, deadline |-> 0]]
      BY <2>10 DEF Shutdown, Leave, Become
    <3>2. TypeOK'
      BY <3>1 DEF IInv, TypeOK, Steps
    <3>3. ASSUME NEW q \in Processes PROVE Held(q)' /\ Behind(q)'
      <4>1. CASE q = p
        BY <4>1, <3>1 DEF IInv, TypeOK, Held, Behind, Timed, Calling
      <4>2. CASE q # p
        BY <4>2, <3>1 DEF IInv, TypeOK, Held, Behind
      <4>3. QED BY <4>1, <4>2
    <3>4. QED BY <3>2, <3>3 DEF IInv
  <2>11. CASE UNCHANGED vars
    BY <2>11 DEF vars, IInv, TypeOK, Held, Behind
  <2>12. QED
    BY <2>1, <2>2, <2>3, <2>4, <2>5, <2>6, <2>7, <2>8, <2>9, <2>10, <2>11 DEF Next
<1>3. QED BY <1>1, <1>2, PTL DEF Spec

\* Two processes are never inside provider calls at the same time.
THEOREM CallsAreExclusive == Spec => []OneCaller
<1>1. IInv => OneCaller
  BY DEF IInv, Held, OneCaller, Timed
<1>2. QED BY <1>1, Invariance, PTL

\* The answer to a provider call is recorded by a process that still leads.
THEOREM AnswersCount == Spec => []AnswersAreRecorded
<1>1. IInv => AnswersAreRecorded
  BY DEF IInv, Held, AnswersAreRecorded, At, Timed
<1>2. QED BY <1>1, Invariance, PTL

=============================================================================
