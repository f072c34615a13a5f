------------------------------- MODULE Lease --------------------------------
(***************************************************************************)
(* The controllers' lease against the clock.  Fleet lets any process take  *)
(* the lease at any moment; here the deadlines are kept, to show what the  *)
(* renewal before each provider operation is worth.                        *)
(*                                                                         *)
(* A transaction is answered within TxLimit seconds and a provider call    *)
(* within CallLimit (the code's context.WithTimeout); everything before    *)
(* the renewal may take any time.  A process that dies comes back under    *)
(* another name, as owner is a fresh random id.                            *)
(***************************************************************************)
EXTENDS Integers

CONSTANTS Processes, Nobody,
          LeaseTerm,  \* 30
          CallLimit,  \* 5
          TxLimit,    \* the database's, not the code's
          MaxClock    \* bound of the model

ASSUME NobodyAssumption == Nobody \notin Processes
ASSUME TimesAssumption ==
    /\ LeaseTerm \in Nat /\ CallLimit \in Nat /\ TxLimit \in Nat /\ MaxClock \in Nat
    /\ 3 * TxLimit + 2 * CallLimit < LeaseTerm

VARIABLES
    clock,
    leader, until,  \* state.State: Leader, LeaseUntil
    proc            \* each process's Tick: its step, the now it read, and the
                    \* time by which the step ends
vars == <<clock, leader, until, proc>>

Calling == {"calling", "deleting", "confirming"}
Timed == Calling \cup {"renewed", "intending", "rechecking", "recording"}
Steps == Timed \cup {"idle", "ticking", "leading", "dead"}

At(p, step) == proc[p].step = step
Become(p, step, now, deadline) ==
    proc' = [proc EXCEPT ![p] = [step |-> step, now |-> now, deadline |-> deadline]]
Leave(p, step) == Become(p, step, 0, 0)

Init == /\ clock = 0 /\ leader = Nobody /\ until = 0
        /\ proc = [p \in Processes |-> [step |-> "idle", now |-> 0, deadline |-> 0]]

Advance ==
    /\ clock < MaxClock
    /\ \A p \in Processes : proc[p].step \in Timed => clock < proc[p].deadline
    /\ clock' = clock + 1
    /\ UNCHANGED <<leader, until, proc>>

\* Tick reads now, then waits for the row lock.
Begin(p) == /\ At(p, "idle")
            /\ Become(p, "ticking", clock, 0)
            /\ UNCHANGED <<clock, leader, until>>

TickTx(p) ==
    /\ At(p, "ticking")
    /\ IF leader # p /\ until > proc[p].now
       THEN Leave(p, "idle") /\ UNCHANGED <<leader, until>>
       ELSE /\ leader' = p /\ until' = proc[p].now + LeaseTerm
            /\ Leave(p, "leading")
    /\ UNCHANGED clock

\* Mutant of Renew: the lease is only checked, not extended.
RenewChecksOnly(p) ==
    /\ At(p, "leading")
    /\ IF leader = p /\ until > clock
       THEN Become(p, "renewed", 0, clock + TxLimit)
       ELSE Leave(p, "idle")
    /\ UNCHANGED <<clock, leader, until>>

\* Mutant of Renew: the holder extends a lease that it may have lost.
RenewUnchecked(p) ==
    /\ At(p, "leading")
    /\ until' = clock + LeaseTerm
    /\ Become(p, "renewed", 0, clock + TxLimit)
    /\ UNCHANGED <<clock, leader>>

Renew(p) ==
    /\ At(p, "leading")
    /\ IF leader = p /\ until > clock
       THEN until' = clock + LeaseTerm /\ Become(p, "renewed", 0, clock + TxLimit)
       ELSE Leave(p, "idle") /\ UNCHANGED until
    /\ UNCHANGED <<clock, leader>>

\* start reads its now before its transaction waits; stop rechecks inside its
\* own; poll and reconcileUnknown call at once.
Operate(p) ==
    /\ At(p, "renewed")
    /\ \/ Become(p, "intending", clock, clock + TxLimit)
       \/ Become(p, "rechecking", 0, clock + TxLimit)
       \/ Become(p, "calling", 0, proc[p].deadline + CallLimit)
    /\ UNCHANGED <<clock, leader, until>>

\* The transaction's answer may take until its deadline, then the call begins.
Guarded(p, now, step) ==
    /\ IF leader # p \/ until <= now
       THEN Leave(p, "idle")
       ELSE Become(p, step, 0, proc[p].deadline + CallLimit)
    /\ UNCHANGED <<clock, leader, until>>

Intend(p) == At(p, "intending") /\ Guarded(p, proc[p].now, "calling")
Recheck(p) == At(p, "rechecking") /\ Guarded(p, clock, "deleting")

Confirm(p) ==
    /\ At(p, "deleting")
    /\ Become(p, "confirming", 0, proc[p].deadline + CallLimit)
    /\ UNCHANGED <<clock, leader, until>>

Return(p) ==
    /\ proc[p].step \in Calling
    /\ Become(p, "recording", 0, proc[p].deadline + TxLimit)
    /\ UNCHANGED <<clock, leader, until>>

\* The result is written if leader = p and dropped otherwise; ErrBusy, a failed
\* transaction and the end of a tick without work also end here.
Finish(p) ==
    /\ proc[p].step \in {"recording", "leading", "intending", "rechecking"}
    /\ Leave(p, "idle")
    /\ UNCHANGED <<clock, leader, until>>

Die(p) == /\ ~At(p, "dead")
          /\ Leave(p, "dead")
          /\ UNCHANGED <<clock, leader, until>>

\* Run gives the lease back when Tick has returned and its context is done.
Shutdown(p) ==
    /\ At(p, "idle")
    /\ until' = IF leader = p THEN 0 ELSE until
    /\ Leave(p, "dead")
    /\ UNCHANGED <<clock, leader>>

Next == \/ Advance
        \/ \E p \in Processes :
            \/ Begin(p) \/ TickTx(p) \/ Renew(p) \/ Operate(p) \/ Intend(p) \/ Recheck(p)
            \/ Confirm(p) \/ Return(p) \/ Finish(p) \/ Die(p) \/ Shutdown(p)

Spec == Init /\ [][Next]_vars

-----------------------------------------------------------------------------
\* The clocks and the processes stay within their types.
TypeOK ==
    /\ clock \in Nat /\ until \in Nat
    /\ leader \in Processes \cup {Nobody}
    /\ proc \in [Processes -> [step : Steps, now : Nat, deadline : Nat]]

\* Two processes are never inside provider calls at the same time, although
\* each works from a clock it read before it waited for the row lock.
OneCaller ==
    \A p, q \in Processes :
        proc[p].step \in Calling /\ proc[q].step \in Calling => p = q

\* A process that is about to record a provider's answer still leads, so the
\* answer to a call that was made in time is never dropped.
AnswersAreRecorded == \A p \in Processes : At(p, "recording") => leader = p

=============================================================================
