------------------------------ MODULE MCLease -------------------------------
(***************************************************************************)
(* What a tick may do and for whom: the lease that guards its provider     *)
(* operation (Lease) and the worker it picks for it (Schedule).  The pick  *)
(* does not depend on the lease, so the two are not multiplied: Schedule   *)
(* runs only where all of Lease is over.                                   *)
(***************************************************************************)
EXTENDS Lease

CONSTANTS Workers, Poll, MaxRefusals

VARIABLES state, due, served, refusals

scheduleVars == <<state, due, served, refusals>>

S == INSTANCE Schedule

Over == /\ clock = MaxClock /\ leader = Nobody /\ until = 0
        /\ \A p \in Processes : At(p, "dead")

MCInit == /\ S!Init
          /\ \/ Init
             \/ /\ clock = MaxClock /\ leader = Nobody /\ until = 0
                /\ proc = [p \in Processes |-> [step |-> "dead", now |-> 0, deadline |-> 0]]

MCNext == \/ Next /\ UNCHANGED scheduleVars
          \/ Over /\ S!Next /\ UNCHANGED vars

MCSpec == MCInit /\ [][MCNext]_<<vars, scheduleVars>> /\ S!Fairness

\* As long as transactions do not fail and stops are not refused for ever, every
\* worker that is due is looked at, whatever the others' calls come to and however
\* many are requested.
NobodyIsLeftAside == S!NobodyIsLeftAside

=============================================================================
