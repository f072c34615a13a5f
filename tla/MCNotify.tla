------------------------------ MODULE MCNotify ------------------------------
(***************************************************************************)
(* The two things a tick tells the world: assignments to the players       *)
(* (Notify) and the end of a Create to its caller (Callbacks).  They share *)
(* nothing but the tick, so each is explored while the other is at rest:   *)
(* the run has the sum of their states, not the product.                   *)
(***************************************************************************)
EXTENDS Notify

CONSTANT Workers

VARIABLES stage, room, overdue, creating, callbacks, tick, calls, crashed

callbackVars == <<stage, room, overdue, creating, callbacks, tick, calls, crashed>>

CB == INSTANCE Callbacks

MCInit == (Init /\ CB!AtRest) \/ (AtRest /\ CB!Init)
MCNext == (Next /\ UNCHANGED callbackVars) \/ (CB!Next /\ UNCHANGED vars)
MCSpec == MCInit /\ [][MCNext]_<<vars, callbackVars>> /\ Fairness /\ CB!Fairness

\* The properties of Callbacks.
CalledOnce == CB!CalledOnce
SuccessWasServed == CB!SuccessWasServed
TimeoutIsDeserved == CB!TimeoutIsDeserved
CreateIsAnswered == CB!CreateIsAnswered

=============================================================================
