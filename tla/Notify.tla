------------------------------- MODULE Notify -------------------------------
(***************************************************************************)
(* Telling players that their assignment changed.  Each tick that holds    *)
(* the lease reads the allocations once, sends every user of those whose   *)
(* NotifiedRevision is behind, and records the revision it read if every   *)
(* send succeeded.  Assignments go on changing meanwhile, and a slow       *)
(* controller that lost the lease is still sending when its successor      *)
(* starts.                                                                 *)
(***************************************************************************)
EXTENDS Integers, FiniteSets

CONSTANTS Allocations, Users, Controllers,
          MaxRevision, MaxCrashes  \* bounds of the model

ASSUME BoundsAssumption == MaxRevision \in Nat \ {0} /\ MaxCrashes \in Nat

VARIABLES
    revision, notified,  \* state.Allocation: Revision, NotifiedRevision
    phase,               \* "live", "terminal", or "pruned" from the store
    inbox,               \* revisions each user has been sent
    ctl,                 \* each controller's notify
    crashes
vars == <<revision, notified, phase, inbox, ctl, crashes>>
store == <<revision, notified, phase>>

\* seen: the snapshot's revision of each allocation that is behind, which
\* leaves the set once it has been dealt with; left: users of the current one
Idle == [step |-> "idle", seen |-> {}, at |-> <<>>, left |-> {}, ok |-> TRUE]
Due == {at \in Allocations \X (1 .. MaxRevision) :
            phase[at[1]] # "pruned" /\ revision[at[1]] = at[2] /\ notified[at[1]] < at[2]}

Init == /\ revision = [a \in Allocations |-> 1]
        /\ notified = [a \in Allocations |-> 0]
        /\ phase = [a \in Allocations |-> "live"]
        /\ inbox = [a \in Allocations |-> [u \in Users |-> {}]]
        /\ ctl = [p \in Controllers |-> Idle]
        /\ crashes = 0

\* A change of a live allocation; one that ends it is the last.
Touch(a) ==
    /\ phase[a] = "live" /\ revision[a] < MaxRevision
    /\ revision' = [revision EXCEPT ![a] = @ + 1]
    /\ \E over \in {"live", "terminal"} : phase' = [phase EXCEPT ![a] = over]
    /\ UNCHANGED <<notified, inbox, ctl, crashes>>

\* A day after its end the tick forgets the allocation, told or not.
Prune(a) ==
    /\ phase[a] = "terminal"
    /\ phase' = [phase EXCEPT ![a] = "pruned"]
    /\ UNCHANGED <<revision, notified, inbox, ctl, crashes>>

\* The View of a tick that found something to tell.
Begin(p) ==
    /\ ctl[p].step = "idle" /\ Due # {}
    /\ ctl' = [ctl EXCEPT ![p] = [Idle EXCEPT !.step = "choosing", !.seen = Due]]
    /\ UNCHANGED <<store, inbox, crashes>>

Choose(p) ==
    /\ ctl[p].step = "choosing"
    /\ IF ctl[p].seen = {}
       THEN ctl' = [ctl EXCEPT ![p] = Idle]
       ELSE \E at \in ctl[p].seen :
                ctl' = [ctl EXCEPT ![p] = [step |-> "sending", seen |-> @.seen \ {at},
                                           at |-> at, left |-> Users, ok |-> TRUE]]
    /\ UNCHANGED <<store, inbox, crashes>>

\* One NotificationSend; a failed one does not stop the others.
Send(p, a, u, ok) ==
    /\ ctl[p].step = "sending" /\ u \in ctl[p].left /\ ctl[p].at[1] = a
    /\ ctl' = [ctl EXCEPT ![p].left = @ \ {u}, ![p].ok = @ /\ ok]
    /\ inbox' = IF ok THEN [inbox EXCEPT ![a][u] = @ \cup {ctl[p].at[2]}] ELSE inbox
    /\ UNCHANGED <<store, crashes>>

\* Mutant of Recorded: the revision is recorded whatever it is by now.
RecordedBlindly(a, r) == phase[a] # "pruned"
\* The transaction's test that the allocation is still what was sent.
Recorded(a, r) == phase[a] # "pruned" /\ revision[a] = r

\* Mutant of Record: the failed sends are forgotten.
RecordDespiteFailure(p, ok) ==
    LET a == ctl[p].at[1]
        r == ctl[p].at[2]
    IN /\ ctl[p].step = "sending" /\ ctl[p].left = {}
       /\ notified' = IF ok /\ Recorded(a, r) THEN [notified EXCEPT ![a] = r] ELSE notified
       /\ ctl' = [ctl EXCEPT ![p] = IF ok THEN [@ EXCEPT !.step = "choosing", !.at = <<>>] ELSE Idle]
       /\ UNCHANGED <<revision, phase, inbox, crashes>>

\* Mutant of Record: the live revision is recorded, not the one that was sent.
RecordLive(p, ok) ==
    LET a == ctl[p].at[1]
    IN /\ ctl[p].step = "sending" /\ ctl[p].left = {}
       /\ notified' = IF ok /\ ctl[p].ok /\ phase[a] # "pruned"
                      THEN [notified EXCEPT ![a] = revision[a]] ELSE notified
       /\ ctl' = [ctl EXCEPT ![p] = IF ok \/ ~ctl[p].ok
                                    THEN [@ EXCEPT !.step = "choosing", !.at = <<>>] ELSE Idle]
       /\ UNCHANGED <<revision, phase, inbox, crashes>>

\* After a failed send nothing is recorded; a failed transaction ends the tick.
Record(p, ok) ==
    LET a == ctl[p].at[1]
        r == ctl[p].at[2]
    IN /\ ctl[p].step = "sending" /\ ctl[p].left = {}
       /\ notified' = IF ok /\ ctl[p].ok /\ Recorded(a, r)
                      THEN [notified EXCEPT ![a] = r] ELSE notified
       /\ ctl' = [ctl EXCEPT ![p] = IF ok \/ ~ctl[p].ok
                                    THEN [@ EXCEPT !.step = "choosing", !.at = <<>>] ELSE Idle]
       /\ UNCHANGED <<revision, phase, inbox, crashes>>

Crash(p) ==
    /\ crashes < MaxCrashes /\ ctl[p] # Idle
    /\ ctl' = [ctl EXCEPT ![p] = Idle]
    /\ crashes' = crashes + 1
    /\ UNCHANGED <<store, inbox>>

Next == \/ \E a \in Allocations : Touch(a) \/ Prune(a)
        \/ \E p \in Controllers :
            \/ Begin(p) \/ Choose(p) \/ Crash(p)
            \/ \E ok \in BOOLEAN : Record(p, ok)
            \/ \E a \in Allocations, u \in Users, ok \in BOOLEAN : Send(p, a, u, ok)

\* A controller goes on ticking and its calls return; a user that is tried
\* again and again is reached, and the store does not fail for ever.
Fairness ==
    /\ WF_vars(\E p \in Controllers : Begin(p))
    /\ \A p \in Controllers :
        /\ WF_vars(\/ Choose(p)
                   \/ \E ok \in BOOLEAN : Record(p, ok)
                   \/ \E a \in Allocations, u \in Users, ok \in BOOLEAN : Send(p, a, u, ok))
        /\ \A a \in Allocations : SF_vars(ctl[p].at # <<>> /\ ctl[p].at[1] = a /\ Record(p, TRUE))
    /\ \A a \in Allocations, u \in Users :
        SF_vars(\E p \in Controllers : Send(p, a, u, TRUE))

Spec == Init /\ [][Next]_vars /\ Fairness

\* No allocation is left: no step is possible.
AtRest == /\ revision = [a \in Allocations |-> 1]
          /\ notified = [a \in Allocations |-> 0]
          /\ phase = [a \in Allocations |-> "pruned"]
          /\ inbox = [a \in Allocations |-> [u \in Users |-> {}]]
          /\ ctl = [p \in Controllers |-> Idle]
          /\ crashes = MaxCrashes

-----------------------------------------------------------------------------
\* An allocation counts as notified at a revision only if every one of its
\* users was sent that revision: sends that fail are not forgotten.
RecordedWasSent ==
    \A a \in Allocations : notified[a] > 0 => \A u \in Users : notified[a] \in inbox[a][u]

\* A slow controller never takes back what its successor has recorded.
NotifiedNeverFalls ==
    [][\A a \in Allocations : notified'[a] >= notified[a]]_vars

\* Every user of an allocation is sent each revision, unless a later one
\* replaces it or the allocation is forgotten.
EventuallyTold ==
    \A a \in Allocations, u \in Users, r \in 1 .. MaxRevision :
        (revision[a] = r /\ phase[a] # "pruned")
            ~> (r \in inbox[a][u] \/ revision[a] > r \/ phase[a] = "pruned")

=============================================================================
