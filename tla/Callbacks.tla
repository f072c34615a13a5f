----------------------------- MODULE Callbacks ------------------------------
(***************************************************************************)
(* The callbacks of FleetManager's Create in the process that was asked.   *)
(* Create commits a worker and registers its callback afterwards, while    *)
(* the ticks of the process read the store and, under another lock, decide *)
(* which callbacks are due.  Every process delivers its own, whoever has   *)
(* the lease; what the controllers do to the worker is abstract here (see  *)
(* Fleet), as is the day after which an ended room is forgotten: the ticks *)
(* of a process are not held up for as long.                               *)
(***************************************************************************)
EXTENDS Integers, Sequences

CONSTANT Workers

VARIABLES
    stage,      \* State of each worker, as far as a callback tells it apart
    room,       \* the room named by InitialAllocationID: "none" if there is none
    overdue,    \* whether LaunchTimeout has passed since CreatedAt
    creating,   \* workers whose Create has committed and not yet registered
    callbacks,  \* Manager.callbacks
    tick,       \* deliverCallbacks of the running tick
    calls,      \* every InvokeCallback of a worker so far
    crashed     \* the process was restarted
vars == <<stage, room, overdue, creating, callbacks, tick, calls, crashed>>
store == <<stage, room, overdue>>

Idle == [step |-> "idle", stage |-> <<>>, room |-> <<>>, ready |-> {}]

Init == /\ stage = [w \in Workers |-> "absent"]
        /\ room = [w \in Workers |-> "none"]
        /\ overdue = [w \in Workers |-> FALSE]
        /\ creating = {} /\ callbacks = {} /\ tick = Idle
        /\ calls = [w \in Workers |-> <<>>] /\ crashed = FALSE

\* The transaction of a Create with a callback, with users or without.
Create(w) ==
    /\ stage[w] = "absent"
    /\ stage' = [stage EXCEPT ![w] = "coming"]
    /\ \E r \in {"none", "waiting"} : room' = [room EXCEPT ![w] = r]
    /\ creating' = creating \cup {w}
    /\ UNCHANGED <<overdue, callbacks, tick, calls, crashed>>

Register(w) ==
    /\ w \in creating
    /\ creating' = creating \ {w} /\ callbacks' = callbacks \cup {w}
    /\ UNCHANGED <<store, tick, calls, crashed>>

\* What the controllers make of the worker and its room; "away" stands for
\* suspect, draining and stopping, "cancelled" for a room that ends ungiven.
Moves == [absent |-> {}, coming |-> {"ready", "away", "ended"}, ready |-> {"away", "ended"},
          away |-> {"ready", "ended"}, ended |-> {}]
RoomMoves == [none |-> {}, waiting |-> {"given", "cancelled"}, given |-> {"over"},
              over |-> {}, cancelled |-> {}]

Change(w) ==
    /\ \/ \E s \in Moves[stage[w]] :
            /\ stage' = [stage EXCEPT ![w] = s]
            /\ room' = [room EXCEPT ![w] = IF s = "ended" /\ @ = "given" THEN "over" ELSE @]
       \/ \E r \in RoomMoves[room[w]] :
            /\ r = "given" => stage[w] \in {"ready", "away"}
            /\ room' = [room EXCEPT ![w] = r] /\ UNCHANGED stage
    /\ UNCHANGED <<overdue, creating, callbacks, tick, calls, crashed>>

TimePasses(w) == /\ stage[w] # "absent" /\ ~overdue[w]
                 /\ overdue' = [overdue EXCEPT ![w] = TRUE]
                 /\ UNCHANGED <<stage, room, creating, callbacks, tick, calls, crashed>>

\* The View of deliverCallbacks, of a tick that has or may get something to do.
View == /\ tick.step = "idle"
        /\ \E w \in Workers : w \in callbacks \cup creating \/ stage[w] = "absent"
        /\ tick' = [tick EXCEPT !.step = "viewed", !.stage = stage, !.room = room]
        /\ UNCHANGED <<store, creating, callbacks, calls, crashed>>

\* Mutant of Served: the worker's room is not looked at.
ServedByWorker(w) == tick.stage[w] = "ready"
Served(w) == tick.stage[w] = "ready" /\ tick.room[w] \in {"none", "given"}

\* Mutant of Failed: a worker the snapshot does not know has failed.
FailedIfUnknown(w) == tick.stage[w] \in {"absent", "ended"} \/ overdue[w]
\* Mutant of Failed: a worker that is there is waited for.
FailedIfEnded(w) == tick.stage[w] = "ended"
\* The snapshot is of before Decide, the clock is not.
Failed(w) == tick.stage[w] = "ended" \/ (tick.stage[w] # "absent" /\ overdue[w])

Decide ==
    /\ tick.step = "viewed"
    /\ LET success == {w \in callbacks : Served(w)}
           timeout == {w \in callbacks \ success : Failed(w)}
       IN /\ tick' = [tick EXCEPT !.step = "calling",
                          !.ready = (success \X {"success"}) \cup (timeout \X {"timeout"})]
          /\ callbacks' = callbacks \ (success \cup timeout)
    /\ UNCHANGED <<store, creating, calls, crashed>>

\* One InvokeCallback after the other.
Invoke ==
    /\ tick.step = "calling"
    /\ IF tick.ready = {} THEN tick' = Idle /\ UNCHANGED calls
       ELSE \E d \in tick.ready :
            /\ tick' = [tick EXCEPT !.ready = @ \ {d}]
            /\ calls' = [calls EXCEPT ![d[1]] = Append(@, d[2])]
    /\ UNCHANGED <<store, creating, callbacks, crashed>>

\* Callbacks do not survive the process.
Crash == /\ ~crashed /\ crashed' = TRUE
         /\ creating' = {} /\ callbacks' = {} /\ tick' = Idle
         /\ UNCHANGED <<store, calls>>

Next == \/ View \/ Decide \/ Invoke \/ Crash
        \/ \E w \in Workers : Create(w) \/ Register(w) \/ Change(w) \/ TimePasses(w)

\* A process goes on ticking, a call goes on, and time passes; no worker has
\* to come up or end.
Fairness == /\ WF_vars(View \/ Decide \/ Invoke)
            /\ \A w \in Workers : WF_vars(Register(w)) /\ WF_vars(TimePasses(w))

Spec == Init /\ [][Next]_vars /\ Fairness

\* Nothing was asked of this process: no step is possible.
AtRest == /\ stage = [w \in Workers |-> "ended"]
          /\ room = [w \in Workers |-> "none"]
          /\ overdue = [w \in Workers |-> TRUE]
          /\ creating = {} /\ callbacks = {} /\ tick = Idle
          /\ calls = [w \in Workers |-> <<>>] /\ crashed = TRUE

-----------------------------------------------------------------------------
\* Create is answered once, by success or by timeout, although ticks and
\* registrations overlap.
CalledOnce == \A w \in Workers : Len(calls[w]) <= 1

\* Success is told only of a worker whose first room, if it has one, was given
\* to its players.
SuccessWasServed ==
    \A w \in Workers : calls[w] = <<"success">> => room[w] \notin {"waiting", "cancelled"}

\* Timeout is told only of a worker that ended or was late: never because the
\* snapshot is older than the worker.
TimeoutIsDeserved ==
    \A w \in Workers : calls[w] = <<"timeout">> => overdue[w] \/ stage[w] = "ended"

\* Every Create is answered unless the process dies: a worker whose room was
\* cancelled, or that never comes up, in time.
CreateIsAnswered ==
    \A w \in Workers : w \in creating ~> (calls[w] # <<>> \/ crashed)

=============================================================================
