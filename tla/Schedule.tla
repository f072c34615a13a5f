------------------------------ MODULE Schedule ------------------------------
(***************************************************************************)
(* Which worker a tick's one provider operation is for.  Of the workers    *)
(* that are due the one with the oldest NextCheckAt is taken; the          *)
(* operation moves its NextCheckAt, except when the stop is refused or a   *)
(* transaction fails.  Times are relative to now: due[w] is NextCheckAt    *)
(* less the clock; of times in the past only the order is kept.            *)
(***************************************************************************)
EXTENDS Integers, FiniteSets

CONSTANTS Workers,             \* workers; an identity serves again once it is gone
          Poll,                \* ProviderPollSeconds
          MaxRefusals          \* bound of the model

VARIABLES
    state,     \* of each worker; "polled" stands for launching to draining
    due,
    served,    \* the worker of the last operation
    refusals   \* operations that left NextCheckAt as it was
scheduleVars == <<state, due, served, refusals>>

Init == /\ state = [w \in Workers |-> "gone"] /\ due = [w \in Workers |-> 0]
        /\ served = {} /\ refusals = 0

Become(w, s, d) == state' = [state EXCEPT ![w] = s] /\ due' = [due EXCEPT ![w] = d]

Request(w) == /\ state[w] = "gone" /\ Become(w, "requested", 0)
              /\ served' = served \ {w} /\ UNCHANGED refusals

\* A drained worker's stop is due now.
Stopping(w) == /\ state[w] = "polled" /\ Become(w, "stopping", 0)
               /\ UNCHANGED <<served, refusals>>

\* A lost worker without a provider id is left to an operator.
Lose(w) == /\ \/ state[w] \in {"polled", "stopping"} /\ Become(w, "lost", due[w])
              \/ state[w] = "unknown" /\ Become(w, "gone", 0)
           /\ UNCHANGED <<served, refusals>>

\* A time in the past becomes its rank among the other workers' times.
Second ==
    LET later == [w \in {v \in Workers : state[v] # "gone"} |-> due[w] - 1]
        Rank(w) == Cardinality({later[v] : v \in {u \in DOMAIN later : later[u] \in later[w] .. -1}})
    IN /\ due' = [w \in Workers |-> IF w \notin DOMAIN later THEN 0
                                 ELSE IF later[w] < 0 THEN -Rank(w) ELSE later[w]]
       /\ UNCHANGED <<state, served, refusals>>

Due == {w \in Workers : state[w] = "requested" \/ (state[w] # "gone" /\ due[w] <= 0)}

\* Mutant of Oldest: any worker that is due, as the range over the map yields them.
OldestUnsorted == Due

\* The sort; equally old workers are taken in the order of their random ids.
Oldest == {w \in Due : \A v \in Due : due[w] <= due[v]}

\* What start, reconcileUnknown, poll and stop make of the worker; a start that
\* is interrupted leaves NextCheckAt as it was.
Outcomes(w) ==
    CASE state[w] = "requested" -> {<<"polled", 0>>, <<"unknown", 1>>, <<"gone", 0>>, <<"unknown", due[w]>>}
      [] state[w] = "unknown" -> {<<"polled", 0>>, <<"unknown", Poll>>}
      [] state[w] = "polled" -> {<<"polled", Poll>>, <<"stopping", 0>>, <<"gone", 0>>}
      [] state[w] \in {"stopping", "lost"} -> {<<state[w], Poll>>, <<"gone", 0>>}

Operate(w) == /\ w \in Oldest
              /\ \E o \in Outcomes(w) : Become(w, o[1], o[2])
              /\ served' = {w} /\ UNCHANGED refusals

\* A stop is refused with ErrBusy, or the transaction of the operation fails.
Refuse(w) == /\ w \in Oldest /\ refusals < MaxRefusals
             /\ refusals' = refusals + 1 /\ served' = {w}
             /\ UNCHANGED <<state, due>>

Next == \/ Second
        \/ \E w \in Workers : Request(w) \/ Stopping(w) \/ Lose(w) \/ Operate(w) \/ Refuse(w)

\* The controller ticks and the clock runs.
Fairness == WF_scheduleVars(\E w \in Workers : Operate(w)) /\ WF_scheduleVars(Second)

ScheduleSpec == Init /\ [][Next]_scheduleVars /\ Fairness

-----------------------------------------------------------------------------
\* As long as stops are not refused for ever, every worker that is due is looked
\* at, whatever the others' calls come to and however many are requested.
NobodyIsLeftAside == \A w \in Workers : w \in Due ~> (w \in served \/ state[w] = "gone")

=============================================================================
