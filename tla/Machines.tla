------------------------------ MODULE Machines ------------------------------
(***************************************************************************)
(* The PlayFlow mock server, the API client that calls it and the provider *)
(* operations of a tick: start, reconcileUnknown, poll and stop.  A request *)
(* can be lost, reach the server after the client gave up on it, or be     *)
(* answered in vain; the server can be told to create a machine and answer *)
(* 503, to refuse stops and to limit the rate; other deployments start and *)
(* stop machines while List pages through them.  The agent of a machine    *)
(* calls in, drains and falls silent, and the tick counts a silent worker  *)
(* as lost.  One controller has the lease (see Lease).                     *)
(***************************************************************************)
EXTENDS Integers, FiniteSets, Sequences

CONSTANTS Workers, Other,    \* Other: the deployment the rest belongs to
          Talking,           \* bound of the model: workers whose agents call in
          PageSize, MaxPages, MaxMachines,
          MaxFaults, MaxSettings, MaxLosses  \* bounds of the model

ASSUME PagesAssumption ==
    /\ {PageSize, MaxPages, MaxMachines, MaxFaults} \subseteq Nat
    /\ MaxMachines <= PageSize * MaxPages /\ Other \notin Workers

VARIABLES
    machines,  \* the mock's instances in the order of their ids
    faults,    \* the faults left to inject
    order,     \* the provider's order of a list: the mock's, or newest first
    worker,    \* state.Worker: State, ProviderID and whether Error asks for review;
               \* "launching" stands for all phases in which the machine serves or may
    agent,     \* state.Worker: the age of LastHeartbeat, and how far the drain has come
    call,      \* the provider call under way
    late,      \* workers whose POST is still on its way after the client gave up
    settings, losses
vars == <<machines, faults, order, worker, agent, call, late, settings, losses>>

Up(i) == machines[i].status # "stopped"
Ids == 1 .. Len(machines)
NoFaults == [ambiguous |-> 0, limited |-> 0, refused |-> 0]
Faults == [ambiguous : 0 .. MaxFaults, limited : 0 .. MaxFaults, refused : 0 .. MaxFaults]

NoCall == [op |-> "none"]
\* step: "asked", "answered", or "listed" when List has returned; found: the
\* records of a list, each with the offset of the page it came from
Call(op, w) == [op |-> op, worker |-> w, step |-> "asked", reply |-> <<>>, offset |-> 0,
                found |-> {}, was |-> {}, gone |-> {}]

Init == /\ machines = <<>> /\ faults = NoFaults
        /\ order \in {"oldest first", "newest first"}
        /\ worker = [w \in Workers |-> [phase |-> "requested", id |-> 0, review |-> FALSE]]
        /\ agent = [w \in Workers |-> [heard |-> "never", drain |-> "no"]]
        /\ call = NoCall /\ late = {} /\ settings = 0 /\ losses = 0

-----------------------------------------------------------------------------
(* The server: what a request does, and its answer.                        *)

Answer(status) == [status |-> status, id |-> 0, is |-> "none", servers |-> {}, more |-> FALSE]
Effect(ms, fs, reply) == [machines |-> ms, faults |-> fs, reply |-> reply]

\* The machine exists even if the answer says that something went wrong.
Start(w) ==
    IF Len(machines) = MaxMachines THEN Effect(machines, faults, Answer(429))
    ELSE LET ms == Append(machines, [owner |-> w, status |-> "launching"])
         IN IF faults.ambiguous > 0
            THEN Effect(ms, [faults EXCEPT !.ambiguous = @ - 1], Answer(503))
            ELSE Effect(ms, faults, [Answer(201) EXCEPT !.id = Len(ms)])

\* Mutant of Listed: machines that are still launching are left out.
ListedRunning == {i \in Ids : machines[i].status = "running"}
Listed == {i \in Ids : Up(i)}

Before(i) == {j \in Listed : IF order = "oldest first" THEN j < i ELSE j > i}

Page(offset) ==
    Effect(machines, faults, [Answer(200) EXCEPT
        !.servers = {i \in Listed : /\ offset <= Cardinality(Before(i))
                                    /\ Cardinality(Before(i)) < offset + PageSize},
        !.more = offset + PageSize < Cardinality(Listed)])

Stop(id) ==
    IF faults.refused > 0
    THEN Effect(machines, [faults EXCEPT !.refused = @ - 1], Answer(503))
    ELSE Effect([machines EXCEPT ![id].status = "stopped"], faults, Answer(200))

\* Mutant of Limit: the budget is never used up.
LimitForever == Effect(machines, faults, Answer(429))
Limit == Effect(machines, [faults EXCEPT !.limited = @ - 1], Answer(429))

ServeHTTP(op, w, offset) ==
    CASE faults.limited > 0 -> Limit
      [] OTHER -> CASE op = "start" -> Start(w)
                    [] op = "list" -> Page(offset)
                    [] op \in {"get", "confirm"} ->
                        Effect(machines, faults,
                               [Answer(200) EXCEPT !.is = machines[worker[w].id].status])
                    [] op = "delete" -> Stop(worker[w].id)

Serve == /\ call.op # "none" /\ call.step = "asked"
         /\ LET done == ServeHTTP(call.op, call.worker, call.offset)
            IN /\ machines' = done.machines /\ faults' = done.faults
               /\ call' = [call EXCEPT !.step = "answered", !.reply = done.reply]
         /\ UNCHANGED <<order, worker, agent, late, settings, losses>>

\* A POST the client no longer waits for is acted on, or lost.
ServeLate(w) ==
    /\ w \in late /\ late' = late \ {w}
    /\ \/ LET done == ServeHTTP("start", w, 0)
          IN machines' = done.machines /\ faults' = done.faults
       \/ UNCHANGED <<machines, faults>>
    /\ UNCHANGED <<order, worker, agent, call, settings, losses>>

\* advance: time brings a machine up, or ends it.
Advance(i) ==
    /\ i \in Ids /\ Up(i)
    /\ \E s \in {"running", "stopped"} \ {machines[i].status} :
        machines' = [machines EXCEPT ![i].status = s]
    /\ UNCHANGED <<faults, order, worker, agent, call, late, settings, losses>>

Control == /\ settings < MaxSettings /\ settings' = settings + 1
           /\ faults' \in Faults
           /\ UNCHANGED <<machines, order, worker, agent, call, late, losses>>

\* Another deployment starts a machine.
OtherStart == /\ Len(machines) < MaxMachines
              /\ machines' = Append(machines, [owner |-> Other, status |-> "launching"])
              /\ UNCHANGED <<faults, order, worker, agent, call, late, settings, losses>>

-----------------------------------------------------------------------------
(* The client and the operations of a tick that call it.                   *)

Ask(c) == /\ call = NoCall /\ call' = c
          /\ UNCHANGED <<machines, faults, order, agent, late, settings, losses>>

\* The worker is marked before its POST is sent.
StartBegin(w) ==
    /\ worker[w].phase = "requested"
    /\ worker' = [worker EXCEPT ![w].phase = "starting"]
    /\ Ask(Call("start", w))

ListBegin(w) ==
    /\ worker[w].phase = "unknown"
    /\ Ask([Call("list", w) EXCEPT !.was = {i \in Ids : Up(i)}, !.gone = {i \in Ids : ~Up(i)}])
    /\ UNCHANGED worker

\* A lost worker is polled if it has a ProviderID.
GetBegin(w) ==
    /\ worker[w].phase = "launching" \/ (worker[w].phase = "lost" /\ worker[w].id # 0)
    /\ Ask(Call("get", w)) /\ UNCHANGED worker

\* A drain is over when it is acknowledged, no rooms and players are left and no
\* work is pending, by a recent heartbeat.
Drained(w) == agent[w] = [heard |-> "fresh", drain |-> "done"]

\* The recheck before the DELETE: what is drained may have got work again, or
\* gone silent, since it was decided to stop it.
Stoppable(w) == agent[w].drain = "no" \/ Drained(w)
StopBegin(w) ==
    /\ worker[w].phase = "stopping" /\ Stoppable(w)
    /\ Ask(Call("delete", w)) /\ UNCHANGED worker

\* Mutant of Aged: a worker that is being stopped is not counted as lost.
AgedButStopping(w) ==
    LET r == worker[w]
    IN  CASE agent[w].heard = "silent" /\ r.phase \notin {"stopping", "stopped", "failed"} ->
                [r EXCEPT !.phase = "lost", !.review = FALSE]
          [] agent[w].heard # "silent" /\ r.phase = "starting" -> [r EXCEPT !.phase = "unknown"]
          [] r.phase = "launching" /\ Drained(w) -> [r EXCEPT !.phase = "stopping"]
          [] OTHER -> r

\* One worker in the tick's transaction: silence beyond LostTimeout comes before
\* all else; a POST that was interrupted is open; what is drained is stopped.
Aged(w) ==
    LET r == worker[w]
    IN  CASE agent[w].heard = "silent" /\ r.phase \notin {"stopped", "failed"} ->
                [r EXCEPT !.phase = "lost", !.review = FALSE]
          [] agent[w].heard # "silent" /\ r.phase = "starting" -> [r EXCEPT !.phase = "unknown"]
          [] r.phase = "launching" /\ Drained(w) -> [r EXCEPT !.phase = "stopping"]
          [] OTHER -> r

\* The tick's transaction.  A worker is still starting only if its process died;
\* the lease of that process outlasts the 15 seconds a create may take.
Tick == /\ call = NoCall
        /\ worker' = [w \in Workers |-> Aged(w)]
        /\ UNCHANGED <<machines, faults, order, agent, call, late, settings, losses>>

\* Mutant of OutcomeUnknown: only a missing answer leaves a POST open.
UnknownIfSilent(op, status) == op = "start" /\ status = 0
\* Whether a create may have taken effect; status 0 stands for no answer and
\* for one whose body cannot be read.
OutcomeUnknown(op, status) ==
    op = "start" /\ (status = 0 \/ status = 408 \/ status >= 500)

Move(w, phase, id) == worker' = [worker EXCEPT ![w] = [phase |-> phase, id |-> id, review |-> FALSE]]

\* The provider may give the machine too short a life: it is stopped at once.
StartEnd(reply) ==
    /\ call.op = "start" /\ call' = NoCall
    /\ \/ /\ reply.status = 201
          /\ \E phase \in {"launching", "stopping"} : Move(call.worker, phase, reply.id)
       \/ OutcomeUnknown("start", reply.status) /\ Move(call.worker, "unknown", 0)
       \/ /\ reply.status # 201 /\ ~OutcomeUnknown("start", reply.status)
          /\ Move(call.worker, "failed", 0)

\* Mutant of Merge: repeated records are kept.
MergeAll(found, servers, offset) == found \cup (servers \X {offset})
Seen(found) == {record[1] : record \in found}
Merge(found, servers, offset) == found \cup ((servers \ Seen(found)) \X {offset})

\* Mutant of ListNext: a page without a new record is taken for the last.
ListNextStopsEarly(reply) ==
    /\ call.op = "list" /\ UNCHANGED worker
    /\ LET found == Merge(call.found, reply.servers, call.offset)
       IN call' = IF reply.status # 200 THEN NoCall
                  ELSE IF reply.more /\ found # call.found
                  THEN [call EXCEPT !.step = "asked", !.reply = <<>>,
                                    !.offset = @ + PageSize, !.found = found]
                  ELSE [call EXCEPT !.step = "listed", !.reply = <<>>, !.found = found]

\* The next page, or the whole answer; an error gives up what was found.
ListNext(reply) ==
    /\ call.op = "list" /\ UNCHANGED worker
    /\ LET found == Merge(call.found, reply.servers, call.offset)
       IN call' = IF reply.status # 200 THEN NoCall
                  ELSE IF ~reply.more
                  THEN [call EXCEPT !.step = "listed", !.reply = <<>>, !.found = found]
                  ELSE IF call.offset + PageSize < PageSize * MaxPages
                  THEN [call EXCEPT !.step = "asked", !.reply = <<>>,
                                    !.offset = @ + PageSize, !.found = found]
                  ELSE NoCall

\* Mutant of Reconcile: a worker no machine is found for asks for one again.
ReconcileRetries ==
    LET w == call.worker
        matches == {record \in call.found : machines[record[1]].owner = w}
    IN \/ \E record \in matches : matches = {record} /\ Move(w, "launching", record[1])
       \/ Cardinality(matches) > 1 /\ worker' = [worker EXCEPT ![w].review = TRUE]
       \/ matches = {} /\ Move(w, "requested", 0)

\* Absence from the list is not proof that the POST failed.
Reconcile ==
    LET w == call.worker
        matches == {record \in call.found : machines[record[1]].owner = w}
    IN \/ \E record \in matches : matches = {record} /\ Move(w, "launching", record[1])
       \/ /\ Cardinality(matches) # 1
          /\ worker' = [worker EXCEPT ![w].review = matches # {}]

ReconcileEnd == /\ call.op = "list" /\ call.step = "listed"
                /\ Reconcile /\ call' = NoCall
                /\ UNCHANGED <<machines, faults, order, agent, late, settings, losses>>

\* A machine that is not drained is stopped if it takes too long to launch, or if
\* its life turns out too short, which is looked at before its status.
GetEnd(reply) ==
    /\ call.op = "get" /\ call' = NoCall
    /\ LET w == call.worker
           gone == reply.status = 404 \/ reply.is = "stopped"
       IN \/ gone /\ Move(w, "stopped", worker[w].id)
          \/ /\ reply.status = 200 /\ worker[w].phase = "launching" /\ agent[w].drain = "no"
             /\ Move(w, "stopping", worker[w].id)
          \/ ~gone /\ UNCHANGED worker

\* A DELETE that was accepted is confirmed by a read.
StopNext(reply) ==
    /\ call.op = "delete" /\ UNCHANGED worker
    /\ call' = IF reply.status \in {200, 404} THEN Call("confirm", call.worker) ELSE NoCall

StopEnd(reply) ==
    /\ call.op = "confirm" /\ call' = NoCall
    /\ IF reply.status = 404 \/ reply.is = "stopped"
       THEN Move(call.worker, "stopped", worker[call.worker].id) ELSE UNCHANGED worker

Receive(reply) == StartEnd(reply) \/ ListNext(reply) \/ GetEnd(reply)
                    \/ StopNext(reply) \/ StopEnd(reply)

Return == /\ call # NoCall /\ call.step = "answered" /\ Receive(call.reply)
          /\ UNCHANGED <<machines, faults, order, agent, late, settings, losses>>

\* The call ends without an answer, its request on the way or already acted on.
Outlive == late' = IF call.op = "start" /\ call.step = "asked" THEN late \cup {call.worker} ELSE late
Timeout == /\ call # NoCall /\ call.step # "listed" /\ losses < MaxLosses
           /\ losses' = losses + 1
           /\ Outlive /\ Receive(Answer(0))
           /\ UNCHANGED <<machines, faults, order, agent, settings>>

\* The process dies with the call.
Crash == /\ call # NoCall /\ losses < MaxLosses
         /\ losses' = losses + 1
         /\ Outlive /\ call' = NoCall
         /\ UNCHANGED <<machines, faults, order, worker, agent, settings>>

-----------------------------------------------------------------------------
(* The agents.                                                             *)

Running(w) == \E i \in Ids : machines[i].owner = w /\ Up(i)
Report(w, a) == /\ agent' = [agent EXCEPT ![w] = a]
                /\ UNCHANGED <<machines, faults, order, worker, call, late, settings, losses>>

\* A heartbeat of a worker that is not given up.
Hear(w) ==
    /\ w \in Talking /\ Running(w) /\ worker[w].phase \notin {"stopped", "lost", "failed"}
    /\ \E drain \in IF agent[w].drain = "no" THEN {"no"} ELSE {"busy", "done"} :
        Report(w, [heard |-> "fresh", drain |-> drain])

\* HeartbeatTimeout passes without a heartbeat, then LostTimeout.
Quiet(w) ==
    \/ agent[w].heard = "fresh" /\ Report(w, [agent[w] EXCEPT !.heard = "stale"])
    \/ agent[w].heard = "stale" /\ Report(w, [agent[w] EXCEPT !.heard = "silent"])

\* An operator, the scale-in or the end of the machine's life begins a drain.
Drain(w) == /\ worker[w].phase = "launching" /\ agent[w].heard # "never" /\ agent[w].drain = "no"
            /\ Report(w, [agent[w] EXCEPT !.drain = "busy"])

-----------------------------------------------------------------------------
Begin(w) == StartBegin(w) \/ ListBegin(w) \/ GetBegin(w) \/ StopBegin(w)
Next == \/ Serve \/ Return \/ ReconcileEnd \/ Timeout \/ Crash \/ Control \/ OtherStart \/ Tick
        \/ \E i \in Ids : Advance(i)
        \/ \E w \in Workers : Begin(w) \/ ServeLate(w) \/ Hear(w) \/ Quiet(w) \/ Drain(w)

\* A call returns (every request has a deadline); a tick begins with its
\* transaction and takes the oldest due worker, so that none is left aside for
\* ever; and time passes for a worker that nobody can hear any more.
Fairness ==
    /\ WF_vars(Serve) /\ WF_vars(Return) /\ WF_vars(ReconcileEnd)
    /\ \A w \in Workers :
        /\ SF_vars(Begin(w))
        /\ SF_vars((worker[w].phase = "starting" \/ ~Running(w)) /\ Tick)
        /\ WF_vars(~Running(w) /\ Quiet(w))

Spec == Init /\ [][Next]_vars /\ Fairness

-----------------------------------------------------------------------------
\* A worker that is given up (a create that was refused, a stop that was
\* confirmed) has no machine that runs, and none can still appear.
NoOrphans ==
    \A w \in Workers : worker[w].phase \in {"failed", "stopped"} =>
        /\ w \notin late
        /\ \A i \in Ids : machines[i].owner = w => ~Up(i)

\* However often calls are lost, late or answered with an error, a worker
\* never has a second machine.
OneMachine ==
    \A i, j \in Ids : machines[i].owner = machines[j].owner /\ machines[i].owner \in Workers => i = j

\* A list that comes to an end misses no machine that was up all the time,
\* unless another one was stopped meanwhile and moved the rest to an earlier page.
ListIsComplete ==
    call # NoCall /\ call.step = "listed" /\ {i \in Ids : ~Up(i)} = call.gone
        => call.was \subseteq Seen(call.found)

\* A list never shows one machine as two, which would hand the worker to an
\* operator.
NoFalseAlarm == \A w \in Workers : ~worker[w].review

\* A machine whose create was not answered is found while it is up, one that is
\* launching included, and its id recorded.  This is so only while its agent is
\* never silent for long: a worker that is lost before it is found is not looked
\* for again.
EventuallyFound ==
    \A w \in Workers :
        [](Running(w) => agent[w].heard # "silent")
            => (worker[w].phase = "unknown" /\ Running(w))
                    ~> (worker[w].id # 0 /\ machines[worker[w].id].owner = w) \/ ~Running(w)

\* A machine that is to be stopped is stopped and its worker closed, if the machine
\* does not go silent first and what it has left to do comes to an end.
EventuallyStopped ==
    \A w \in Workers :
        [](Running(w) => agent[w].heard # "silent") /\ <>[](Running(w) => Stoppable(w))
            => worker[w].phase = "stopping" ~> worker[w].phase = "stopped"

\* A worker whose machine has stopped is closed, and no longer counted: also one
\* whose stop the recheck refuses for want of heartbeats, and one that is lost.
EventuallyReleased ==
    \A w \in Workers :
        (worker[w].id # 0 /\ ~Running(w)) ~> worker[w].phase = "stopped"

=============================================================================
