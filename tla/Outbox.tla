------------------------------- MODULE Outbox -------------------------------
(***************************************************************************)
(* Commands to an agent over heartbeats that are lost, repeated and        *)
(* delayed.  One worker with one room: the controller's outbox, the agent's *)
(* ledger of outcomes, and the exchange between them.                      *)
(*                                                                         *)
(* The agent keeps one request in the air and repeats it until it is       *)
(* answered, so its sequence number is either the next one (applied is     *)
(* FALSE) or the last one the controller saw.  Of the requests answered    *)
(* before, any one may turn up again; so may an answer.                    *)
(*                                                                         *)
(* The agent is not in this repository: it is modelled from what the       *)
(* protocol asks of it and the handler relies on.                          *)
(***************************************************************************)
EXTENDS Integers, FiniteSets

CONSTANT MaxFailures  \* bound of the model: cancel and drain commands that fail

ASSUME FailuresAssumption == MaxFailures \in Nat

\* a command's type and how often it failed before: every attempt has an identity
Prepare == <<"prepare_room", 0>>
Ids == {Prepare} \cup {"cancel_room", "drain"} \X (0 .. MaxFailures)
Ended == {"cancelled", "completed"}
Open == {"open", "playing"}

VARIABLES
    store,     \* the allocation's phase, what became of each command, draining,
               \* drainAck, and the last room report the store took in
    room,      \* the host's room: none, open, playing or closed
    fenced,    \* the host has recorded that the room is cancelled
    inbox,     \* commands the agent has received and not executed
    outcome,   \* the agent's ledger
    unreported,
    body, applied,  \* the request in the air
    earlier,   \* an old request; the commands it reported on are done
    answer,    \* the response to the request in the air, on its way
    stray,     \* a command of an older response that may still turn up
    failures
agent == <<room, fenced, inbox, outcome, failures>>
vars == <<store, agent, unreported, body, applied, earlier, answer, stray>>

NoBody == [report |-> "none", results |-> {}, sent |-> FALSE]
NoAnswer == [commands |-> {}, sent |-> FALSE]

Init ==
    /\ store = [phase |-> "preparing", draining |-> FALSE, drainAck |-> FALSE, observed |-> "none",
                commands |-> [i \in Ids |-> IF i = Prepare THEN "pending" ELSE "none"]]
    /\ room = "none" /\ fenced = FALSE /\ inbox = {} /\ unreported = {}
    /\ outcome = [i \in Ids |-> "none"]
    /\ body = NoBody /\ applied = FALSE /\ earlier = NoBody /\ answer = NoAnswer /\ stray = {}
    /\ failures = 0

-----------------------------------------------------------------------------
(* The controller.                                                         *)

Issue(s, i, state) == [s EXCEPT !.commands[i] = state]
Withdraw(s, i) == [s EXCEPT !.commands[i] = "done"]
Live(s, type) == {i \in Ids : i[1] = type /\ s.commands[i] \in {"pending", "waiting"}}

\* Mutant of Cancel: the room counts as gone before the host has cleaned up.
CancelAtOnce(s) ==
    IF s.phase \in Ended \cup {"cancelling"} THEN s
    ELSE [Withdraw(s, Prepare) EXCEPT !.phase = "cancelled"]

Cancel(s) ==
    IF s.phase \in Ended \cup {"cancelling"} THEN s
    ELSE Issue([Withdraw(s, Prepare) EXCEPT !.phase = "cancelling"], <<"cancel_room", 0>>, "pending")

\* Mutant of Result: a failed command is not issued again.
ResultGivesUp(s, i, late, eligible) ==
    LET done == Withdraw(s, i)
    IN  IF outcome[i] = "failed" THEN done
        ELSE IF i[1] = "drain" THEN [done EXCEPT !.drainAck = TRUE]
        ELSE IF i[1] = "cancel_room" /\ s.phase = "cancelling" THEN [done EXCEPT !.phase = "cancelled"]
        ELSE done

\* late: the preparation was acknowledged after its deadline
Result(s, i, late, eligible) ==
    LET done == Withdraw(s, i)
    IN  CASE i = Prepare /\ s.phase # "preparing" -> done
          [] i = Prepare /\ s.phase = "preparing" ->
                IF outcome[i] = "failed" \/ late \/ s.draining THEN Cancel(done)
                ELSE [done EXCEPT !.phase = IF eligible THEN "assigned" ELSE "prepared"]
          [] i # Prepare /\ outcome[i] = "failed" -> Issue(done, <<i[1], i[2] + 1>>, "waiting")
          [] i # Prepare /\ outcome[i] # "failed" ->
                IF i[1] = "drain" THEN [done EXCEPT !.drainAck = TRUE]
                ELSE [done EXCEPT !.phase = IF @ = "cancelling" THEN "cancelled" ELSE @]

\* Mutant of News: a result that is reported again is taken for a new one.
NewsRepeats(s, type, results) == {i \in results : i[1] = type}
\* The results a command of this type is still waiting for: one at most.
News(s, type, results) == Live(s, type) \cap results

\* The results of one type: of each type one command is not done, and what one
\* of them does leaves the other two alone or issues a command nobody has seen.
Take(s, type, results, late, eligible) ==
    LET news == News(s, type, results)
    IN  IF news = {} THEN s ELSE Result(s, CHOOSE i \in news : TRUE, late, eligible)

Acknowledge(s, results, late, eligible) ==
    LET Taken(t, type) == Take(t, type, results, late, eligible)
    IN  Taken(Taken(Taken(s, "prepare_room"), "cancel_room"), "drain")

Report(s, report) ==
    LET held == s.phase \in {"assigned", "active"}
    IN  [s EXCEPT !.observed = report,
                  !.phase = IF held /\ report = "closed" THEN "completed"
                            ELSE IF held /\ report = "playing" THEN "active" ELSE @]

\* Mutant of Fresh: the sequence number is not looked at.
FreshAlways(b) == TRUE
\* input.Sequence > worker.LastSequence
Fresh(b) == b = "body" /\ ~applied

Strays(commands) == {stray} \cup {{i} : i \in commands}

\* One heartbeat request reaches the handler: the request in the air or an old one.
Deliver(b) ==
    LET request == IF b = "body" THEN body ELSE earlier IN
    /\ request.sent
    /\ \E late, eligible \in BOOLEAN :
        store' = IF Fresh(b)
                 THEN Report(Acknowledge(store, request.results, late, eligible), request.report)
                 ELSE store
    /\ applied' = (applied \/ b = "body")
    /\ LET pending == {i \in Ids : store'.commands[i] = "pending"} IN
        IF b = "body"
        THEN answer' = [commands |-> pending, sent |-> TRUE] /\ stray' \in Strays(answer.commands)
        ELSE stray' \in Strays(pending) /\ UNCHANGED answer
    /\ UNCHANGED <<agent, unreported, body, earlier>>

\* the other transactions that touch this room and this worker
Change(s) == store' = s /\ UNCHANGED <<agent, unreported, body, applied, earlier, answer, stray>>
Assign == store.phase = "prepared" /\ ~store.draining /\ Change([store EXCEPT !.phase = "assigned"])
GiveUp == store.phase \in {"preparing", "prepared", "assigned", "active"} /\ Change(Cancel(store))
BeginDrain ==
    ~store.draining /\ Change(Issue([store EXCEPT !.draining = TRUE], <<"drain", 0>>, "pending"))

\* the backoff of a command that was issued again is over
Due(i) == store.commands[i] = "waiting" /\ Change(Issue(store, i, "pending"))

-----------------------------------------------------------------------------
(* The agent and its host.                                                 *)

Send ==
    /\ ~body.sent
    /\ body' = [report |-> room, results |-> unreported, sent |-> TRUE]
    /\ applied' = FALSE
    /\ UNCHANGED <<store, agent, unreported, earlier, answer, stray>>

\* A command that was executed before has its outcome repeated.
Learn(commands, released) ==
    /\ inbox' = inbox \cup {i \in commands : outcome[i] = "none"}
    /\ unreported' = (unreported \ released) \cup {i \in commands : outcome[i] # "none"}

\* Only the answer to the request in the air releases it and its results.
Receive ==
    /\ answer.sent
    /\ Learn(answer.commands, body.results)
    /\ body' = NoBody /\ earlier' \in {earlier, [body EXCEPT !.results = {}]}
    /\ answer' = NoAnswer /\ stray' \in Strays(answer.commands)
    /\ UNCHANGED <<store, room, fenced, outcome, applied, failures>>

ReceiveStray ==
    /\ stray # {}
    /\ Learn(stray, {})
    /\ UNCHANGED <<store, room, fenced, outcome, failures, body, applied, earlier, answer, stray>>

Execute(i, ok) ==
    /\ i \in inbox
    /\ i = Prepare /\ fenced => ~ok
    /\ i # Prepare /\ ~ok => failures < MaxFailures
    /\ failures' = IF ok \/ i = Prepare THEN failures ELSE failures + 1
    /\ room' = CASE ok /\ i = Prepare -> "open"
                 [] ok /\ i[1] = "cancel_room" /\ room \in Open -> "closed"
                 [] OTHER -> room
    /\ fenced' = (fenced \/ (ok /\ i[1] = "cancel_room"))
    /\ outcome' = [outcome EXCEPT ![i] = IF ok THEN "ok" ELSE "failed"]
    /\ inbox' = inbox \ {i} /\ unreported' = unreported \cup {i}
    /\ UNCHANGED <<store, body, applied, earlier, answer, stray>>

\* Players come with tickets, issued once the room is assigned, and leave.
Play ==
    /\ \/ room = "open" /\ store.phase \notin {"preparing", "prepared"} /\ room' = "playing"
       \/ room = "playing" /\ room' \in {"open", "closed"}
    /\ UNCHANGED <<store, fenced, inbox, outcome, failures, unreported, body, applied, earlier, answer, stray>>

Next == \/ \E b \in {"body", "earlier"} : Deliver(b)
        \/ Assign \/ GiveUp \/ BeginDrain
        \/ Send \/ Receive \/ ReceiveStray \/ Play
        \/ \E i \in Ids : Due(i) \/ \E ok \in BOOLEAN : Execute(i, ok)

\* The agent repeats its request until it is answered and executes what it
\* receives, the clock passes the backoff, and the network lets through what is
\* tried again and again.
Fairness ==
    /\ WF_vars(Send) /\ WF_vars(Deliver("body"))
    /\ WF_vars(Receive)
    /\ \A i \in Ids : WF_vars(Due(i)) /\ WF_vars(\E ok \in BOOLEAN : Execute(i, ok))

Spec == Init /\ [][Next]_vars /\ Fairness

-----------------------------------------------------------------------------
\* A room the controller has closed the books on is not open on its host and
\* never opens there again, whatever old command is still on its way.
NoGhostRoom == store.phase \in Ended => room \notin Open

\* A room that is being cancelled has exactly one cleanup outstanding, whatever
\* is delivered again; a room that is not has none.
OneCleanup == Cardinality(Live(store, "cancel_room")) =
                IF store.phase = "cancelling" THEN 1 ELSE 0

\* The controller's picture of the host is the newest one it was sent: an old
\* request that turns up again does not bring back what it said.
NewestReportCounts == applied /\ body.sent => store.observed = body.report

\* Capacity comes back: a cancellation ends although commands fail and messages
\* are lost.
CleanupEnds == store.phase = "cancelling" ~> store.phase \in Ended

\* A drain is acknowledged in the end, so the worker can be stopped.
DrainIsAcknowledged == store.draining ~> store.drainAck

=============================================================================
