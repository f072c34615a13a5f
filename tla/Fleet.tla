------------------------------- MODULE Fleet --------------------------------
(***************************************************************************)
(* The fleet controller: client calls, agent requests and the tick of each *)
(* controller process, interleaved over one transactional store, with the  *)
(* provider's machines on the other side of its API.                       *)
(*                                                                         *)
(* A transaction (Store.Update) is one atomic action.  Everything between  *)
(* two transactions of a tick, and every provider call, is a step of its   *)
(* own, so any other action can come in between.  tickMu lets a process    *)
(* run one tick at a time: a tick begins only when ctl[c].pc = "idle".     *)
(*                                                                         *)
(* The lease is kept as the name of its holder: it may lapse at any moment *)
(* (another process then takes it, or the holder is refused), so nothing   *)
(* proved here depends on how the clocks of the processes compare.         *)
(***************************************************************************)
EXTENDS FleetState

CONSTANTS
    Pairs,       \* pairs of players who ask for a room
    Capacities,  \* rooms per worker that Create may ask for
    Readings,    \* metrics that agents report
    Terms,       \* TRUE: the provider may limit the lifetime of a machine
    Retention,   \* whether a day can pass, so that old records are pruned
    Posted,      \* player counts (some or none) that callers of Update post
    Faults       \* what can go wrong, see FaultKinds

\* crash: a tick ends anywhere; halt: a machine stops by itself; provider: a
\* query fails, or its answer lacks the endpoint or is about another's machine
FaultKinds == {"crash", "halt", "provider"}

ASSUME InputsAssumption ==
    /\ Pairs \subseteq SUBSET Users
    /\ Capacities \subseteq 1 .. MaxRooms
    /\ Readings \subseteq Metrics
    /\ Terms \subseteq BOOLEAN
    /\ Retention \in BOOLEAN
    /\ Posted \subseteq BOOLEAN
    /\ Faults \subseteq FaultKinds

VARIABLES
    store,  \* the fleet_state row
    cloud,  \* the machine of each worker at the provider
    ctl     \* where each controller process is in its tick

vars == <<store, cloud, ctl>>

\* none: no create request is under way and no machine exists
\* inflight: the create request was sent and the provider has not acted on it
Machines == {"none", "inflight", "launching", "running", "stopped"}
Billable == {"inflight", "launching", "running"}

Steps == {"idle", "ticked", "picked", "posting", "awaiting", "posted",
          "listed", "got", "deleting", "deleted", "confirmed"}

Statuses == {"none", "error", "missing", "foreign", "launching", "running", "portless",
             "stopped", "created", "unknown", "rejected", "misconfigured",
             "absent", "found"}

Reply == [status : Statuses, short : BOOLEAN]
NoReply == [status |-> "none", short |-> FALSE]

\* op: the operation that the worker's state in the tick's snapshot calls for
Operations == {"none", "start", "reconcile", "poll", "stop"}
Control == [pc : Steps, worker : Workers \cup {None}, op : Operations, reply : Reply]
Idle == [pc |-> "idle", worker |-> None, op |-> "none", reply |-> NoReply]

Init == /\ store = New
        /\ cloud = [w \in Workers |-> "none"]
        /\ ctl = [c \in Controllers |-> Idle]

Leads(c) == store.leader = c

-----------------------------------------------------------------------------
(* Clients: FleetManager calls, the matched hook and the admin routes.     *)

Commit(s) == store' = s /\ UNCHANGED <<cloud, ctl>>

Allocate(users, key) ==
    /\ CanAllocate(store, users, key)
    /\ \E a \in Allocs : /\ NextSlot(store, a)
                         /\ Commit(AddAllocation(store, a, users, key, None))

CancelByPlayer(a) ==
    /\ Phase(store, a) \in WaitingPhases
    /\ Commit(Cancel(store, {a}, "cancelled"))

CanCreate == LiveCount(store) < MaxInstances /\ ~store.blocked

Create(w, maxRooms) ==
    /\ CanCreate /\ WorkerPhase(store, w) = "absent"
    /\ Commit(AddWorker(store, w, maxRooms))

\* Create with initial players; a busy player rolls the new worker back
CreateWithUsers(w, maxRooms, users) ==
    /\ CanCreate /\ WorkerPhase(store, w) = "absent"
    /\ CanAllocate(store, users, w)
    /\ \E a \in Allocs : /\ NextSlot(store, a)
                         /\ Commit(AddAllocation(AddWorker(store, w, maxRooms), a, users, w, w))

Join(a) ==
    /\ Phase(store, a) = "prepared"
    /\ Eligible(store, store.allocations[a].worker)
    /\ Commit(Reserve(store, {a}))

PostPlayers(w, some) ==
    /\ Exists(store, w)
    /\ Commit([store EXCEPT !.workers[w].players = some])

Delete(w) ==
    /\ Drainable(store, w)
    /\ Rooms(store, w) = {}
    /\ ~store.workers[w].players
    /\ WorkFinished(store.workers[w])
    /\ Commit(BeginDrain(store, {w}))

Drain(w) ==
    /\ Drainable(store, w)
    /\ Commit(BeginDrain(store, {w}))

RetryCreation == Commit([store EXCEPT !.blocked = FALSE])

Client ==
    \/ \E users \in Pairs, key \in Keys : Allocate(users, key)
    \/ \E a \in Allocs : CancelByPlayer(a) \/ Join(a)
    \/ \E w \in Workers, n \in Capacities :
            Create(w, n) \/ \E users \in Pairs : CreateWithUsers(w, n, users)
    \/ \E w \in Workers : Delete(w) \/ Drain(w) \/ \E some \in Posted : PostPlayers(w, some)
    \/ RetryCreation

-----------------------------------------------------------------------------
(* The agent inside a machine.  A request it sent before its machine       *)
(* stopped may still arrive afterwards.                                    *)

Spoke(w) == cloud[w] \in {"launching", "running", "stopped"}

Bootstrap(w) ==
    /\ Spoke(w)
    /\ Exists(store, w) /\ WorkerPhase(store, w) \notin Down
    /\ Commit([store EXCEPT !.workers[w].boot = TRUE])

HeartbeatTx(s, w, ready, metrics, acks, late, nacks, report) ==
    ReportRooms(Acknowledge(Observe(s, w, ready, metrics), w, acks, late, nacks), w, report)

Heartbeat(w) ==
    /\ Spoke(w)
    /\ store.workers[w].boot /\ WorkerPhase(store, w) \notin Down
    /\ \E ready \in BOOLEAN, metrics \in Readings, acks \in SUBSET Pending(store, w),
          report \in Reports(store, w) :
        LET prepares == {k \in Pending(store, w) : k.type = "prepare_room"} IN
        \E late \in SUBSET (acks \cap prepares), nacks \in SUBSET (prepares \ acks) :
            Commit(HeartbeatTx(store, w, ready, metrics, acks, late, nacks, report))

Agent == \E w \in Workers : Bootstrap(w) \/ Heartbeat(w)

-----------------------------------------------------------------------------
(* Time, where more than one transaction looks at the same deadline.       *)

HeartbeatAges(w) ==
    /\ WorkerPhase(store, w) \notin Down \cup {"absent", "pruned"}
    /\ store.workers[w].heartbeat \in {"fresh", "stale"}
    /\ Commit([store EXCEPT !.workers[w].heartbeat =
                    IF @ = "fresh" THEN "stale" ELSE "gone"])

\* the provider's expiry of the machine comes within MinLifetimeForAdmission
LifetimeEnds(w) ==
    /\ WorkerPhase(store, w) \notin Down \cup {"absent", "pruned"}
    /\ store.workers[w].provider /\ ~store.workers[w].ending
    /\ TRUE \in Terms
    /\ Commit([store EXCEPT !.workers[w].ending = TRUE])

Time == \E w \in Workers : HeartbeatAges(w) \/ LifetimeEnds(w)

-----------------------------------------------------------------------------
(* The tick of a controller.                                               *)

At(c, pc) == ctl[c].pc = pc
Goto(c, pc) == ctl' = [ctl EXCEPT ![c].pc = pc]
Return(c) == ctl' = [ctl EXCEPT ![c] = Idle]
Hear(c, pc, status, short) ==
    ctl' = [ctl EXCEPT ![c].pc = pc, ![c].reply = [status |-> status, short |-> short]]

Old(S) == IF Retention THEN SUBSET S ELSE {{}}

\* The lease transaction: take or renew the lease, age the workers, expire and
\* prune, assign prepared rooms, place waiting requests, scale out, scale in.
TickTx(c) ==
    /\ At(c, "idle")
    /\ \E interrupted \in SUBSET Starting(store) :
       LET aged == AgeWorkers(store, interrupted) IN
       \E overdue \in SUBSET Expirable(aged) :
       LET expired == ExpireAllocations(aged, overdue) IN
       \E history \in Old(Finished(expired)) :
       LET pruned == PruneAllocations(expired, history) IN
       \E retired \in Old(Retired(pruned)) :
       LET tidy == AssignPrepared(PruneWorkers(pruned, retired)) IN
       \E f \in Placements(tidy) :
       \E scaled \in ScaleOut(Place(tidy, f)) :
       \E surplus \in DrainChoices(scaled) :
            store' = [ScaleIn(scaled, surplus) EXCEPT !.leader = c]
    /\ Goto(c, "ticked")
    /\ UNCHANGED cloud

\* the states in which the provider is asked about a worker
Polled == {"launching", "bootstrapping", "ready", "suspect", "draining", "lost"}

OperationFor(w) ==
    LET phase == WorkerPhase(store, w) IN
    CASE phase = "requested" -> "start"
      [] phase = "unknown" -> "reconcile"
      [] phase = "stopping" -> "stop"
      [] phase \in Polled /\ store.workers[w].provider -> "poll"
      [] OTHER -> "none"

\* After notify, the snapshot: the worker whose next check is the oldest.
Pick(c) ==
    /\ At(c, "ticked")
    /\ \E w \in Workers :
        /\ OperationFor(w) # "none"
        /\ ctl' = [ctl EXCEPT ![c].pc = "picked", ![c].worker = w, ![c].op = OperationFor(w)]
    /\ UNCHANGED <<store, cloud>>

\* nothing is due; a requested worker always is
PickNone(c) ==
    /\ At(c, "ticked")
    /\ \A w \in Workers : WorkerPhase(store, w) # "requested"
    /\ Return(c)
    /\ UNCHANGED <<store, cloud>>

\* renewLease: another process holds the lease
Refused(c) ==
    /\ At(c, "picked") /\ ~Leads(c)
    /\ Return(c)
    /\ UNCHANGED <<store, cloud>>

\* the context ends, the store or a transaction fails, or the process dies
Crash(c) ==
    /\ "crash" \in Faults /\ ~At(c, "idle")
    /\ Return(c)
    /\ UNCHANGED <<store, cloud>>

\* renewLease succeeds and the operation starts.  Whoever loses the lease between
\* the two makes a read whose answer the next transaction drops, or is refused by
\* that transaction: the store and the machines are those of Refused.
Dispatch(c, op) == At(c, "picked") /\ ctl[c].op = op /\ Leads(c)

-----------------------------------------------------------------------------
(* start: record the intention, POST, record the outcome.                  *)

StartBegin(c) ==
    LET w == ctl[c].worker IN
    /\ Dispatch(c, "start")
    /\ WorkerPhase(store, w) = "requested"
    /\ store' = SetPhase(store, {w}, "starting")
    /\ Goto(c, "posting")
    /\ UNCHANGED cloud

Post(c) ==
    /\ At(c, "posting")
    /\ cloud' = [cloud EXCEPT ![ctl[c].worker] = "inflight"]
    /\ Goto(c, "awaiting")
    /\ UNCHANGED store

\* A timeout, a broken connection or a server error leaves the outcome unknown.
PostUnknown(c) ==
    /\ At(c, "awaiting")
    /\ Hear(c, "posted", "unknown", FALSE)
    /\ UNCHANGED <<store, cloud>>

PostCreated(c) ==
    /\ At(c, "awaiting") /\ Spoke(ctl[c].worker)
    /\ \E short \in Terms : Hear(c, "posted", "created", short)
    /\ UNCHANGED <<store, cloud>>

PostRejected(c) ==
    LET w == ctl[c].worker IN
    /\ At(c, "awaiting") /\ cloud[w] = "inflight"
    /\ cloud' = [cloud EXCEPT ![w] = "none"]
    /\ \E status \in {"rejected", "misconfigured"} : Hear(c, "posted", status, FALSE)
    /\ UNCHANGED store

StartEnd(c) ==
    /\ At(c, "posted")
    /\ store' = IF Leads(c) THEN Created(store, ctl[c].worker, ctl[c].reply) ELSE store
    /\ Return(c)
    /\ UNCHANGED cloud

-----------------------------------------------------------------------------
(* reconcileUnknown: look for the machine in the provider's list.          *)

\* The list is eventually consistent: it may miss a machine that exists.
ListCall(c) ==
    /\ Dispatch(c, "reconcile")
    /\ \E status \in {"error", "absent"} \cup (IF Spoke(ctl[c].worker) THEN {"found"} ELSE {}) :
            Hear(c, "listed", status, FALSE)
    /\ UNCHANGED <<store, cloud>>

\* Mutant of ReconcileEnd: absence from the list is taken for proof that the
\* create request failed.
ReconcileRetries(c) ==
    LET w == ctl[c].worker IN
    /\ At(c, "listed")
    /\ store' = IF ~Leads(c) \/ WorkerPhase(store, w) # "unknown" THEN store
                ELSE IF ctl[c].reply.status = "found" THEN Adopt(store, w)
                ELSE IF ctl[c].reply.status = "absent" THEN SetPhase(store, {w}, "requested")
                ELSE store
    /\ Return(c)
    /\ UNCHANGED cloud

ReconcileEnd(c) ==
    LET w == ctl[c].worker IN
    /\ At(c, "listed")
    /\ store' = IF Leads(c) /\ WorkerPhase(store, w) = "unknown" /\ ctl[c].reply.status = "found"
                THEN Adopt(store, w) ELSE store
    /\ Return(c)
    /\ UNCHANGED cloud

-----------------------------------------------------------------------------
(* poll: GET the machine, then record what it says.                        *)

\* what the provider can answer to GET for the machine of w
Answers(w) ==
    CASE cloud[w] = "launching" -> {"launching"}
      [] cloud[w] = "running" -> {"running"}
      [] cloud[w] = "stopped" -> {"stopped", "missing"}
      [] OTHER -> {}

Misfortunes == IF "provider" \in Faults THEN {"error", "portless", "foreign"} ELSE {}

Get(c, pc) ==
    \E status \in Answers(ctl[c].worker) \cup Misfortunes :
    \E short \in IF status \in {"error", "missing", "foreign"} THEN {FALSE} ELSE Terms :
        Hear(c, pc, status, short)

GetCall(c) ==
    /\ Dispatch(c, "poll")
    /\ Get(c, "got")
    /\ UNCHANGED <<store, cloud>>

PollEnd(c) ==
    /\ At(c, "got")
    /\ \E overdue \in BOOLEAN :
        store' = IF Leads(c) THEN Poll(store, ctl[c].worker, ctl[c].reply, overdue) ELSE store
    /\ Return(c)
    /\ UNCHANGED cloud

-----------------------------------------------------------------------------
(* stop: recheck, DELETE, and read back before the account is closed.      *)

MayStop(w) == /\ WorkerPhase(store, w) = "stopping"
              /\ store.workers[w].draining => Drained(store, w)

StopCheck(c) ==
    /\ Dispatch(c, "stop")
    /\ MayStop(ctl[c].worker)
    /\ Goto(c, "deleting")
    /\ UNCHANGED <<store, cloud>>

\* ErrBusy: a heartbeat since the snapshot revealed work, or none came lately
StopBusy(c) ==
    /\ Dispatch(c, "stop")
    /\ ~MayStop(ctl[c].worker)
    /\ Return(c)
    /\ UNCHANGED <<store, cloud>>

\* The provider may accept a DELETE and act on it later, or act on one whose
\* answer is lost.
DeleteCall(c) ==
    LET w == ctl[c].worker IN
    /\ At(c, "deleting")
    /\ cloud' \in {cloud, [cloud EXCEPT ![w] = "stopped"]}
    /\ Goto(c, "deleted") \/ Return(c)
    /\ UNCHANGED store

ConfirmCall(c) ==
    /\ At(c, "deleted")
    /\ Get(c, "confirmed")
    /\ UNCHANGED <<store, cloud>>

StopEnd(c) ==
    /\ At(c, "confirmed")
    /\ store' = IF Leads(c) /\ ctl[c].reply.status \in {"stopped", "missing"}
                THEN Stopped(store, {ctl[c].worker}) ELSE store
    /\ Return(c)
    /\ UNCHANGED cloud

Controller ==
    \E c \in Controllers :
        \/ TickTx(c) \/ Pick(c) \/ PickNone(c) \/ Refused(c) \/ Crash(c)
        \/ StartBegin(c) \/ Post(c) \/ PostUnknown(c) \/ PostCreated(c) \/ PostRejected(c)
        \/ StartEnd(c)
        \/ ListCall(c) \/ ReconcileEnd(c)
        \/ GetCall(c) \/ PollEnd(c)
        \/ StopCheck(c) \/ StopBusy(c) \/ DeleteCall(c) \/ ConfirmCall(c) \/ StopEnd(c)

-----------------------------------------------------------------------------
(* The provider.  A request may reach it long after its caller gave up.    *)

Machine(w, from, to) == /\ cloud[w] \in from
                        /\ cloud' = [cloud EXCEPT ![w] = to]
                        /\ UNCHANGED <<store, ctl>>

Land(w) == Machine(w, {"inflight"}, "launching")
Run(w) == Machine(w, {"launching"}, "running")
Halt(w) == "halt" \in Faults /\ Machine(w, {"launching", "running"}, "stopped")

Provider == \E w \in Workers : Land(w) \/ Run(w) \/ Halt(w)

Next == Client \/ Agent \/ Time \/ Controller \/ Provider

Spec == Init /\ [][Next]_vars

-----------------------------------------------------------------------------
(* What must hold.                                                         *)

\* The store, the machines and the processes stay within their types.
TypeOK == /\ store \in State
          /\ cloud \in [Workers -> Machines]
          /\ ctl \in [Controllers -> Control]

\* A room that is not over and has a worker is on a worker that serves: one
\* that is stopping, stopped, lost or not yet started never holds a room, so
\* giving a machine up never takes a match with it.
RoomsOnServingWorkers ==
    \A a \in Allocs :
        (InProgress(store, a) /\ store.allocations[a].worker # None)
            => WorkerPhase(store, store.allocations[a].worker) \in {"ready", "suspect", "draining"}

\* The outbox agrees with the rooms: a preparation can be delivered exactly
\* while its room is being prepared, the cleanup order of a cancelled room
\* stays until it is answered, and a drain order until it is acknowledged.
OutboxMatchesRooms ==
    /\ \A w \in Workers, a \in Allocs :
        /\ PrepareCommand(w, a) \in store.commands
            <=> Phase(store, a) = "preparing" /\ store.allocations[a].worker = w
        /\ CancelCommand(w, a) \in store.commands
            <=> Phase(store, a) = "cancelling" /\ store.allocations[a].worker = w
    /\ \A w \in Workers :
        DrainCommand(w) \in store.commands
            <=> /\ store.workers[w].draining /\ ~store.workers[w].drainAck
                /\ WorkerPhase(store, w) \notin Down

\* A player is in at most one room that is not over, and a request key stands
\* for one allocation, whatever is retried.
OneRoomPerUser ==
    \A a, b \in Allocs : a # b =>
        /\ InProgress(store, a) /\ InProgress(store, b)
            => store.allocations[a].users \cap store.allocations[b].users = {}
        /\ store.allocations[a].key # None
            => store.allocations[a].key # store.allocations[b].key

\* No worker is given more rooms than it was created for.
CapacityNeverExceeded ==
    \A w \in Workers : Occupied(store, w) <= store.workers[w].maxRooms

\* Every machine that costs money, a create request still in flight included,
\* belongs to a worker that liveCount counts, and those are within the limit.
CostCeiling ==
    /\ \A w \in Workers : cloud[w] \in Billable => w \in Live(store)
    /\ LiveCount(store) <= MaxInstances

\* The create request of a worker is sent at most once, by one process: none
\* is about to be sent while an earlier one may still be acted on.
StartOnce ==
    \A c \in Controllers : At(c, "posting") =>
        /\ cloud[ctl[c].worker] = "none"
        /\ WorkerPhase(store, ctl[c].worker) \in {"starting", "unknown"}
        /\ \A d \in Controllers \ {c} :
            ctl[d].worker = ctl[c].worker => ctl[d].pc \notin {"posting", "awaiting", "posted"}

\* A process that still leads when a provider call returns finds the worker as
\* the call assumed it: start, poll and stop write the result without reading
\* the worker's state again.
FencedResults ==
    \A c \in Controllers : Leads(c) =>
        LET phase == WorkerPhase(store, ctl[c].worker) IN
        /\ ctl[c].pc \in {"posting", "awaiting", "posted"} => phase = "starting"
        /\ ctl[c].pc = "got" => phase \in Polled
        /\ ctl[c].pc \in {"deleting", "deleted", "confirmed"} => phase = "stopping"

\* A machine is deleted only when no room is left on it and, if it ever served,
\* only after its agent has acknowledged the drain.
DeletesOnlyEmptyWorkers ==
    \A c \in Controllers : At(c, "deleting") =>
        LET w == ctl[c].worker IN
        /\ Rooms(store, w) = {}
        /\ store.workers[w].draining => store.workers[w].drainAck

\* An allocation ends once and never changes its worker.
RoomsEndOnce ==
    [][\A a \in Allocs :
        Phase(store', a) # "pruned" =>
            /\ Terminal(store, a) => Phase(store', a) = Phase(store, a)
            /\ store.allocations[a].worker # None
                => store'.allocations[a].worker = store.allocations[a].worker]_vars

\* A room fails only in the step that gives up its own worker.
FailuresAreLocal ==
    [][\A a \in Allocs :
        Phase(store, a) # "failed" /\ Phase(store', a) = "failed"
            => /\ store.allocations[a].worker # None
               /\ WorkerPhase(store, store.allocations[a].worker) \notin Down
               /\ WorkerPhase(store', store.allocations[a].worker) \in Down]_vars

\* A worker that was given up never comes back, whatever arrives late.
WorkersEndOnce ==
    [][\A w \in Workers :
        /\ WorkerPhase(store, w) = "lost" => WorkerPhase(store', w) \in {"lost", "stopped"}
        /\ WorkerPhase(store, w) = "stopped" => WorkerPhase(store', w) \in {"stopped", "pruned"}
        /\ WorkerPhase(store, w) = "failed" => WorkerPhase(store', w) \in {"failed", "pruned"}
        /\ WorkerPhase(store, w) = "pruned" => WorkerPhase(store', w) = "pruned"]_vars

=============================================================================
