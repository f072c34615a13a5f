# A verified model of the PlayFlow fleet controller

This directory holds TLA+ specifications of `nakama-playflow`, the Go plugin that
rents game-server machines from PlayFlow, puts two-player rooms on them and admits
the players. TLC model-checks them on small instances and TLAPS proves most of the
safety properties for every value of the constants.

1. [The system](#the-system)
2. [The modules and how they correspond to the code](#the-modules)
3. [What the runs check](#the-runs)
4. [What is proved](#what-is-proved)
5. [What is left out](#what-is-left-out)
6. [The plan](#the-plan)

## The system

The plugin runs inside every Nakama node. All nodes share one row of PostgreSQL; each
node runs a *tick* a second; agents inside the machines and game clients call in over
HTTP and RPC.

| Component | State it keeps | Operations | What makes it correct |
| --- | --- | --- | --- |
| **State store** (`internal/state`) | one JSONB row: workers, allocations, command outbox, leader and lease, creation block | `Update` (read, run a function, write: all or nothing), `View` | a transaction is atomic, and an error leaves the row as it was |
| **Room allocation and FleetManager API** (`pkg/fleetmanager/manager.go`) | none of its own: transactions on the row, and process-local callbacks | `Allocate`, `Cancel`, `Create`, `Join`, `Update`, `Delete`, `Drain`, `Get`, `List`, `Assignment`, callbacks | a player is in one room, a retried request finds its room, a worker is given no more rooms than it has, the bill stays within `MaxInstances` |
| **Reconciler** (`lifecycle.go`) | `tickMu`; the snapshot and the provider's answer while a tick runs | the lease transaction; `notify`; one of `start`, `reconcileUnknown`, `poll`, `stop` | one create request per worker, results written only over the state the call assumed, no machine given up with a room on it, nothing that was given up comes back |
| **Agent routes** (`http.go`) | none of its own | `bootstrap`, `heartbeat` (observation, command results, room reports), admin drain, status and retry-creation | command results and withdrawals agree whatever their order; a late report revives nothing |
| **Nakama hooks** (`nakama.go`) | none | matched hook, assignment and cancel RPCs | one durable allocation per matched pair |
| **PlayFlow client** (`internal/playflow`) | none | create, get, list (page by page), delete; classification of failures | an outcome nobody knows is never taken for a failure; a list that comes to an end is complete |
| **Mock PlayFlow server** (`cmd/playflow-mock`) | its instances, the faults still to inject | the provider's API and the control of faults | a request has its effect although its answer is an error |
| **Admission tickets** (`token.go`) | none | sign, derive secrets | a ticket outlives neither the reservation nor the resume window |
| **Configuration** (`config.go`, `setup.go`) | constants | parse, validate | limits and timeouts in range |
| **Migration, scripts** (`cmd/fleet-migrate`, `scripts`) | one DDL statement, build tooling | | |

How they interact: everything durable goes through `Store.Update`, which locks the
row. Clients and agents finish in one transaction each. A tick is a *sequence*: lease
transaction, notifications, snapshot, lease renewal, a transaction that records an
intention, a provider call without any lock, a transaction that records the result.
Between any two of these anything else can happen, including another node's tick, the
death of this one, or the provider acting on a request whose caller gave up. That is
where the hard behaviours are, and `PROJECT.json` lists each at its line under
`hazards`:

- **interleaving**: results written over a worker that handlers changed meanwhile;
  two nodes that take the lease from each other in the middle of a call;
- **failure**: a process that dies between intention and record, a POST that times
  out and lands later, a DELETE whose answer is lost, a machine that stops by itself;
- **ordering**: a heartbeat overtaking a stop, an acknowledgement overtaking a cancel,
  four ways to end the same room, a notification overtaken by a later assignment;
- **delivery**: heartbeats that are lost, repeated and delayed, commands that fail and
  come back under a new identity, a hook called again on another node;
- **clocks**: one second read in different places, before and after waiting for a lock;
- **progress**: one provider operation a tick, for whichever worker is oldest due;
- **limits**: rooms placed in one pass, machines that cost money without being known.

## The modules

The fleet as a whole:

| Module | Models | Extends |
| --- | --- | --- |
| `FleetState` | the records of the row and the body of every transaction, as pure operators on a state `s` | `Naturals`, `FiniteSets` |
| `Fleet` | the actions: client calls, agent requests, time, the steps of a tick, the provider's machines; the fleet's properties | `FleetState` |
| `MCFleet` | values of the constants and a start in which workers already serve | `Fleet` |
| `FleetProofs` | what each transaction body preserves, the inductive invariant and what follows from it; the lives of rooms and of workers | `Fleet`, `TLAPS` |
| `FleetBoundsProofs` | commands, rooms of a worker, create requests, machines that cost money | `FleetProofs` |

Parts looked at more closely, each against what `Fleet` abstracts from it:

| Module | Models | What `Fleet` has instead |
| --- | --- | --- |
| `Lease`, `LeaseProofs` | the ticks of several controllers on a clock: the `now` read before the row lock, the renewal, the deadlines of transactions and calls | a lease that changes hands at any moment |
| `Schedule` | which due worker a tick's one operation is for: `NextCheckAt`, the sort, what each operation makes of it | any due worker |
| `MCLease` | `Lease` and `Schedule` in one run | |
| `RowStore`, `RowStoreProofs` | `Postgres.Update`: row lock, copy, commit, rollback, the answer that is lost, nodes that die | atomic transactions |
| `AtomicRow` | what `Update` promises: the abstract specification `RowStore` implements, and all that the tests' in-memory store does | |
| `MatchRow`, `MCRowStore` | the transactions run on either: profile pinning by `New`, the matched hook, rooms that end | one node's configuration, one order of entries |
| `Outbox`, `OutboxProofs` | the commands to one agent over heartbeats with sequence numbers; agent and host (external) | a result for any pending command at any time |
| `Admission`, `AdmissionProofs` | one seat's reservation, tickets, reconnect window and the tick that ends its room, in seconds | expiry as a free choice |
| `Notify` | `notify` of several controllers while assignments change | nothing |
| `Callbacks` | callbacks of `Create` in the process that was asked, with its two mutexes | nothing |
| `MCNotify`, `NotifyProofs` | `Notify` and `Callbacks` in one run; the proofs about each | |
| `Machines`, `MachinesProofs` | the client of `internal/playflow` against the mock server with its faults, for workers whose agents drain and fall silent: a call is asked, served and answered, and can be lost before, between and after | a machine per worker in four states |

### The fleet: state

| Variable | In the code |
| --- | --- |
| `store` | `state.State`: `workers`, `allocations`, `commands`, `leader`, `blocked` (`CreationBlockedReason # ""`) |
| `cloud` | what the provider has for each worker: nothing, a request in flight, a launching, running or stopped machine (external) |
| `ctl` | for each process, where its tick is (`pc`), for which worker and operation, and the provider's last answer: the local variables of `Tick`, `start`, `poll`, ... |

A record's identity is a member of `Workers` or of `1..AllocSlots`; `absent` is one not
yet created and `pruned` one whose record was deleted after a day. Identities are used
once, as the code's random ids are.

### The fleet: actions

| Action | Code |
| --- | --- |
| `Allocate`, `CancelByPlayer`, `Create`, `CreateWithUsers`, `Join`, `PostPlayers`, `Delete`, `Drain`, `RetryCreation` | the `FleetManager` methods, the RPCs, the matched hook and the admin routes, one transaction each |
| `Bootstrap`, `Heartbeat` | the agent routes; `HeartbeatTx` is `Observe`, then `Acknowledge`, then `ReportRooms`, the three parts of `heartbeatHTTP` |
| `TickTx` | the whole lease transaction: `AgeWorkers`, `ExpireAllocations`, `PruneAllocations`, `PruneWorkers`, `AssignPrepared`, `Place`, `ScaleOut`, `ScaleIn`, in the code's order |
| `Pick`, `PickNone`, `Refused`, `Dispatch` | the snapshot, the choice of a worker and `renewLease` |
| `StartBegin`, `Post`, `PostUnknown`/`PostCreated`/`PostRejected`, `StartEnd` | `start` and the classification of the create call's outcome |
| `ListCall`, `ReconcileEnd` | `reconcileUnknown` |
| `GetCall`, `PollEnd` | `poll` |
| `StopCheck`, `StopBusy`, `DeleteCall`, `ConfirmCall`, `StopEnd` | `stop` |
| `Crash` | a tick ends at any point: the process dies, its context ends or a transaction fails |
| `HeartbeatAges`, `LifetimeEnds` | the clock passes `HeartbeatTimeout`, `LostTimeout`, the admission margin of a machine's lifetime |
| `Land`, `Run`, `Halt` | the provider acts on a request, starts a machine, loses a machine |

### The fleet: abstractions

- **Deadlines.** A deadline that one transaction alone reads (allocation expiry, the
  reconnect window, `LaunchTimeout`, `IdleSeconds`, retention) is a free choice of that
  transaction, so every outcome of every clock is covered. The age of a heartbeat is
  compared in many places with two thresholds, so it is state: `never`, `fresh`,
  `stale`, `gone`.
- **Lease.** Only the holder's name is kept. Any process may take the lease at any
  moment and any renewal may be refused, so nothing depends on the clocks; the write
  of a holder whose lease ran out unnoticed is included.
- **Renewal.** `renewLease` succeeds in the same step in which the operation begins.
  Whoever loses the lease between the two makes a read whose answer the next
  transaction drops, or is refused by that transaction.
- **Commands.** `commands` is the set of commands that are not done. The code keeps
  done ones an hour to answer repeats, which change nothing. A failed cancel or drain
  is replaced by a copy under a new id, which leaves the set as it is. A result may come
  for any pending command: delivered, retried or from an agent that was slow.
- **Sessions and reasons** are read only while a room is assigned or active, or while
  it is cancelling; a step out of these phases forgets them.
- **Room and allocation** are one to one in the code and one record here. The epoch is
  constant. Requests made in the same second are served in the order of their creation,
  where the code compares random ids.
- **The provider** may miss a machine in its list (pages and eventual consistency),
  answers 404 to GET only for a machine that has stopped, and acts on requests late.

### The parts: state, actions and abstractions

**Lease.** `proc[p]` is the point a process's `Tick` has reached, the `now` it read and
the second by which the step ends. `Begin` reads `now` (`lifecycle.go:26`), `TickTx` is
the lease transaction, `Renew` is `renewLease`, `Intend` and `Recheck` are the guarded
transactions of `start` and `stop`, `Confirm` the GET after a DELETE, `Return` and
`Finish` the end of a call and of the transaction that records it. `Advance` lets a
second pass unless a step would miss its deadline: 5 seconds for a call, as in the code,
and `TxLimit` for a transaction, which the code leaves to the database. Everything before
the renewal may take any time. A process that dies stays dead: it comes back with a
fresh `owner`.

**Schedule.** `due[w]` is `NextCheckAt` less the clock; of times in the past only the
order is kept, which is all the sort looks at. `Outcomes` has what `start`,
`reconcileUnknown`, `poll` and `stop` make of state and `NextCheckAt`; `Refuse` is a stop
that answers `ErrBusy` or a transaction that fails, which leave it as it was. New workers
are requested all the time. A worker without a provider id that is lost leaves the
schedule, as in the code.

**RowStore.** `tx[n]` is where a node's `Update` stands, with the copy it will write and
the answer it will give. `SelectForUpdate` waits for `holder = None`; `Commit` writes the
copy and lets go; `Fail` is a rollback before the commit and a lost answer after it.
`Outcomes(row, op)` is what the function run on the copy may do: a set, as `allocation`
ranges over a map and stops at the first entry with the key or with one of the players.
`Capacity` stands for the 16 MiB guard.

**Outbox.** One room on one worker. `Deliver` is `heartbeatHTTP` for the request in the
air or for an old one that turns up again; `Fresh` is the test of the sequence number;
`Result` and `Report` are the command results and room reports; `Due` is the backoff
after which a failed command is sent under a new identity: its type and how often it
failed before. `Acknowledge` takes the results of a heartbeat type by type (`Take`),
where the code takes them in the order of the request: of each type at most one command
is not done, so one of each can be news (`News`), and the three do not depend on each
other's order. The agent keeps one request
in the air and repeats it until it is answered, which the protocol asks of it; it
executes commands in any order and keeps a ledger of outcomes, and the host records a
cancelled room so that a late preparation fails.

**Admission.** `Join`, `Ask`/`Sign` (the row is read, then `now`), `Heartbeat` with the
room snapshot it carries, `TickReads`/`TickTx` (`now` is read, then the row). Both pairs
take at most `Lag` seconds. A ticket is its expiry. The host admits whoever holds one
that verifies. Controller and host share a clock.

**Notify.** `ctl[p]` holds the snapshot of a controller's `notify`, the allocation it is
sending and whether all sends succeeded. Several controllers may be inside, as a slow
one that lost the lease goes on. **Callbacks.** `Create` commits, `Register` appends to
`callbacks` under its mutex later; a tick takes a `View` of the store, then decides
under the mutex (`Decide`), then calls out (`Invoke`). What controllers make of worker
and room is a free choice in the order their states allow.

**Machines.** `machines` is the mock's instances in the order of their ids, `faults`
what is left to inject, `call` the call under way with its request or answer. `Serve`
is the server, `Return` the client's classification and the transaction that follows;
`Timeout` ends a call without an answer and may leave a POST on its way (`late`),
`Crash` ends its process. A page of the server is a set: the machines that have at least
`offset` and fewer than `offset + PageSize` listed machines before them (`Before`).
`ListNext` asks for the next page, merges it without repetitions and gives up on an
error; what it has found is a set of records, each with the offset of its page, so that
a repeated record counts twice unless it is dropped. Other deployments start and stop machines between
pages. `order` lets the real provider list newest first, which the client must allow.

`agent[w]` is what the row knows of a worker's agent: the age of its last heartbeat
(`fresh` up to `HeartbeatTimeout`, `stale` up to `LostTimeout`, `silent` beyond) and how
far its drain has come: none, with work left (`busy`), or acknowledged with none
left (`done`). `Hear` is an accepted heartbeat, which takes a machine that runs and a worker
that is not given up; `Quiet` is the time without one; `Drain` is an operator, the
scale-in or the end of a machine's lifetime. `Tick` is the part of the lease transaction
that concerns one worker (`Aged`): silence makes it `lost` in any phase but `stopped` and
`failed` (`lifecycle.go:47`), a create that was interrupted is `unknown` (`:40`), a worker
that has drained is `stopping` (`:190`). `StopBegin` repeats the drain's conditions on the
row as it is then (`Stoppable`, `:521`); when they do not hold there is no DELETE. A lost worker is
polled if it has a `ProviderID` and otherwise left alone (`GetBegin`, `:212`). The phase
`launching` stands for `bootstrapping`, `ready`, `suspect` and `draining` as well, which the
provider operations treat alike but for the drain (`agent[w].drain`) and the launch
timeout, which the model allows in each of them that is not drained. A machine of another
owner under a worker's `ProviderID` (`:468`) is left out: the mock uses no id twice;
`Fleet` has it.

## The runs

Every module with an assumption is extended by a run's module, so TLC evaluates it.

| Run | Question | Bounds and why they are enough |
| --- | --- | --- |
| `lifecycle` | Do rooms stay on serving workers, does the outbox agree with the rooms, are only empty, drained machines deleted, does nothing come back? | one worker from nothing to pruned, one room, every fault, crash, short lifetime and late message. The properties speak of one worker and one room at a time, and the bodies treat records independently. |
| `rooms` | Is admission exclusive, does capacity hold, does a room end once and stay on its worker? | a serving worker with one room, two allocations, two pairs and two keys: the smallest fleet in which requests compete and keys are reused. `Faults` leaves out `crash`, which can only cut ticks short. |
| `pair` | Does a room fail only with its own worker? | two serving workers, one room, no injected faults: silence and cost-driven stops already take either worker away. |
| `controllers` | Is a create request sent once, are results written over the state their call assumed? | two processes, one worker: the lease passes between them at every step of every operation. No rooms, which no step of a provider operation looks at. |
| `budget` | Is every machine that costs money counted, within `MaxInstances`? | two workers under a limit of one, all faults, pruning on: a worker must be accounted for before the next is created. |
| `lease` | Is one controller at a time inside provider calls, are its answers recorded, and does the tick reach every worker? | two controllers, calls and transactions of a second, a lease of six, one more than the longest operation: with five the assumption fails. Fifteen seconds see the lease change hands twice. Three workers, so that two can conspire to keep the third waiting, a poll interval of two and one refusal. |
| `telling` | Are players told of their last assignment, whatever fails, and is `Create` answered, and truly? | one allocation (they do not meet), two users, so that one send of a notification can fail, two controllers, two revisions, one crash; one worker for the callbacks. |
| `outbox` | Does no room open that the books are closed on, do cleanups and drains end? | one room, one failure of a cancel or drain: three commands and a reissued one, any old request or command turning up again. |
| `row` | Does `Update` behave like one atomic step, and do its callers agree? | two nodes that start with either of two builds, four matches over three players that overlap in players and tickets, two rooms. |
| `admission` | Is a ticket good when issued, and none left when its room is ended? | the order of the real 45, 60 and 90 seconds kept with 2, 3 and 4, a lag of one, ten seconds: a reservation, a resume window and a second absence. |
| `machines` | Has a worker at most one machine, and does a list miss none and show none twice? | one worker, two machines of others, pages of one (a list has three, the most places for a change between pages), one fault of each kind, one change of the faults, one lost request or crash. No agent calls in (`Talking` is empty), which changes nothing a list shows. |
| `agents` | Is a worker's machine found, stopped when it is to be, off when the worker is given up, and the worker closed when its machine is gone? | the same with an agent that may call in, drain and fall silent at any time, and one machine of others: two pages, so that a list can still shift while it is read. |

In `rooms` and `pair` the fleet starts as it is after coming up (`ServingInit`, a state
the `lifecycle` run reaches). Symmetry is over workers, processes and keys, which
`FleetState` never orders (allocations, which are ordered, have none); no run with
symmetry checks liveness.

`lease` and `telling` each hold two specifications that share no state: one is explored
while the other is over or at rest, so that a run has the sum of their states and not
the product.

`CHECK_DEADLOCK` is left on where the system cannot stop: a fleet goes on, as an operator
can always retry; an agent goes on repeating; a node can begin again. It is off in
`lease` (all processes may die), `telling`, `machines` and `agents` (nothing may be left to
do, or the bounded faults are used up) and `admission` (the clock is bounded).

### Fairness

Safety is checked without any. Liveness assumes, and the code or its documentation
justifies:

| Module | Assumed | Because |
| --- | --- | --- |
| `Schedule` | the clock runs; some tick performs its operation | `Run` ticks every second, every provider call has a deadline of five; that transactions fail and stops are refused a bounded number of times is the bound `MaxRefusals` |
| `Notify` | controllers tick and their steps go on (weak); a user who is tried again and again is reached, and recording does not fail for ever (strong) | a failed send leaves the revision behind, so the next tick tries again |
| `Callbacks` | the process's ticks go on, `Create` reaches its registration, time passes | a crash is allowed and named in the property |
| `Outbox` | the agent sends and repeats, its newest request and the answer get through, backoffs pass, commands are executed | the protocol asks the agent to repeat an unanswered heartbeat unchanged |
| `Machines` | calls return; an operation that is possible again and again is begun, and so is the tick's transaction for a worker that is `starting` or has no machine (strong); such a worker's silence grows (weak) | deadlines of calls; `Schedule` shows that the tick leaves no worker aside; time passes, and a machine that does not run sends no heartbeat |

No fairness is assumed of faults, of machines coming up, of agents or of players. What
`EventuallyFound` and `EventuallyStopped` need of an agent is a premise of the property
itself: that it is never silent for `LostTimeout` while its machine runs, and for a stop
also that its work ends and its heartbeats come in time (`Stoppable`) from some point on.

### What the properties do not say

- A stop that is refused for pending work or a stale heartbeat keeps its place at the
  head of the schedule until the work ends or the worker is lost, and every other
  operation waits. `NobodyIsLeftAside` holds because refusals end, not because the
  others overtake.
- `EventuallyFound` is about a machine that exists. A worker whose POST never landed
  stays `unknown` until an operator acts, by design.
- Silence ends both searches. A worker that is `unknown` although its agent was heard, and
  whose agent then falls silent for `LostTimeout`, becomes `lost` without a `ProviderID`
  and is listed no more. A worker that is being stopped and falls silent becomes `lost`
  too, is polled and gets no further DELETE. If its machine runs on, it keeps its place
  under `MaxInstances` and waits for an operator: the quarantine of
  `docs/architecture.md:63`. Without the premises on the agent both properties are
  violated. `EventuallyReleased` has no premise: once the machine with the worker's
  `ProviderID` is gone, the worker is closed, through `lost` if the recheck refuses
  the stop for want of heartbeats.
- `NoGhostRoom` counts a room as closed when it is cancelled or completed; rooms that
  end with their worker are `Fleet`'s. `MatchesAgree` holds while the room's record is
  kept, a day after its end.
- `ListIsComplete` has an exception: a machine stopped while the list is read moves the
  rest to an earlier page, and one may be missed. `EventuallyFound` shows that a later
  list has it.

## What is proved

For any number of workers, rooms, players, processes, nodes, matches, machines and
seconds, and any values of the limits and durations the assumptions admit:

| Module | Theorem | Statement |
| --- | --- | --- |
| `FleetProofs` | `TypeCorrect` | `Spec => []TypeOK` |
| | `RoomsAreServed` | `Spec => []RoomsOnServingWorkers` |
| | `ResultsAreFenced` | `Spec => []FencedResults` |
| | `PlayersHaveOneRoom` | `Spec => []OneRoomPerUser` |
| | `DeletedWorkersAreEmpty` | `Spec => []DeletesOnlyEmptyWorkers` |
| | `RoomsNeverReopen` | `Spec => RoomsEndOnce` |
| | `RoomsFailWithTheirWorker` | `Spec => FailuresAreLocal` |
| | `WorkersNeverComeBack` | `Spec => WorkersEndOnce` |
| `FleetBoundsProofs` | `OrdersFollowRooms` | `Spec => []OutboxMatchesRooms` |
| | `WorkersKeepTheirLimit` | `Spec => []CapacityNeverExceeded` |
| | `RequestsAreSentOnce` | `Spec => []StartOnce` |
| | `MachinesStayWithinTheLimit` | `Spec => []CostCeiling` |
| `LeaseProofs` | `CallsAreExclusive` | `Spec => []OneCaller` |
| | `AnswersCount` | `Spec => []AnswersAreRecorded` |
| `RowStoreProofs` | `Refinement` | `Spec => UpdatesAreAtomic`: `RowStore` implements `AtomicRow` |
| | `PoolHasOneProfile` | `Spec => []OneProfile` |
| | `MatchesAlwaysAgree` | `Spec => []MatchesAgree` |
| `AdmissionProofs` | `EntryEndsWithTheRoom` | `Spec => []NoEntryAfterExpiry` |
| | `ResumeEndsWithTheWindow` | `Spec => []NoResumeAfterWindow` |
| | `AbsencesHaveDeadlines` | `Spec => []AbsencesAreTimed` |
| | `TicketsAlwaysVerify` | `Spec => TicketsVerify` |
| `NotifyProofs` | `NobodyIsForgotten` | `Spec => []RecordedWasSent` |
| | `RecordsMoveForward` | `Spec => NotifiedNeverFalls` |
| | `CallersHearOnce` | `CB!Spec => []CalledOnce` |
| | `SuccessIsTrue` | `CB!Spec => []SuccessWasServed` |
| | `TimeoutIsTrue` | `CB!Spec => []TimeoutIsDeserved` |
| `MachinesProofs` | `WorkersHaveOneMachine` | `Spec => []OneMachine` |
| | `NothingIsLeftRunning` | `Spec => []NoOrphans` |
| | `ListsAreComplete` | `Spec => []ListIsComplete` |
| | `OperatorsAreNotCalled` | `Spec => []NoFalseAlarm` |
| `OutboxProofs` | `ClosedRoomsStayShut` | `Spec => []NoGhostRoom` |
| | `CleanupsAreSingle` | `Spec => []OneCleanup` |
| | `ReportsDoNotGoBack` | `Spec => []NewestReportCounts` |

The assumptions are those named in the modules: the limits are natural numbers
(`MaxRooms` positive), `None` and `Nobody` are none of the other values, the inputs have
their types. `Lease` assumes `3 * TxLimit + 2 * CallLimit < LeaseTerm`: with calls of 5
seconds and a lease of 30, three transactions may together take less than 20 seconds.
The code does not enforce that; it is what the lease is good for. `Admission` assumes
that a resume ticket lives at least a second and no longer than an entry ticket, and
that an entry ticket's life and the lag between reading clock and row fit into the
reconnect window: 45, 60 and 90 seconds by default. `Validate` keeps the 60 seconds and asks
of the window only that it is positive (`config.go:89`); a profile with a shorter window
is outside what is shown. `Machines` assumes that the machines
fit into the pages a list may have; the code gives up on a list of more than 100 pages
of 100.

### The fleet

`RoomsOnServingWorkers` needs no strengthening for the transactions of
clients and agents, but it does for the steps that end a provider call: `start` moves
its worker to `launching` without reading its state again, which would take the worker
from under a room if it had come to serve meanwhile. So the inductive invariant `IInv`
says, with the types and the rooms:

- `Formed`: a process that is inside an operation has a worker, and an answer that the
  operation's last transaction can interpret;
- `Fits`: while its process leads, the worker is in the phase for which the operation
  was begun: `starting` from the intention to the outcome, a polled phase while a GET
  is out, `stopping` from the recheck to the confirmation.

`Fits` survives a step of another process because that step either writes nothing or
leaves the other process the leader. It survives clients and agents because each of
their transactions keeps the three kinds of phase (`Keeps`): a heartbeat leaves
`starting` and `stopping` alone, a drain begins only from a polled phase, and so on.
`tickMu` is what stops a process from taking the lease back in the middle of its own
operation: `TickTx` requires `pc = "idle"`.

The first part of `FleetProofs` has one lemma per transaction body (`CancelGood`,
`CloseGood`, `PlaceGood`, `AcknowledgeGood`, ...) so that the proof about actions only
names them; `TickGood` walks through the lease transaction one phase at a time. The
second part, and `FleetBoundsProofs`, go through the bodies again in the same way, each
for one question:

**Lives** (`FleetProofs`, second part). `RoomOnward` and `WorkerOnward` relate one record before
and after. They are transitive, so what is shown of each body holds of a transaction
that runs many. Which step may fail or place a room is kept apart (`Unfailed`,
`Unplaced`). The invariant `MovesInv` adds to `IInv` that a record that is gone has
nothing left in it (`Tidy`), that a player's room and a key are unique (`Single`), and
`Deletable`: between `stop`'s recheck and its DELETE the worker is being given up, and if
it was draining its agent has acknowledged that. Clients, agents and other processes
leave that so, as `WorkerOnward` says; that no room is left follows from
`RoomsOnServingWorkers`.

**Commands** (`OrdersFollowRooms`). `OutboxMatchesRooms` is about sets of commands;
`Ordered` says the same room by room (`OrderOf`) and worker by worker (`DrainOf`), and
each body changes the commands of only the rooms it moves. The work is in heartbeats,
where several results and reports are applied at once and one cancels what another
acknowledges.

**Capacity** (`WorkersKeepTheirLimit`). A tick places many requests in one step. Among
those it gives to a worker one is the last (`LastPlaced`), and that one was admitted by a
count that included all the others.

**Create requests and cost** (`RequestsAreSentOnce`, `MachinesStayWithinTheLimit`).
Neither `StartOnce` nor `CostCeiling` is inductive. `LaunchInv` relates the provider to
the records: of a worker nothing was asked for there is neither machine nor request
(`Unasked`); no agent was heard before a machine ran (`Unheard`); a machine that costs
money belongs to a worker `liveCount` counts (`Paid`); a process about to post is the only
one that asks for this worker (`Sending`); an answer not yet recorded is still true
(`Honest`). `Unheard` is the one that is easy to overlook: without it a heartbeat could
take a worker out of `starting`, and its request be sent by a process that comes back.
The ceiling itself is one theorem on cardinalities: the machines are among the live
workers, and only `ScaleOut` and `Create` add to those, each after counting.

### The lease

`OneCaller` is not inductive: that two processes are never calling depends on how long
ago each of them renewed. `IInv` says of a process between its renewal and the end of
its operation that it leads and that its step ends within a budget counted from the
renewal, `until - LeaseTerm` (`Held`); that no transaction works with a `now` from the
future (`Behind`); and the types. The budgets grow along the operation and the largest is
less than the lease (`BudgetFits`), so another process's `TickTx`, whose `now` is not
ahead of the clock, finds the lease still held. Since both cannot lead, both cannot call.

### The row

The mapping takes a call to its effect at `Commit`. `IInv` says that a staged copy
belongs to the holder of the lock and is still an outcome of the operation on the row as
it is (`Locked`), which only the lock can keep true while other nodes commit, and that
only known operations are under way (`Known`).

`RowInv` is about what the callers make of it. The row only grows (`Grows`): a profile
that is pinned stays, a key keeps its room. A node that runs has the row's profile, and
so has a request it accepted (`Loyal`); an answer that was not returned yet is true of
the row (`Truthful`). That every commit grows the row is shown once of `Outcomes`, and
the lock is needed again: a copy made from an older row would lose what others added.

### Admission

Each deadline is compared at two places, by whoever signs a ticket and by the tick that
ends the room, and each reads clock and row at different moments. The invariant says what
holds of a query between its two readings (`Question`): the seat it read has a window that
ends no later than the one open now, and if it saw no window, one that was opened since
ends a whole `Reconnect` after the query began, which is later than a resume ticket may
last. `Reservation` and `Window` bound the tickets by the deadlines, and `Ending` records
why a room was ended.

### Notifications and callbacks

`RecordedWasSent` is inductive with `SendsArrive`: of the revision a controller is
sending, all users were sent it but those it has left, unless a send failed. It is stated
of `at`, the revision that was read, and not of the allocation's, which moves on. For the
callbacks, `InOnePlace` says that an answer is still to be registered, registered, decided
on or given; `Onward` that what a tick saw in its `View` and may have changed since can
only have moved on; `Deserved` that a decision not yet carried out is still true. The two
halves share no variable, so each theorem is about its own specification.

### Machines

`Sane(w)` follows a worker through every loss: it has no machine and at most one request
on its way, or no request and perhaps a machine; what it names (`id # 0`) is its own, in
every phase, so also when it is lost; it is given up only when neither is left. `Aged`
never leads to a phase that asks for a machine or gives one up (`AgedFacts`), so the agents
do not come into it. `Truthful` says what of an answer is still true when it is
read, given that machines come and stop between.

A list is read page by page while the machines change. `ListCovers` is the reason why it
is complete: as long as nothing stops, the machines listed before a given one (`Before`)
only become more, so a machine can only move to a later place, and whichever was up when
the list began and has a place below the offset reached so far has been seen. The last
page is one after which the cardinality of `Listed` is reached, so that all places are
below it. `MergeFacts` is why no machine is found twice.

### Commands and heartbeats

`MaxFailures` is any number, and so is the number of commands. `NoGhostRoom` joins what
the controller wrote to what the host did, two ends that only messages connect:

- `Books`: the commands agree with the phase of the room, none is issued before its
  cause, and of each type all attempts but the last are done. `OneCleanup` is this,
  counted.
- `Ledger`: all that is in the network and at the agent was issued, nothing is executed
  twice, and only what was executed is reported.
- `Host`: the room was opened by its preparation and by nothing else, and a host that
  cleaned up does not open it. A request that says `closed` is still true when it
  arrives.
- `Closed`: a room that counts as completed is closed, and for one that counts as
  cancelled the host has recorded it. A preparation that is executed after that fails.
- `Counted`: a command is issued again only after its attempt failed, so that the
  identities the model has are enough for the failures it allows.

One result at a time would be simple; the work is that a heartbeat brings results of
three types, of which the first may cancel the room while the second is the outcome of a
cleanup. The lemmas about `Result` are therefore stated for any store the controller may
have (`Good`), and `Acknowledge` composes three of them.

### Only model-checked

- The liveness properties (`NobodyIsLeftAside`, `EventuallyTold`, `CreateIsAnswered`,
  `CleanupEnds`, `DrainIsAcknowledged`, `EventuallyFound`, `EventuallyStopped`,
  `EventuallyReleased`): liveness under fairness and `ENABLED` are out of the prover's reach.

`CalledOnce`, conversely, is proved and is in no run.

## What is left out

- Authentication, decoding and validation of requests, the signature and the other
  claims of a ticket, the parsing of configuration, URLs and `Retry-After`, wording of
  errors and logs: data that no property tells apart.
- `Get`, `List`, introspection and the MatchmakerAdd hook only read.
- The schema migration is one statement; packaging and scripts are build tooling.
- The parts are not multiplied with the fleet: `Fleet` already allows more than each of
  them (a lease that moves at any moment, results in any order, free expiry), so its
  safety does not rest on theirs. Liveness of a room from request to assignment would
  need all of them at once and is out of TLC's reach.
- Clock skew between controllers, and between controller and host. `Lease` and
  `Admission` have one clock; a host whose clock is behind refuses a fresh ticket of full
  length (`token.go:67`).
- A commit of `Create` whose answer is lost leaves a worker nobody is called back about:
  the store cannot tell, and nothing in the code tries to.

`PROJECT.json` lists every component with its status, and every hazard with the
properties that cover it or the reason why none does.

## The plan

The system is modelled as far as the list above says, and every safety property a
passing run checks is proved. What remains is proof:

1. Abstract specifications of a room's and of a machine's life, implemented by `Fleet`:
   `RoomOnward` and `WorkerOnward` are their steps.
2. That each part allows no more than `Fleet` does where the two overlap, the lease first.
