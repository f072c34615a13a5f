---------------------------- MODULE FleetProofs -----------------------------
(***************************************************************************)
(* Invariants of Fleet, for every value of its constants: any number of    *)
(* workers, rooms, players and control processes.                          *)
(*                                                                         *)
(* IInv is inductive: it holds of Init and every step of Next keeps it.    *)
(* Beside the types and the rooms it says what a tick under way may rely   *)
(* on while its process leads; without that part the answers of provider   *)
(* calls could be written over any state of their worker.                  *)
(***************************************************************************)
EXTENDS Fleet, TLAPS

-----------------------------------------------------------------------------
(***************************************************************************)
(* What the transaction bodies of FleetState preserve, for every value of  *)
(* the constants: the types of the records, and that a room with a worker  *)
(* is on a worker that serves.                                             *)
(*                                                                         *)
(* The lemmas named ...Good say that one body takes a good state to a good *)
(* state; those named ...Same, that it leaves the leader and the phases of *)
(* the workers alone.  The first few are about single records: the provers *)
(* need the type of one record before that of a function of records.       *)
(***************************************************************************)

ServingPhases == {"ready", "suspect", "draining"}

RoomsServed(s) ==
    \A a \in Allocs : (InProgress(s, a) /\ s.allocations[a].worker # None)
        => WorkerPhase(s, s.allocations[a].worker) \in ServingPhases

Good(s) == s \in State /\ RoomsServed(s)

\* Two states of the store with the same leader and the same phases of workers.
SameFleet(s, t) == t.leader = s.leader /\ \A w \in Workers : WorkerPhase(t, w) = WorkerPhase(s, w)

USE NoneAssumption, LimitsAssumption, SlotsAssumption

\* A worker that only changes its phase.
LEMMA WorkerState ==
  ASSUME NEW r \in Worker, NEW phase \in WorkerPhases
  PROVE  [r EXCEPT !.state = phase] \in Worker
BY DEF Worker

\* The record of a worker that stopped() or lost() closes.
LEMMA WorkerClosed ==
  ASSUME NEW r \in Worker, NEW phase \in WorkerPhases
  PROVE  [r EXCEPT !.state = phase, !.ready = FALSE] \in Worker
BY DEF Worker

\* The record of a worker that beginDrain marks.
LEMMA WorkerDraining ==
  ASSUME NEW r \in Worker
  PROVE  [r EXCEPT !.draining = TRUE, !.state = "draining"] \in Worker
BY DEF Worker, WorkerPhases

\* An allocation that a step of Leave moves to another phase.
LEMMA AllocationMoved ==
  ASSUME NEW r \in Allocation, NEW phase \in AllocPhases, NEW reason \in Reasons,
         NEW sessions \in [Users -> SessionPhases]
  PROVE  [r EXCEPT !.state = phase, !.reason = reason, !.sessions = sessions] \in Allocation
BY DEF Allocation

\* An allocation whose players get a session each.
LEMMA AllocationSeated ==
  ASSUME NEW r \in Allocation, NEW phase \in AllocPhases, NEW sessions \in [Users -> SessionPhases]
  PROVE  [r EXCEPT !.state = phase, !.sessions = sessions] \in Allocation
BY DEF Allocation

\* An allocation that Tick binds to a worker.
LEMMA AllocationPlaced ==
  ASSUME NEW r \in Allocation, NEW w \in Workers
  PROVE  [r EXCEPT !.state = "preparing", !.worker = w] \in Allocation
BY DEF Allocation, AllocPhases, InProgressPhases, WaitingPhases

\* The empty store is good.
LEMMA NewGood == Good(New)
  BY SMT DEF New, Good, State, Worker, Allocation, Command, NoWorker, NoAllocation, NoSessions, Calm,
     Metrics, WorkerPhases, AllocPhases, InProgressPhases, WaitingPhases, TerminalPhases, Ages, Reasons,
     SessionPhases, RoomsServed, InProgress, Phase, WorkerPhase

\* Leaving a phase keeps a state good when what leaves ends, or was in progress before.
LEMMA LeaveGood ==
  ASSUME NEW s, Good(s), NEW D, NEW phase \in AllocPhases, NEW reason \in Reasons,
         phase \in TerminalPhases \/ D \subseteq {a \in Allocs : InProgress(s, a)}
  PROVE  Good(Leave(s, D, phase, reason))
<1> DEFINE t == Leave(s, D, phase, reason)
<1>1. t \in State
  <2>1. NoSessions \in [Users -> SessionPhases]
    BY DEF NoSessions, SessionPhases
  <2>2. \A a \in Allocs : [s.allocations[a] EXCEPT !.state = phase, !.reason = reason,
                                                 !.sessions = NoSessions] \in Allocation
    BY <2>1, AllocationMoved DEF Good, State
  <2>3. t.allocations \in [Allocs -> Allocation]
    BY <2>2 DEF Good, State, Leave
  <2> QED BY <2>3 DEF Good, Leave, State
<1>2. RoomsServed(t)
  BY DEF Good, Leave, State, Allocation, RoomsServed, InProgress, Phase, WorkerPhase,
    InProgressPhases, WaitingPhases, TerminalPhases
<1> QED BY <1>1, <1>2 DEF Good

\* Steps on allocations do not touch the workers.
LEMMA LeaveSame ==
  ASSUME NEW s, Good(s), NEW D, NEW phase, NEW reason
  PROVE  SameFleet(s, Leave(s, D, phase, reason))
BY DEF Good, State, Leave, SameFleet, WorkerPhase

\* A worker may move to a phase that does not serve only without rooms.
LEMMA SetPhaseGood ==
  ASSUME NEW s, Good(s), NEW D, NEW phase \in WorkerPhases,
         phase \in ServingPhases \/ \A w \in D \cap Workers : Rooms(s, w) = {}
  PROVE  Good(SetPhase(s, D, phase))
<1> DEFINE t == SetPhase(s, D, phase)
<1>1. t \in State
  <2>1. \A w \in Workers : [s.workers[w] EXCEPT !.state = phase] \in Worker
    BY WorkerState DEF Good, State
  <2> QED BY <2>1 DEF Good, SetPhase, State
<1>2. RoomsServed(t)
  BY DEF Good, SetPhase, State, Worker, Allocation, RoomsServed, InProgress, Phase, WorkerPhase, Rooms
<1> QED BY <1>1, <1>2 DEF Good

\* A worker that starts to drain still serves its rooms.
LEMMA BeginDrainGood ==
  ASSUME NEW s, Good(s), NEW D \in SUBSET Workers
  PROVE  Good(BeginDrain(s, D))
<1> DEFINE t == BeginDrain(s, D)
           new == {w \in D : ~s.workers[w].draining}
           W == [w \in Workers |->
                    IF w \in new THEN [s.workers[w] EXCEPT !.draining = TRUE, !.state = "draining"]
                                 ELSE s.workers[w]]
           K == s.commands \cup {DrainCommand(w) : w \in new}
<1>1. W \in [Workers -> Worker]
  BY WorkerDraining DEF Good, State
<1>2. K \in SUBSET Command
  BY DEF Good, State, Command, DrainCommand, CommandTypes
<1>3. t = [s EXCEPT !.workers = W, !.commands = K]
  BY DEF BeginDrain
<1>4. \A w \in Workers : W[w].state \in {s.workers[w].state, "draining"}
  BY DEF Good, State, Worker
<1>5. t \in State
  <2> HIDE DEF W, K
  <2> QED BY <1>1, <1>2, <1>3 DEF Good, State
<1>6. RoomsServed(t)
  <2> HIDE DEF W, K
  <2> QED BY <1>3, <1>4 DEF Good, State, Allocation, RoomsServed, InProgress, Phase, WorkerPhase,
        ServingPhases
<1> QED BY <1>5, <1>6 DEF Good

\* Ending allocations keeps a state good.
LEMMA FinishGood ==
  ASSUME NEW s, Good(s), NEW D, NEW phase \in TerminalPhases
  PROVE  Good(Finish(s, D, phase))
BY LeaveGood DEF Finish, AllocPhases, Reasons

\* The outbox may change freely.
LEMMA CommandsGood ==
  ASSUME NEW s, Good(s), NEW K \in SUBSET Command
  PROVE  Good([s EXCEPT !.commands = K])
BY DEF Good, State, RoomsServed, InProgress, Phase, WorkerPhase

\* Manager.cancel ends unbound allocations and leaves bound ones on their worker.
LEMMA CancelGood ==
  ASSUME NEW s, Good(s), NEW D \in SUBSET Allocs, NEW reason \in Reasons
  PROVE  Good(Cancel(s, D, reason))
<1> DEFINE going == Cancellable(s, D)
           bound == {a \in going : s.allocations[a].worker # None}
           phase == IF reason = "cancelled" THEN "cancelled" ELSE "expired"
           ended == Finish(s, going \ bound, phase)
           parting == Leave(ended, bound, "cancelling", reason)
           K == {k \in s.commands : ~(k.type = "prepare_room" /\ k.alloc \in bound)}
                  \cup {CancelCommand(s.allocations[a].worker, a) : a \in bound}
<1>1. Good(ended)
  BY FinishGood DEF TerminalPhases
<1>2. bound \subseteq {a \in Allocs : InProgress(ended, a)}
  BY DEF Cancellable, Finish, Leave, InProgress, Phase, Good, State
<1>3. Good(parting)
  <2> HIDE DEF ended, bound
  <2> QED BY <1>1, <1>2, LeaveGood DEF AllocPhases, InProgressPhases
<1>4. K \in SUBSET Command
  BY DEF Good, State, Allocation, Command, CommandTypes, CancelCommand, Cancellable
<1>5. Cancel(s, D, reason) = [parting EXCEPT !.commands = K]
  BY DEF Cancel
<1> QED
  <2> HIDE DEF parting, K
  <2> QED BY <1>3, <1>4, <1>5, CommandsGood

\* Manager.cancel does not touch the workers.
LEMMA CancelSame ==
  ASSUME NEW s, Good(s), NEW D, NEW reason
  PROVE  SameFleet(s, Cancel(s, D, reason))
BY DEF Good, State, Cancel, Finish, Leave, SameFleet, WorkerPhase

\* Reserving the seats of prepared rooms moves no room.
LEMMA ReserveGood ==
  ASSUME NEW s, Good(s), NEW D
  PROVE  Good(Reserve(s, D))
<1> DEFINE t == Reserve(s, D)
           Seats(a) == [u \in Users |-> IF u \in s.allocations[a].users THEN "reserved" ELSE "none"]
<1>1. t \in State
  <2>1. \A a \in Allocs : Seats(a) \in [Users -> SessionPhases]
    BY DEF SessionPhases
  <2>2. \A a \in Allocs : [s.allocations[a] EXCEPT !.state = "assigned", !.sessions = Seats(a)]
                            \in Allocation
    <3> HIDE DEF Seats
    <3> QED BY <2>1, AllocationSeated DEF Good, State, AllocPhases, InProgressPhases, WaitingPhases
  <2>3. t.allocations \in [Allocs -> Allocation]
    BY <2>2 DEF Good, State, Reserve
  <2> QED BY <2>3 DEF Good, Reserve, State
<1>2. RoomsServed(t)
  BY DEF Good, Reserve, State, Allocation, RoomsServed, InProgress, Phase, WorkerPhase,
    InProgressPhases, WaitingPhases
<1> QED BY <1>1, <1>2 DEF Good

\* Reserving does not touch the workers.
LEMMA ReserveSame ==
  ASSUME NEW s, Good(s), NEW D
  PROVE  SameFleet(s, Reserve(s, D))
BY DEF Good, State, Reserve, SameFleet, WorkerPhase

\* A new allocation has no worker.
LEMMA AddAllocationGood ==
  ASSUME NEW s, Good(s), NEW a \in Allocs, NEW users \in SUBSET Users,
         NEW key \in Keys \cup Workers, NEW preferred \in Workers \cup {None}
  PROVE  Good(AddAllocation(s, a, users, key, preferred))
<1> DEFINE t == AddAllocation(s, a, users, key, preferred)
           new == [NoAllocation EXCEPT !.state = "waiting_capacity", !.users = users,
                                       !.key = key, !.preferred = preferred]
<1>1. new \in Allocation /\ new.worker = None
  BY DEF NoAllocation, NoSessions, Allocation, SessionPhases, AllocPhases, InProgressPhases,
    WaitingPhases, Reasons
<1>2. t = [s EXCEPT !.allocations[a] = new]
  BY DEF AddAllocation
<1>3. t \in State
  <2> HIDE DEF new
  <2> QED BY <1>1, <1>2 DEF Good, State
<1>4. RoomsServed(t)
  <2> HIDE DEF new
  <2> QED BY <1>1, <1>2 DEF Good, State, RoomsServed, InProgress, Phase, WorkerPhase
<1> QED BY <1>3, <1>4 DEF Good

\* A new worker takes an identity that no room names.
LEMMA AddWorkerGood ==
  ASSUME NEW s, Good(s), NEW w \in Workers, WorkerPhase(s, w) = "absent", NEW n \in 1 .. MaxRooms
  PROVE  Good(AddWorker(s, w, n))
<1> DEFINE t == AddWorker(s, w, n)
           new == [NoWorker EXCEPT !.state = "requested", !.maxRooms = n]
<1>1. new \in Worker
  BY DEF NoWorker, Worker, WorkerPhases, Ages, Calm, Metrics
<1>2. t = [s EXCEPT !.workers[w] = new]
  BY DEF AddWorker
<1>3. t \in State
  <2> HIDE DEF new
  <2> QED BY <1>1, <1>2 DEF Good, State
<1>4. RoomsServed(t)
  <2> HIDE DEF new
  <2> QED BY <1>1, <1>2 DEF Good, State, Allocation, RoomsServed, InProgress, Phase, WorkerPhase,
        ServingPhases
<1> QED BY <1>3, <1>4 DEF Good

\* stopped() and lost() fail the rooms of the workers they give up.
LEMMA CloseGood ==
  ASSUME NEW s, Good(s), NEW D, NEW phase \in Down
  PROVE  Good(Close(s, D, phase))
<1> DEFINE t == Close(s, D, phase)
           failing == {a \in Allocs : InProgress(s, a) /\ s.allocations[a].worker \in D}
           u == Finish(s, failing, "failed")
<1>1. Good(u)
  BY FinishGood DEF TerminalPhases
<1>2. u.workers = s.workers /\ u.commands = s.commands
  BY DEF Finish, Leave, Good, State
<1>3. t.allocations = u.allocations
  BY DEF Close, Good, State, Finish, Leave
<1>4. t \in State
  <2>1. \A w \in Workers : [s.workers[w] EXCEPT !.state = phase, !.ready = FALSE] \in Worker
    BY WorkerClosed DEF Good, State, Down, WorkerPhases
  <2> QED BY <1>1, <1>2, <2>1 DEF Close, Good, State, Finish
<1>5. \A a \in Allocs : InProgress(t, a) =>
        InProgress(s, a) /\ t.allocations[a].worker = s.allocations[a].worker
                         /\ s.allocations[a].worker \notin D
  BY DEF Close, Finish, Leave, InProgress, Phase, Good, State, Allocation,
     InProgressPhases, WaitingPhases
<1>6. \A w \in Workers : w \notin D => WorkerPhase(t, w) = WorkerPhase(s, w)
  BY DEF Close, WorkerPhase, Finish, Leave, Good, State
<1>7. RoomsServed(t)
  BY <1>4, <1>5, <1>6 DEF RoomsServed, Good, State, Allocation
<1> QED BY <1>4, <1>7 DEF Good

\* A worker that does not serve has no rooms.
LEMMA NoRooms ==
  ASSUME NEW s, Good(s), NEW w \in Workers, WorkerPhase(s, w) \notin ServingPhases
  PROVE  Rooms(s, w) = {}
BY DEF Good, RoomsServed, Rooms

-----------------------------------------------------------------------------
(* The phases of the lease transaction.                                    *)

\* The first phase of Tick: only a worker without rooms becomes unknown, and the lost lose their rooms.
LEMMA AgeWorkersGood ==
  ASSUME NEW s, Good(s), NEW interrupted \in SUBSET Starting(s)
  PROVE  Good(AgeWorkers(s, interrupted))
<1> DEFINE ending  == {w \in Workers : WorkerPhase(s, w) = "ready" /\ s.workers[w].ending}
           drained == BeginDrain(s, ending)
           silent  == {w \in Workers : /\ WorkerPhase(drained, w) = "ready"
                                       /\ s.workers[w].heartbeat # "fresh"}
           gone    == {w \in Workers : /\ Exists(s, w) /\ WorkerPhase(s, w) \notin Down
                                       /\ s.workers[w].heartbeat = "gone"}
           marked  == SetPhase(drained, interrupted, "unknown")
           quiet   == SetPhase(marked, silent, "suspect")
<1>1. Good(drained)
  BY BeginDrainGood
<1>2. \A w \in interrupted : w \in Workers /\ WorkerPhase(drained, w) = "starting"
  BY DEF Starting, BeginDrain, WorkerPhase, Good, State
<1>3. Good(marked)
  <2> HIDE DEF drained
  <2>1. \A w \in interrupted \cap Workers : Rooms(drained, w) = {}
    BY <1>1, <1>2, NoRooms DEF ServingPhases
  <2> QED BY <1>1, <2>1, SetPhaseGood DEF WorkerPhases
<1>4. Good(quiet)
  <2> HIDE DEF marked, silent
  <2> QED BY <1>3, SetPhaseGood DEF WorkerPhases, ServingPhases
<1>5. Good(Lost(quiet, gone))
  <2> HIDE DEF quiet, gone
  <2> QED BY <1>4, CloseGood DEF Lost, Down
<1> QED BY <1>5 DEF AgeWorkers

\* Expiry is a cancel of what is overdue or lost its preferred worker.
LEMMA ExpireAllocationsGood ==
  ASSUME NEW s, Good(s), NEW overdue \in SUBSET Expirable(s)
  PROVE  Good(ExpireAllocations(s, overdue))
<1>1. Orphans(s) \cup overdue \in SUBSET Allocs
  BY DEF Orphans, Expirable
<1> QED BY <1>1, CancelGood DEF ExpireAllocations, Reasons

\* Only allocations that are over are forgotten.
LEMMA PruneAllocationsGood ==
  ASSUME NEW s, Good(s), NEW old \in SUBSET Finished(s)
  PROVE  Good(PruneAllocations(s, old))
<1> DEFINE t == PruneAllocations(s, old)
           gone == [NoAllocation EXCEPT !.state = "pruned"]
<1>1. gone \in Allocation /\ gone.worker = None
  BY DEF NoAllocation, NoSessions, Allocation, SessionPhases, AllocPhases, Reasons
<1>2. t = [s EXCEPT !.allocations = [a \in Allocs |-> IF a \in old THEN gone ELSE s.allocations[a]]]
  BY DEF PruneAllocations
<1>3. t \in State
  <2> HIDE DEF gone
  <2> QED BY <1>1, <1>2 DEF Good, State
<1>4. RoomsServed(t)
  <2> HIDE DEF gone
  <2> QED BY <1>1, <1>2 DEF Good, State, RoomsServed, InProgress, Phase, WorkerPhase
<1> QED BY <1>3, <1>4 DEF Good

\* Only workers that no allocation in progress names are forgotten.
LEMMA PruneWorkersGood ==
  ASSUME NEW s, Good(s), NEW old \in SUBSET Retired(s)
  PROVE  Good(PruneWorkers(s, old))
<1> DEFINE t == PruneWorkers(s, old)
           gone == [NoWorker EXCEPT !.state = "pruned"]
           W == [w \in Workers |-> IF w \in old THEN gone ELSE s.workers[w]]
           K == {k \in s.commands : k.worker \notin old}
<1>1. gone \in Worker
  <2>1. NoWorker \in Worker
    BY DEF NoWorker, Worker, WorkerPhases, Ages, Calm, Metrics
  <2> QED BY <2>1, WorkerState DEF WorkerPhases
<1>2. W \in [Workers -> Worker] /\ \A w \in Workers \ old : W[w] = s.workers[w]
  BY <1>1 DEF Good, State
<1>3. t = [s EXCEPT !.workers = W, !.commands = K]
  BY DEF PruneWorkers
<1>4. t \in State
  <2> HIDE DEF W
  <2> QED BY <1>2, <1>3 DEF Good, State
<1>5. \A a \in Allocs : InProgress(s, a) => s.allocations[a].worker \notin old
  BY DEF Retired
<1>6. RoomsServed(t)
  <2> HIDE DEF W, K
  <2> QED BY <1>2, <1>3, <1>5 DEF Good, State, Allocation, RoomsServed, InProgress, Phase, WorkerPhase
<1> QED BY <1>4, <1>6 DEF Good

\* Prepared rooms on eligible workers are assigned where they are.
LEMMA AssignPreparedGood ==
  ASSUME NEW s, Good(s)
  PROVE  Good(AssignPrepared(s))
BY ReserveGood DEF AssignPrepared

\* Waiting requests are bound to eligible workers, and those serve.
LEMMA PlaceGood ==
  ASSUME NEW s, Good(s), NEW f \in Placements(s)
  PROVE  Good(Place(s, f))
<1> DEFINE t == Place(s, f)
           placed == {a \in DOMAIN f : f[a] # None}
           A == [a \in Allocs |->
                    IF a \in placed
                    THEN [s.allocations[a] EXCEPT !.state = "preparing", !.worker = f[a]]
                    ELSE s.allocations[a]]
           W == [w \in Workers |->
                    IF \E a \in placed : f[a] = w THEN [s.workers[w] EXCEPT !.idle = FALSE]
                                                  ELSE s.workers[w]]
           K == s.commands \cup {PrepareCommand(f[a], a) : a \in placed}
<1>1. f \in [Waiting(s) -> Workers \cup {None}]
  BY DEF Placements
<1>2. \A a \in placed : /\ a \in Allocs /\ f[a] \in Workers
                        /\ Eligible(s, f[a])
  BY <1>1 DEF Placements, Waiting
<1>3. A \in [Allocs -> Allocation]
  BY <1>2, AllocationPlaced DEF Good, State
<1>4. \A r \in Worker : [r EXCEPT !.idle = FALSE] \in Worker /\ [r EXCEPT !.idle = FALSE].state = r.state
  BY DEF Worker
<1>5. W \in [Workers -> Worker] /\ \A w \in Workers : W[w].state = s.workers[w].state
  BY <1>4 DEF Good, State
<1>6. K \in SUBSET Command
  BY <1>2 DEF Good, State, Command, PrepareCommand, CommandTypes
<1>7. t = [s EXCEPT !.allocations = A, !.workers = W, !.commands = K]
  BY DEF Place
<1>8. t \in State
  <2> HIDE DEF A, W, K
  <2> QED BY <1>3, <1>5, <1>6, <1>7 DEF Good, State
<1>9. RoomsServed(t)
  <2> SUFFICES ASSUME NEW a \in Allocs, InProgress(t, a), t.allocations[a].worker # None
               PROVE  WorkerPhase(t, t.allocations[a].worker) \in ServingPhases
    BY DEF RoomsServed
  <2>1. t.allocations[a] = A[a] /\ \A w \in Workers : WorkerPhase(t, w) = WorkerPhase(s, w)
    <3> HIDE DEF A, W, K
    <3> QED BY <1>5, <1>7 DEF Good, State, WorkerPhase
  <2>2. CASE a \in placed
    <3>1. t.allocations[a].worker = f[a]
      BY <2>1, <2>2, <1>2 DEF Good, State, Allocation
    <3>2. WorkerPhase(s, f[a]) = "ready"
      BY <1>2, <2>2 DEF Eligible, WorkerPhase
    <3> QED BY <2>1, <2>2, <1>2, <3>1, <3>2 DEF ServingPhases
  <2>3. CASE a \notin placed
    <3>1. t.allocations[a] = s.allocations[a]
      BY <2>1, <2>3
    <3>2. InProgress(s, a) /\ s.allocations[a].worker \in Workers
      BY <3>1 DEF InProgress, Phase, Good, State, Allocation
    <3> QED BY <3>1, <3>2, <2>1 DEF Good, RoomsServed
  <2> QED BY <2>2, <2>3
<1> QED BY <1>8, <1>9 DEF Good

\* Scale-out adds a worker or nothing.
LEMMA ScaleOutGood ==
  ASSUME NEW s, Good(s), NEW t \in ScaleOut(s)
  PROVE  Good(t)
<1>1. MaxRooms \in 1 .. MaxRooms
  OBVIOUS
<1> QED BY <1>1, AddWorkerGood DEF ScaleOut

\* Only a drained worker without rooms is moved to stopping.
LEMMA ScaleInGood ==
  ASSUME NEW s, Good(s), NEW surplus \in DrainChoices(s)
  PROVE  Good(ScaleIn(s, surplus))
<1> DEFINE W == [w \in Workers |->
                    IF w \in Serving(s) THEN [s.workers[w] EXCEPT !.idle = Rooms(s, w) = {}]
                                        ELSE s.workers[w]]
           clocked == [s EXCEPT !.workers = W]
           leaving == {w \in Workers : WorkerPhase(s, w) = "draining" /\ Drained(s, w)}
           drained == BeginDrain(clocked, surplus)
<1>1. \A r \in Worker : \A b \in BOOLEAN : [r EXCEPT !.idle = b] \in Worker
                                            /\ [r EXCEPT !.idle = b].state = r.state
  BY DEF Worker
<1>2. W \in [Workers -> Worker] /\ \A w \in Workers : W[w].state = s.workers[w].state
  BY <1>1 DEF Good, State
<1>3. Good(clocked) /\ clocked.allocations = s.allocations
  <2> HIDE DEF W
  <2> QED BY <1>2 DEF Good, State, Allocation, RoomsServed, InProgress, Phase, WorkerPhase
<1>4. surplus \in SUBSET Workers
  BY DEF DrainChoices, Surplus, Serving
<1>5. Good(drained) /\ drained.allocations = s.allocations
  <2> HIDE DEF clocked
  <2>1. Good(drained)
    BY <1>3, <1>4, BeginDrainGood
  <2> QED BY <2>1, <1>3 DEF BeginDrain, Good, State
<1>6. \A w \in leaving : Rooms(drained, w) = {}
  BY <1>5 DEF Drained, Rooms, InProgress, Phase
<1>7. Good(SetPhase(drained, leaving, "stopping"))
  <2> HIDE DEF drained, leaving
  <2> QED BY <1>5, <1>6, SetPhaseGood DEF WorkerPhases
<1> QED BY <1>7 DEF ScaleIn

-----------------------------------------------------------------------------
(* The heartbeat and the answers of the provider.                          *)

\* One worker changes: it keeps its phase, serves afterwards, or has no rooms.
LEMMA WorkerChanged ==
  ASSUME NEW s, Good(s), NEW w \in Workers, NEW r \in Worker,
         r.state = WorkerPhase(s, w) \/ r.state \in ServingPhases \/ Rooms(s, w) = {}
  PROVE  Good([s EXCEPT !.workers[w] = r])
<1> DEFINE t == [s EXCEPT !.workers[w] = r]
<1>1. t \in State
  BY DEF Good, State
<1>2. t.allocations = s.allocations /\ \A v \in Workers :
        WorkerPhase(t, v) = IF v = w THEN r.state ELSE WorkerPhase(s, v)
  BY DEF Good, State, WorkerPhase
<1>3. RoomsServed(t)
  <2> HIDE DEF t
  <2> QED BY <1>2 DEF Good, State, Allocation, RoomsServed, InProgress, Phase, Rooms
<1> QED BY <1>1, <1>3 DEF Good

\* A heartbeat moves a worker to ready or draining, or leaves its phase.
LEMMA ObserveGood ==
  ASSUME NEW s, Good(s), NEW w \in Workers, NEW ready \in BOOLEAN, NEW metrics \in Metrics
  PROVE  Good(Observe(s, w, ready, metrics))
<1> DEFINE worker == s.workers[w]
           serving == worker.host /\ ready /\ worker.state \notin Unmoved
           phase == IF ~serving THEN worker.state
                    ELSE IF worker.draining THEN "draining" ELSE "ready"
           r == [worker EXCEPT !.heartbeat = "fresh", !.ready = ready, !.metrics = metrics,
                               !.state = phase]
<1>1. worker \in Worker
  BY DEF Good, State
<1>2. phase \in WorkerPhases /\ (phase = worker.state \/ phase \in ServingPhases)
  BY <1>1 DEF Worker, WorkerPhases, ServingPhases
<1>3. r \in Worker /\ r.state = phase
  <2> HIDE DEF phase, worker
  <2> QED BY <1>1, <1>2 DEF Worker, Ages
<1>4. Observe(s, w, ready, metrics) = [s EXCEPT !.workers[w] = r]
  BY DEF Observe
<1> QED
  <2> HIDE DEF r, phase
  <2> QED BY <1>2, <1>3, <1>4, WorkerChanged DEF WorkerPhase

\* The rooms in a phase for which a command of a type is in K.
RoomsOf(s, K, type, phase) ==
    {a \in Allocs : Phase(s, a) = phase /\ \E k \in K : k.type = type /\ k.alloc = a}

RefusedRooms(s, w, acks, late) ==
    IF s.workers[w].draining THEN RoomsOf(s, acks, "prepare_room", "preparing")
                             ELSE RoomsOf(s, acks \cap late, "prepare_room", "preparing")

\* What Acknowledge does, as the chain of the states its steps leave behind.
AckChain(s, w, acks, late, nacks, opened, done, prepared, assigned, freed, released) ==
    LET cleaned  == RoomsOf(s, acks, "cancel_room", "cancelling")
        byPlayer == {a \in cleaned : s.allocations[a].reason = "cancelled"}
        ack      == s.workers[w].drainAck \/ DrainCommand(w) \in acks
    IN  /\ opened = RoomsOf(s, acks, "prepare_room", "preparing") \ RefusedRooms(s, w, acks, late)
        /\ done = [s EXCEPT !.commands = s.commands \ (acks \cup nacks),
                            !.workers[w] = [s.workers[w] EXCEPT !.drainAck = ack]]
        /\ prepared = Leave(done, opened, "prepared", "none")
        /\ assigned = IF Eligible(s, w) THEN Reserve(prepared, opened) ELSE prepared
        /\ freed = Finish(assigned, byPlayer, "cancelled")
        /\ released = Finish(freed, cleaned \ byPlayer, "expired")
        /\ Acknowledge(s, w, acks, late, nacks) =
                Cancel(released, RefusedRooms(s, w, acks, late)
                                    \cup RoomsOf(s, nacks, "prepare_room", "preparing"), "other")
        /\ Good(done) /\ Good(prepared) /\ Good(assigned) /\ Good(freed) /\ Good(released)

LEMMA AcknowledgeSteps ==
  ASSUME NEW s, Good(s), NEW w \in Workers, NEW acks, NEW late, NEW nacks
  PROVE  \E opened, done, prepared, assigned, freed, released :
            AckChain(s, w, acks, late, nacks, opened, done, prepared, assigned, freed, released)
<1> DEFINE opened   == RoomsOf(s, acks, "prepare_room", "preparing") \ RefusedRooms(s, w, acks, late)
           cleaned  == RoomsOf(s, acks, "cancel_room", "cancelling")
           byPlayer == {a \in cleaned : s.allocations[a].reason = "cancelled"}
           ack      == s.workers[w].drainAck \/ DrainCommand(w) \in acks
           r        == [s.workers[w] EXCEPT !.drainAck = ack]
           told     == [s EXCEPT !.workers[w] = r]
           K        == s.commands \ (acks \cup nacks)
           done     == [told EXCEPT !.commands = K]
           prepared == Leave(done, opened, "prepared", "none")
           assigned == IF Eligible(s, w) THEN Reserve(prepared, opened) ELSE prepared
           freed    == Finish(assigned, byPlayer, "cancelled")
           released == Finish(freed, cleaned \ byPlayer, "expired")
           failing  == RefusedRooms(s, w, acks, late) \cup RoomsOf(s, nacks, "prepare_room", "preparing")
<1>1. r \in Worker /\ r.state = WorkerPhase(s, w)
  <2>1. ack \in BOOLEAN
    OBVIOUS
  <2>2. s.workers[w] \in Worker
    BY DEF Good, State
  <2> HIDE DEF ack
  <2> QED BY <2>1, <2>2 DEF Worker, WorkerPhase
<1>2. Good(told) /\ told.commands = s.commands /\ told.allocations = s.allocations
  <2> HIDE DEF r
  <2> QED BY <1>1, WorkerChanged DEF Good, State
<1>3. Good(done) /\ done.allocations = s.allocations
  <2>1. K \in SUBSET Command
    BY DEF Good, State
  <2> HIDE DEF told, K
  <2> QED BY <1>2, <2>1, CommandsGood
<1>4. opened \subseteq {a \in Allocs : InProgress(done, a)}
  <2> HIDE DEF done
  <2> QED BY <1>3 DEF RoomsOf, InProgress, Phase, InProgressPhases, WaitingPhases
<1>5. Good(prepared)
  <2> HIDE DEF done, opened
  <2> QED BY <1>3, <1>4, LeaveGood DEF AllocPhases, InProgressPhases, WaitingPhases, Reasons
<1>6. Good(assigned)
  <2> HIDE DEF prepared, opened
  <2> QED BY <1>5, ReserveGood
<1>7. Good(freed)
  <2> HIDE DEF assigned, byPlayer
  <2> QED BY <1>6, FinishGood DEF TerminalPhases
<1>8. Good(released)
  <2> HIDE DEF freed, byPlayer, cleaned
  <2> QED BY <1>7, FinishGood DEF TerminalPhases
<1>9. done = [s EXCEPT !.commands = K, !.workers[w] = r]
  BY DEF Good, State
<1>10. Acknowledge(s, w, acks, late, nacks) = Cancel(released, failing, "other")
  <2>1. done = [s EXCEPT !.commands = K, !.workers[w].drainAck = ack]
    BY DEF Good, State
  <2> QED BY <2>1 DEF Acknowledge, RoomsOf, RefusedRooms
<1>11. AckChain(s, w, acks, late, nacks, opened, done, prepared, assigned, freed, released)
  <2>1. /\ prepared = Leave(done, opened, "prepared", "none")
        /\ assigned = IF Eligible(s, w) THEN Reserve(prepared, opened) ELSE prepared
        /\ freed = Finish(assigned, byPlayer, "cancelled")
        /\ released = Finish(freed, cleaned \ byPlayer, "expired")
    OBVIOUS
  <2> HIDE DEF done, prepared, assigned, freed, released
  <2> QED BY <1>3, <1>5, <1>6, <1>7, <1>8, <1>9, <1>10, <2>1 DEF AckChain
<1> HIDE DEF opened, done, prepared, assigned, freed, released
<1> QED BY <1>11

\* The results of commands move rooms and leave the phases of workers alone.
LEMMA AcknowledgeGood ==
  ASSUME NEW s, Good(s), NEW w \in Workers, NEW acks, NEW late, NEW nacks
  PROVE  /\ Good(Acknowledge(s, w, acks, late, nacks))
         /\ SameFleet(s, Acknowledge(s, w, acks, late, nacks))
<1>1. PICK opened, done, prepared, assigned, freed, released :
        AckChain(s, w, acks, late, nacks, opened, done, prepared, assigned, freed, released)
  BY AcknowledgeSteps
<1> DEFINE failing == RefusedRooms(s, w, acks, late) \cup RoomsOf(s, nacks, "prepare_room", "preparing")
<1>2. failing \in SUBSET Allocs
  BY DEF RefusedRooms, RoomsOf
<1>3. SameFleet(s, done)
  <2> DEFINE ack == s.workers[w].drainAck \/ DrainCommand(w) \in acks
             r == [s.workers[w] EXCEPT !.drainAck = ack]
             K == s.commands \ (acks \cup nacks)
  <2>1. s.workers[w] \in Worker /\ done = [s EXCEPT !.commands = K, !.workers[w] = r]
    BY <1>1 DEF Good, State, AckChain
  <2>2. r.state = s.workers[w].state
    BY <2>1 DEF Worker
  <2> HIDE DEF r, K
  <2> QED BY <2>1, <2>2 DEF SameFleet, WorkerPhase, Good, State
<1>4. SameFleet(s, prepared)
  <2>1. Good(done) /\ prepared = Leave(done, opened, "prepared", "none")
    BY <1>1 DEF AckChain
  <2> QED BY <1>3, <2>1, LeaveSame DEF SameFleet
<1>5. SameFleet(s, assigned)
  <2>1. Good(prepared) /\ assigned \in {Reserve(prepared, opened), prepared}
    BY <1>1 DEF AckChain
  <2> QED BY <1>4, <2>1, ReserveSame DEF SameFleet
<1>6. SameFleet(s, freed)
  <2>1. Good(assigned) /\ (\E D : freed = Finish(assigned, D, "cancelled"))
    BY <1>1 DEF AckChain
  <2> QED BY <1>5, <2>1, LeaveSame DEF Finish, SameFleet
<1>7. SameFleet(s, released)
  <2>1. Good(freed) /\ (\E D : released = Finish(freed, D, "expired"))
    BY <1>1 DEF AckChain
  <2> QED BY <1>6, <2>1, LeaveSame DEF Finish, SameFleet
<1>8. Good(Cancel(released, failing, "other"))
  BY <1>1, <1>2, CancelGood DEF AckChain, Reasons
<1>9. SameFleet(s, Cancel(released, failing, "other"))
  <2> HIDE DEF failing
  <2>1. Good(released)
    BY <1>1 DEF AckChain
  <2> QED BY <1>7, <2>1, CancelSame DEF SameFleet
<1>10. Acknowledge(s, w, acks, late, nacks) = Cancel(released, failing, "other")
  BY <1>1 DEF AckChain
<1> QED BY <1>8, <1>9, <1>10

\* What a report makes of a session is a session.
LEMMA SessionTyped ==
  ASSUME NEW phase \in SessionPhases, NEW here \in BOOLEAN
  PROVE  Session(phase, here) \in SessionPhases
BY DEF Session, SessionPhases

\* An allocation keeps its players, its key and its worker; an assigned one may become active.
Untouched(p, q) ==
    /\ q.users = p.users /\ q.key = p.key /\ q.worker = p.worker
    /\ q # p => p.state \in {"assigned", "active"} /\ q.state \in {p.state, "active"}

\* What ReportRooms does: it counts the players, updates the open rooms and ends
\* the closed ones.
ReportChain(s, w, report, seen, over) ==
    /\ \A a \in Allocs : Untouched(s.allocations[a], seen.allocations[a])
    /\ over \subseteq {a \in Allocs : InProgress(s, a) /\ Phase(seen, a) = Phase(s, a)}
    /\ \A a \in over : Phase(s, a) \in {"assigned", "active"}
    /\ \E b \in BOOLEAN : seen.workers = [s.workers EXCEPT ![w] = [s.workers[w] EXCEPT !.players = b]]
    /\ seen.commands = s.commands /\ seen.leader = s.leader
    /\ Good(seen)
    /\ ReportRooms(s, w, report) = Finish(seen, over, "completed")

LEMMA ReportSteps ==
  ASSUME NEW s, Good(s), NEW w \in Workers, NEW report
  PROVE  \E seen, over : ReportChain(s, w, report, seen, over)
<1> DEFINE open == {a \in Rooms(s, w) : report[a].phase \in {"open", "playing"}}
           held == {a \in Rooms(s, w) : Phase(s, a) \in {"assigned", "active"}}
           over == {a \in held : report[a].phase = "closed"}
           Seats(a) == [u \in Users |->
                           IF u \in s.allocations[a].users
                           THEN Session(s.allocations[a].sessions[u], u \in report[a].users)
                           ELSE "none"]
           Playing(a) == IF report[a].phase = "playing" THEN "active" ELSE s.allocations[a].state
           A == [a \in Allocs |->
                    IF a \in open \cap held
                    THEN [s.allocations[a] EXCEPT !.sessions = Seats(a), !.state = Playing(a)]
                    ELSE s.allocations[a]]
           some == \E a \in open : report[a].users # {}
           r == [s.workers[w] EXCEPT !.players = some]
           counted == [s EXCEPT !.workers[w] = r]
           seen == [counted EXCEPT !.allocations = A]
<1>1. r \in Worker /\ r.state = WorkerPhase(s, w)
  <2>1. some \in BOOLEAN
    OBVIOUS
  <2>2. s.workers[w] \in Worker
    BY DEF Good, State
  <2> HIDE DEF some
  <2> QED BY <2>1, <2>2 DEF Worker, WorkerPhase
<1>2. Good(counted) /\ counted.allocations = s.allocations
  <2> HIDE DEF r
  <2> QED BY <1>1, WorkerChanged DEF Good, State
<1>3. \A a \in Allocs : Seats(a) \in [Users -> SessionPhases]
  <2> SUFFICES ASSUME NEW a \in Allocs, NEW u \in Users
               PROVE  Session(s.allocations[a].sessions[u], u \in report[a].users) \in SessionPhases
                      /\ "none" \in SessionPhases
    OBVIOUS
  <2>1. s.allocations[a].sessions[u] \in SessionPhases
    BY DEF Good, State, Allocation
  <2>2. (u \in report[a].users) \in BOOLEAN
    OBVIOUS
  <2> QED BY <2>1, <2>2, SessionTyped DEF SessionPhases
<1>4. /\ \A a \in held : a \in Allocs /\ InProgress(s, a)
      /\ \A a \in over : Phase(s, a) \in {"assigned", "active"}
  BY DEF Rooms
<1>5. \A a \in Allocs : Playing(a) \in AllocPhases
  BY DEF Good, State, Allocation, AllocPhases, InProgressPhases
<1>6. A \in [Allocs -> Allocation]
  <2>1. \A a \in Allocs :
          [s.allocations[a] EXCEPT !.sessions = Seats(a), !.state = Playing(a)] \in Allocation
    <3> HIDE DEF Seats, Playing
    <3>1. \A a \in Allocs : s.allocations[a] \in Allocation
      BY DEF Good, State
    <3>2. \A q \in Allocation, seats \in [Users -> SessionPhases], phase \in AllocPhases :
            [q EXCEPT !.sessions = seats, !.state = phase] \in Allocation
      BY DEF Allocation
    <3> QED BY <1>3, <1>5, <3>1, <3>2
  <2> HIDE DEF Seats, Playing, open, held
  <2> QED BY <2>1 DEF Good, State
<1>7. \A a \in Allocs : Untouched(s.allocations[a], A[a])
                        /\ (A[a].state \in InProgressPhases => InProgress(s, a))
                        /\ (a \in over => InProgress(s, a) /\ A[a].state = s.allocations[a].state)
  <2> SUFFICES ASSUME NEW a \in Allocs
               PROVE  Untouched(s.allocations[a], A[a])
                      /\ (A[a].state \in InProgressPhases => InProgress(s, a))
                      /\ (a \in over => InProgress(s, a) /\ A[a].state = s.allocations[a].state)
    OBVIOUS
  <2>0. s.allocations[a] \in Allocation
    BY DEF Good, State
  <2>1. CASE a \in open \cap held
    <3>1. Playing(a) \in {"active", s.allocations[a].state} /\ a \notin over
          /\ s.allocations[a].state \in {"assigned", "active"}
      BY <2>1 DEF Phase
    <3>2. A[a] = [s.allocations[a] EXCEPT !.sessions = Seats(a), !.state = Playing(a)]
          /\ InProgress(s, a)
      BY <1>4, <2>1
    <3> HIDE DEF Seats, Playing, over, A
    <3>3. /\ A[a].users = s.allocations[a].users /\ A[a].key = s.allocations[a].key
          /\ A[a].worker = s.allocations[a].worker /\ A[a].state = Playing(a)
      BY <2>0, <3>2 DEF Allocation
    <3>4. Untouched(s.allocations[a], A[a])
      BY <3>1, <3>3 DEF Untouched
    <3> QED BY <3>1, <3>2, <3>4
  <2>2. CASE a \notin open \cap held
    <3>1. a \in over => InProgress(s, a)
      BY <1>4
    <3>2. A[a] = s.allocations[a]
      BY <2>2
    <3> HIDE DEF A, over
    <3>3. Untouched(s.allocations[a], A[a])
      BY <3>2 DEF Untouched
    <3>4. A[a].state \in InProgressPhases => InProgress(s, a)
      BY <3>2 DEF InProgress, Phase
    <3> QED BY <3>1, <3>2, <3>3, <3>4
  <2> QED BY <2>1, <2>2
<1>8. Good(seen)
  <2> HIDE DEF A
  <2>1. seen \in State
    <3> HIDE DEF counted
    <3> QED BY <1>2, <1>6 DEF Good, State
  <2>2. \A v \in Workers : WorkerPhase(seen, v) = WorkerPhase(s, v)
    <3> HIDE DEF r
    <3> QED BY <1>1 DEF Good, State, WorkerPhase
  <2>3. seen.allocations = A
    <3> HIDE DEF counted
    <3> QED BY <1>2 DEF Good, State
  <2> HIDE DEF seen
  <2> QED BY <1>7, <2>1, <2>2, <2>3 DEF Good, State, Allocation, RoomsServed, InProgress, Phase, Untouched
<1>9. /\ seen.commands = s.commands /\ seen.leader = s.leader /\ seen.allocations = A
      /\ seen.workers = [s.workers EXCEPT ![w] = [s.workers[w] EXCEPT !.players = some]]
      /\ some \in BOOLEAN
  BY DEF Good, State
<1>10. seen = [s EXCEPT !.allocations = A, !.workers[w].players = some]
  BY DEF Good, State
<1>11. ReportRooms(s, w, report) = Finish(seen, over, "completed")
  BY <1>10 DEF ReportRooms
<1> HIDE DEF seen, over, A, some
<1>12. over \subseteq {a \in Allocs : InProgress(s, a) /\ Phase(seen, a) = Phase(s, a)}
  BY <1>4, <1>7, <1>9 DEF Phase, over
<1>13. ReportChain(s, w, report, seen, over)
  BY <1>4, <1>7, <1>8, <1>9, <1>11, <1>12 DEF ReportChain
<1> QED BY <1>13

\* The rooms an agent reports stay on its worker or end.
LEMMA ReportRoomsGood ==
  ASSUME NEW s, Good(s), NEW w \in Workers, NEW report
  PROVE  Good(ReportRooms(s, w, report)) /\ SameFleet(s, ReportRooms(s, w, report))
<1>1. PICK seen, over : ReportChain(s, w, report, seen, over)
  BY ReportSteps
<1>2. SameFleet(s, seen)
  <2>1. PICK b \in BOOLEAN :
          seen.workers = [s.workers EXCEPT ![w] = [s.workers[w] EXCEPT !.players = b]]
    BY <1>1 DEF ReportChain
  <2>2. [s.workers[w] EXCEPT !.players = b].state = s.workers[w].state
    BY DEF Good, State, Worker
  <2> QED BY <1>1, <2>1, <2>2 DEF ReportChain, SameFleet, WorkerPhase, Good, State
<1>3. Good(seen) /\ ReportRooms(s, w, report) = Finish(seen, over, "completed")
  BY <1>1 DEF ReportChain
<1>4. Good(Finish(seen, over, "completed")) /\ SameFleet(seen, Finish(seen, over, "completed"))
  BY <1>3, FinishGood, LeaveSame DEF TerminalPhases, Finish
<1> QED BY <1>2, <1>3, <1>4 DEF SameFleet

\* The block on creation concerns no record.
LEMMA Blocked ==
  ASSUME NEW s, Good(s), NEW b \in BOOLEAN
  PROVE  Good([s EXCEPT !.blocked = b])
BY DEF Good, State, RoomsServed, InProgress, Phase, WorkerPhase

\* A machine too short-lived is stopped only while it boots, without rooms.
LEMMA LifetimeGood ==
  ASSUME NEW s, Good(s), NEW w \in Workers, NEW short \in BOOLEAN
  PROVE  Good(Lifetime(s, w, short))
<1>1. CASE short
  <2> DEFINE phase == IF s.workers[w].state \in {"launching", "bootstrapping"} THEN "stopping"
                                                                       ELSE s.workers[w].state
             r == [s.workers[w] EXCEPT !.state = phase]
             t == [s EXCEPT !.workers[w] = r]
  <2>1. s.workers[w] \in Worker /\ phase \in WorkerPhases
    BY DEF Good, State, Worker, WorkerPhases
  <2>2. phase = WorkerPhase(s, w) \/ Rooms(s, w) = {}
    BY NoRooms DEF WorkerPhase, ServingPhases
  <2>3. r \in Worker /\ r.state = phase
    <3> HIDE DEF phase
    <3> QED BY <2>1 DEF Worker
  <2>4. Good(t)
    <3> HIDE DEF r, phase
    <3> QED BY <2>2, <2>3, WorkerChanged
  <2>5. Good([t EXCEPT !.blocked = TRUE])
    <3> HIDE DEF t
    <3> QED BY <2>4, Blocked
  <2>6. Lifetime(s, w, short) = [t EXCEPT !.blocked = TRUE]
    BY <1>1 DEF Lifetime, Good, State
  <2> QED BY <2>5, <2>6
<1>2. CASE ~short
  BY <1>2 DEF Lifetime
<1> QED BY <1>1, <1>2

\* A running machine makes its worker serve or boot.
LEMMA ServeGood ==
  ASSUME NEW s, Good(s), NEW w \in Workers
  PROVE  Good(Serve(s, w))
<1> DEFINE worker == s.workers[w]
           phase == IF worker.ready /\ worker.boot /\ worker.heartbeat = "fresh"
                    THEN IF worker.draining THEN "draining" ELSE "ready"
                    ELSE IF worker.state \in {"launching", "bootstrapping"} THEN "bootstrapping"
                    ELSE IF worker.draining THEN worker.state ELSE "suspect"
           r == [worker EXCEPT !.host = TRUE, !.state = phase]
<1>1. worker \in Worker /\ phase \in WorkerPhases
  BY DEF Good, State, Worker, WorkerPhases
<1>2. phase = WorkerPhase(s, w) \/ phase \in ServingPhases \/ Rooms(s, w) = {}
  BY NoRooms DEF WorkerPhase, ServingPhases
<1>3. r \in Worker /\ r.state = phase
  <2> HIDE DEF phase, worker
  <2> QED BY <1>1 DEF Worker
<1>4. Serve(s, w) = [s EXCEPT !.workers[w] = r]
  BY DEF Serve
<1> QED
  <2> HIDE DEF r, phase
  <2> QED BY <1>2, <1>3, <1>4, WorkerChanged

PollAnswers == {"error", "missing", "foreign", "launching", "running", "portless", "stopped"}
PostAnswers == {"unknown", "rejected", "misconfigured", "created"}

\* Every answer to GET leaves the rooms on serving workers: it stops only workers without rooms or fails their rooms.
LEMMA PollGood ==
  ASSUME NEW s, Good(s), NEW w \in Workers, NEW reply, reply.short \in BOOLEAN, reply.status \in PollAnswers,
         NEW overdue \in BOOLEAN
  PROVE  Good(Poll(s, w, reply, overdue))
<1> DEFINE t == Lifetime(s, w, reply.short)
<1>1. Good(t)
  BY LifetimeGood
<1>2. CASE reply.status = "error"
  BY <1>2 DEF Poll
<1>3. CASE reply.status = "missing"
  BY <1>3, CloseGood DEF Poll, Stopped, Down
<1>4. CASE reply.status = "foreign"
  BY <1>4, CloseGood DEF Poll, Lost, Down
<1>5. CASE reply.status \in {"launching", "running", "portless", "stopped"}
  <2> HIDE DEF t
  <2>1. Good(Stopped(t, {w}))
    BY <1>1, CloseGood DEF Stopped, Down
  <2>2. ASSUME WorkerPhase(t, w) \in {"launching", "bootstrapping"}
        PROVE  Good(SetPhase(t, {w}, "stopping"))
    BY <1>1, <2>2, NoRooms, SetPhaseGood DEF ServingPhases, WorkerPhases
  <2>3. Good(Serve(t, w))
    BY <1>1, ServeGood
  <2>4. Poll(s, w, reply, overdue) \in
          {t, Stopped(t, {w}), Serve(t, w)} \cup
          (IF WorkerPhase(t, w) \in {"launching", "bootstrapping"} THEN {SetPhase(t, {w}, "stopping")}
                                                                   ELSE {})
    BY <1>5 DEF Poll, t
  <2> QED BY <1>1, <2>1, <2>2, <2>3, <2>4
<1> QED BY <1>2, <1>3, <1>4, <1>5 DEF PollAnswers

\* A machine found in the list belongs to a worker without rooms.
LEMMA AdoptGood ==
  ASSUME NEW s, Good(s), NEW w \in Workers, WorkerPhase(s, w) \notin ServingPhases
  PROVE  Good(Adopt(s, w))
<1> DEFINE r == [s.workers[w] EXCEPT !.provider = TRUE, !.state = "launching"]
<1>1. r \in Worker
  <2>1. s.workers[w] \in Worker
    BY DEF Good, State
  <2> QED BY <2>1 DEF Worker, WorkerPhases
<1>2. Adopt(s, w) = [s EXCEPT !.workers[w] = r]
  BY DEF Adopt, Good, State
<1> QED
  <2> HIDE DEF r
  <2> QED BY <1>1, <1>2, NoRooms, WorkerChanged

\* Every outcome of the create call concerns a worker without rooms.
LEMMA CreatedGood ==
  ASSUME NEW s, Good(s), NEW w \in Workers, WorkerPhase(s, w) \notin ServingPhases,
         NEW reply, reply.short \in BOOLEAN, reply.status \in PostAnswers
  PROVE  Good(Created(s, w, reply))
<1>1. \A phase \in WorkerPhases : Good(SetPhase(s, {w}, phase))
  BY NoRooms, SetPhaseGood
<1>2. CASE reply.status = "unknown"
  BY <1>1, <1>2 DEF Created, WorkerPhases
<1>3. CASE reply.status = "rejected"
  BY <1>1, <1>3 DEF Created, WorkerPhases
<1>4. CASE reply.status = "misconfigured"
  <2>1. Good(SetPhase(s, {w}, "failed"))
    BY <1>1 DEF WorkerPhases
  <2> QED BY <1>4, <2>1, Blocked DEF Created
<1>5. CASE reply.status = "created"
  <2>1. Good(Adopt(s, w))
    BY AdoptGood
  <2>2. Created(s, w, reply) = Lifetime(Adopt(s, w), w, reply.short)
    BY <1>5 DEF Created, Adopt
  <2> QED BY <2>1, <2>2, LifetimeGood
<1> QED BY <1>2, <1>3, <1>4, <1>5 DEF PostAnswers

USE InputsAssumption

-----------------------------------------------------------------------------
(* The inductive invariant.  What a step of a tick assumes of its worker   *)
(* is true while its process leads: a transaction of another process takes *)
(* the lease away, and what clients and agents do keeps the phases that    *)
(* the steps rely on.                                                      *)

Formed(k) ==
    /\ k.pc \notin {"idle", "ticked"} => k.worker \in Workers
    /\ k.pc = "got" => k.reply.status \in PollAnswers
    /\ k.pc = "posted" => k.reply.status \in PostAnswers

Fits(s, k) ==
    LET phase == WorkerPhase(s, k.worker) IN
    /\ k.pc = "picked" /\ k.op = "poll" => phase \in Polled
    /\ k.pc \in {"posting", "awaiting", "posted"} => phase = "starting"
    /\ k.pc = "got" => phase \in Polled
    /\ k.pc \in {"deleting", "deleted", "confirmed"} => phase = "stopping"

IInv == /\ TypeOK
        /\ RoomsServed(store)
        /\ \A c \in Controllers : Formed(ctl[c]) /\ (Leads(c) => Fits(store, ctl[c]))

\* The leader stays, and so do the phases that Fits speaks of.
Keeps(s, t) ==
    /\ t.leader = s.leader
    /\ \A w \in Workers :
        /\ WorkerPhase(s, w) \in {"starting", "stopping"} => WorkerPhase(t, w) = WorkerPhase(s, w)
        /\ WorkerPhase(s, w) \in Polled => WorkerPhase(t, w) \in Polled

\* A step that writes only the store, and keeps what the ticks under way assume.
LEMMA CommitStep ==
  ASSUME IInv, Good(store'), Keeps(store, store'), UNCHANGED <<cloud, ctl>>
  PROVE  IInv'
<1>1. TypeOK' /\ RoomsServed(store)'
  BY DEF IInv, TypeOK, Good
<1>2. ASSUME NEW c \in Controllers
      PROVE  Formed(ctl[c])' /\ (Leads(c)' => Fits(store, ctl[c])')
  <2>1. Formed(ctl[c]) /\ (Leads(c) => Fits(store, ctl[c]))
    BY DEF IInv
  <2> QED BY <2>1 DEF Keeps, Formed, Fits, Leads
<1> QED BY <1>1, <1>2 DEF IInv

\* A step of the tick of c.
Moved(c) == /\ ctl' \in [Controllers -> Control]
            /\ \A d \in Controllers \ {c} : ctl'[d] = ctl[d]

\* A step of the tick of c that leaves the store alone while c leads, or makes c the leader.
LEMMA ControlStep ==
  ASSUME IInv, NEW c \in Controllers, Moved(c), Formed(ctl'[c]), Good(store'),
         cloud' \in [Workers -> Machines],
         \/ store' = store /\ (Leads(c) => Fits(store, ctl'[c]))
         \/ store'.leader = c /\ Fits(store', ctl'[c])
  PROVE  IInv'
<1>1. TypeOK' /\ RoomsServed(store)'
  BY DEF Moved, TypeOK, Good
<1>2. ASSUME NEW d \in Controllers
      PROVE  Formed(ctl[d])' /\ (Leads(d)' => Fits(store, ctl[d])')
  <2>1. CASE d = c
    BY <2>1 DEF Leads
  <2>2. CASE d # c
    <3>1. ctl'[d] = ctl[d] /\ Formed(ctl[d]) /\ (Leads(d) => Fits(store, ctl[d]))
      BY <2>2 DEF Moved, IInv
    <3> QED BY <2>2, <3>1 DEF Leads
  <2> QED BY <2>1, <2>2
<1> QED BY <1>1, <1>2 DEF IInv

\* The record of a process that moves on.
LEMMA GotoMoves ==
  ASSUME TypeOK, NEW c \in Controllers, NEW pc \in Steps, Goto(c, pc)
  PROVE  Moved(c) /\ ctl'[c] = [ctl[c] EXCEPT !.pc = pc]
<1>1. [ctl[c] EXCEPT !.pc = pc] \in Control
  BY DEF TypeOK, Control
<1> QED BY <1>1 DEF TypeOK, Goto, Moved

\* The record of a process that hears an answer.
LEMMA HearMoves ==
  ASSUME TypeOK, NEW c \in Controllers, NEW pc \in Steps, NEW status \in Statuses,
         NEW short \in BOOLEAN, Hear(c, pc, status, short)
  PROVE  /\ Moved(c) /\ ctl'[c].pc = pc /\ ctl'[c].worker = ctl[c].worker
         /\ ctl'[c].reply.status = status
<1> DEFINE answer == [status |-> status, short |-> short]
           k == [ctl[c] EXCEPT !.pc = pc, !.reply = answer]
<1>1. answer \in Reply /\ answer.status = status
  BY DEF Reply
<1>2. k \in Control /\ k.pc = pc /\ k.worker = ctl[c].worker /\ k.reply = answer
  <2> HIDE DEF answer
  <2> QED BY <1>1 DEF TypeOK, Control
<1>3. ctl' = [ctl EXCEPT ![c] = k]
  BY DEF Hear, TypeOK
<1>4. Moved(c) /\ ctl'[c] = k
  <2> HIDE DEF k
  <2> QED BY <1>2, <1>3 DEF TypeOK, Moved
<1> QED BY <1>1, <1>2, <1>4

\* The record of a process whose tick ends.
LEMMA ReturnMoves ==
  ASSUME TypeOK, NEW c \in Controllers, Return(c)
  PROVE  /\ Moved(c) /\ ctl'[c] = Idle
         /\ Formed(ctl'[c]) /\ \A s : Fits(s, ctl'[c])
<1>1. Idle \in Control
  BY DEF Idle, Control, Steps, Operations, Reply, NoReply, Statuses
<1>2. Moved(c) /\ ctl'[c] = Idle
  BY <1>1 DEF TypeOK, Return, Moved
<1> QED BY <1>2 DEF Idle, Formed, Fits

\* What every step takes from the invariant.
LEMMA IInvUse ==
  ASSUME IInv
  PROVE  TypeOK /\ Good(store) /\ cloud \in [Workers -> Machines]
BY DEF IInv, TypeOK, Good

\* A tick that ends without writing the store.
LEMMA ReturnStep ==
  ASSUME IInv, NEW c \in Controllers, Return(c), store' = store, cloud' \in [Workers -> Machines]
  PROVE  IInv'
BY IInvUse, ReturnMoves, ControlStep

\* A tick that ends with a transaction that requires the lease.
LEMMA WriteStep ==
  ASSUME IInv, NEW c \in Controllers, Return(c), Good(store'),
         store' = store \/ store'.leader = c, cloud' \in [Workers -> Machines]
  PROVE  IInv'
BY IInvUse, ReturnMoves, ControlStep


-----------------------------------------------------------------------------
(* Clients, agents, time and the provider.                                 *)

\* Steps that leave the phases alone keep those the ticks rely on.
LEMMA SameKeeps ==
  ASSUME NEW s, NEW t, SameFleet(s, t)
  PROVE  Keeps(s, t)
BY DEF SameFleet, Keeps

\* One worker changes without disturbing a tick.
LEMMA WorkerKept ==
  ASSUME NEW s, Good(s), NEW w \in Workers, NEW r \in Worker,
         \/ r.state = WorkerPhase(s, w)
         \/ WorkerPhase(s, w) \notin Polled \cup {"starting", "stopping"}
         \/ WorkerPhase(s, w) \in Polled /\ r.state \in Polled
  PROVE  Keeps(s, [s EXCEPT !.workers[w] = r])
<1> DEFINE t == [s EXCEPT !.workers[w] = r]
<1>1. t.leader = s.leader /\ \A v \in Workers :
        WorkerPhase(t, v) = IF v = w THEN r.state ELSE WorkerPhase(s, v)
  BY DEF Good, State, WorkerPhase
<1>2. ASSUME NEW v \in Workers
      PROVE  /\ WorkerPhase(s, v) \in {"starting", "stopping"} => WorkerPhase(t, v) = WorkerPhase(s, v)
             /\ WorkerPhase(s, v) \in Polled => WorkerPhase(t, v) \in Polled
  <2> HIDE DEF t
  <2>1. CASE v = w
    BY <1>1, <2>1 DEF Polled
  <2>2. CASE v # w
    BY <1>1, <2>2
  <2> QED BY <2>1, <2>2
<1>5. Keeps(s, t)
  <2> HIDE DEF t
  <2> QED BY <1>1, <1>2 DEF Keeps
<1> QED BY <1>5

\* A field of a worker other than its phase.
LEMMA FieldGood ==
  ASSUME NEW s, Good(s), NEW w \in Workers, NEW r \in Worker, r.state = WorkerPhase(s, w)
  PROVE  Good([s EXCEPT !.workers[w] = r]) /\ Keeps(s, [s EXCEPT !.workers[w] = r])
BY WorkerChanged, WorkerKept

\* A new allocation does not touch the workers.
LEMMA AddAllocationSame ==
  ASSUME NEW s, Good(s), NEW a \in Allocs, NEW users, NEW key, NEW preferred
  PROVE  SameFleet(s, AddAllocation(s, a, users, key, preferred))
BY DEF Good, State, AddAllocation, SameFleet, WorkerPhase

\* A tick never relies on an absent worker.
LEMMA AddWorkerKeeps ==
  ASSUME NEW s, Good(s), NEW w \in Workers, WorkerPhase(s, w) = "absent", NEW n \in 1 .. MaxRooms
  PROVE  Keeps(s, AddWorker(s, w, n))
<1>1. [NoWorker EXCEPT !.state = "requested", !.maxRooms = n] \in Worker
  BY DEF NoWorker, Worker, WorkerPhases, Ages, Calm, Metrics
<1> QED BY <1>1, WorkerKept DEF AddWorker, Polled

\* A worker that may be drained stays one that is polled.
LEMMA DrainKeeps ==
  ASSUME NEW s, Good(s), NEW w \in Workers, Drainable(s, w)
  PROVE  Keeps(s, BeginDrain(s, {w}))
<1> DEFINE t == BeginDrain(s, {w})
<1>1. t.leader = s.leader
  BY DEF BeginDrain, Good, State
<1>2. ASSUME NEW v \in Workers
      PROVE  \/ WorkerPhase(t, v) = WorkerPhase(s, v)
             \/ v = w /\ WorkerPhase(t, v) = "draining"
  <2>1. s.workers[v] \in Worker
    BY DEF Good, State
  <2>2. t.workers[v] \in {s.workers[v], [s.workers[v] EXCEPT !.draining = TRUE, !.state = "draining"]}
        /\ (v # w => t.workers[v] = s.workers[v])
    BY DEF BeginDrain, Good, State
  <2> HIDE DEF t
  <2> QED BY <2>1, <2>2 DEF WorkerPhase, Worker
<1>3. ASSUME NEW v \in Workers
      PROVE  /\ WorkerPhase(s, v) \in {"starting", "stopping"} => WorkerPhase(t, v) = WorkerPhase(s, v)
             /\ WorkerPhase(s, v) \in Polled => WorkerPhase(t, v) \in Polled
  <2> HIDE DEF t
  <2> QED BY <1>2 DEF Drainable, Polled
<1> QED BY <1>1, <1>3 DEF Keeps

\* A heartbeat never takes a worker out of starting or stopping.
LEMMA ObserveKeeps ==
  ASSUME NEW s, Good(s), NEW w \in Workers, WorkerPhase(s, w) \notin Down,
         NEW ready \in BOOLEAN, NEW metrics \in Metrics
  PROVE  Keeps(s, Observe(s, w, ready, metrics))
<1> DEFINE t == Observe(s, w, ready, metrics)
<1>1. t.leader = s.leader
  BY DEF Observe, Good, State
<1>2. \A v \in Workers \ {w} : WorkerPhase(t, v) = WorkerPhase(s, v)
  BY DEF Observe, Good, State, WorkerPhase
<1>3. \/ WorkerPhase(t, w) = WorkerPhase(s, w)
      \/ WorkerPhase(s, w) \notin Unmoved /\ WorkerPhase(t, w) \in {"ready", "draining"}
  BY DEF Observe, Good, State, Worker, WorkerPhase
<1>4. ASSUME NEW v \in Workers
      PROVE  /\ WorkerPhase(s, v) \in {"starting", "stopping"} => WorkerPhase(t, v) = WorkerPhase(s, v)
             /\ WorkerPhase(s, v) \in Polled => WorkerPhase(t, v) \in Polled
  <2> HIDE DEF t
  <2>1. CASE v = w
    BY <1>3, <2>1 DEF Unmoved, Polled
  <2>2. CASE v # w
    BY <1>2, <2>2
  <2> QED BY <2>1, <2>2
<1>5. Keeps(s, t)
  <2> HIDE DEF t
  <2> QED BY <1>1, <1>4 DEF Keeps
<1> QED BY <1>5

\* The transaction of a heartbeat keeps a state good.
LEMMA HeartbeatGood ==
  ASSUME NEW s, Good(s), NEW w \in Workers, NEW ready \in BOOLEAN, NEW metrics \in Metrics,
         NEW acks, NEW late, NEW nacks, NEW report
  PROVE  Good(HeartbeatTx(s, w, ready, metrics, acks, late, nacks, report))
BY ObserveGood, AcknowledgeGood, ReportRoomsGood DEF HeartbeatTx

\* The transaction of a heartbeat does not disturb a tick.
LEMMA HeartbeatKeeps ==
  ASSUME NEW s, Good(s), NEW w \in Workers, WorkerPhase(s, w) \notin Down,
         NEW ready \in BOOLEAN, NEW metrics \in Metrics, NEW acks, NEW late, NEW nacks, NEW report
  PROVE  Keeps(s, HeartbeatTx(s, w, ready, metrics, acks, late, nacks, report))
<1> DEFINE observed == Observe(s, w, ready, metrics)
           answered == Acknowledge(observed, w, acks, late, nacks)
<1>1. Good(observed) /\ Keeps(s, observed)
  BY ObserveGood, ObserveKeeps
<1>2. Good(answered) /\ SameFleet(observed, answered)
  <2> HIDE DEF observed
  <2> QED BY <1>1, AcknowledgeGood
<1>3. SameFleet(answered, ReportRooms(answered, w, report))
  <2> HIDE DEF answered
  <2> QED BY <1>2, ReportRoomsGood
<1> HIDE DEF observed, answered
<1> QED BY <1>1, <1>2, <1>3 DEF HeartbeatTx, Keeps, SameFleet, observed, answered

\* The calls of clients.
LEMMA ClientStep ==
  ASSUME IInv, Client
  PROVE  IInv'
<1>0. Good(store)
  BY IInvUse
<1>1. ASSUME NEW users \in Pairs, NEW key \in Keys, Allocate(users, key)
      PROVE  IInv'
  <2>1. PICK a \in Allocs : Commit(AddAllocation(store, a, users, key, None))
    BY <1>1 DEF Allocate
  <2> QED BY <1>0, <2>1, AddAllocationGood, AddAllocationSame, SameKeeps, CommitStep DEF Commit
<1>2. ASSUME NEW a \in Allocs, CancelByPlayer(a)
      PROVE  IInv'
  BY <1>0, <1>2, CancelGood, CancelSame, SameKeeps, CommitStep DEF CancelByPlayer, Commit, Reasons
<1>3. ASSUME NEW a \in Allocs, Join(a)
      PROVE  IInv'
  BY <1>0, <1>3, ReserveGood, ReserveSame, SameKeeps, CommitStep DEF Join, Commit
<1>4. ASSUME NEW w \in Workers, NEW n \in Capacities, Create(w, n)
      PROVE  IInv'
  BY <1>0, <1>4, AddWorkerGood, AddWorkerKeeps, CommitStep DEF Create, Commit
<1>5. ASSUME NEW w \in Workers, NEW n \in Capacities, NEW users \in Pairs, CreateWithUsers(w, n, users)
      PROVE  IInv'
  <2> DEFINE t == AddWorker(store, w, n)
  <2>1. Good(t) /\ Keeps(store, t)
    BY <1>0, <1>5, AddWorkerGood, AddWorkerKeeps DEF CreateWithUsers
  <2>2. PICK a \in Allocs : Commit(AddAllocation(t, a, users, w, w))
    BY <1>5 DEF CreateWithUsers
  <2>3. Good(AddAllocation(t, a, users, w, w)) /\ SameFleet(t, AddAllocation(t, a, users, w, w))
    <3> HIDE DEF t
    <3> QED BY <2>1, AddAllocationGood, AddAllocationSame
  <2>4. Good(store') /\ Keeps(store, store') /\ UNCHANGED <<cloud, ctl>>
    <3> HIDE DEF t
    <3> QED BY <2>1, <2>2, <2>3 DEF Commit, Keeps, SameFleet
  <2> QED BY <2>4, CommitStep
<1>6. ASSUME NEW w \in Workers, Delete(w) \/ Drain(w)
      PROVE  IInv'
  BY <1>0, <1>6, BeginDrainGood, DrainKeeps, CommitStep DEF Delete, Drain, Commit
<1>7. ASSUME NEW w \in Workers, NEW some \in Posted, PostPlayers(w, some)
      PROVE  IInv'
  <2> DEFINE r == [store.workers[w] EXCEPT !.players = some]
  <2>1. r \in Worker /\ r.state = WorkerPhase(store, w)
    <3>1. store.workers[w] \in Worker /\ some \in BOOLEAN
      BY <1>0 DEF Good, State
    <3> QED BY <3>1 DEF Worker, WorkerPhase
  <2>2. store' = [store EXCEPT !.workers[w] = r] /\ UNCHANGED <<cloud, ctl>>
    BY <1>7 DEF PostPlayers, Commit
  <2> HIDE DEF r
  <2> QED BY <1>0, <2>1, <2>2, FieldGood, CommitStep
<1>8. ASSUME RetryCreation
      PROVE  IInv'
  <2>1. Good(store') /\ UNCHANGED <<cloud, ctl>>
    BY <1>0, <1>8, Blocked DEF RetryCreation, Commit
  <2>2. Keeps(store, store')
    BY <1>0, <1>8 DEF RetryCreation, Commit, Good, State, Keeps, WorkerPhase
  <2> QED BY <2>1, <2>2, CommitStep
<1> QED BY <1>1, <1>2, <1>3, <1>4, <1>5, <1>6, <1>7, <1>8 DEF Client

\* The requests of agents.
LEMMA AgentStep ==
  ASSUME IInv, Agent
  PROVE  IInv'
<1>0. Good(store)
  BY IInvUse
<1>1. ASSUME NEW w \in Workers, Bootstrap(w)
      PROVE  IInv'
  <2> DEFINE r == [store.workers[w] EXCEPT !.boot = TRUE]
  <2>1. r \in Worker /\ r.state = WorkerPhase(store, w)
    <3>1. store.workers[w] \in Worker
      BY <1>0 DEF Good, State
    <3> QED BY <3>1 DEF Worker, WorkerPhase
  <2>2. store' = [store EXCEPT !.workers[w] = r] /\ UNCHANGED <<cloud, ctl>>
    BY <1>1 DEF Bootstrap, Commit
  <2> HIDE DEF r
  <2> QED BY <1>0, <2>1, <2>2, FieldGood, CommitStep
<1>2. ASSUME NEW w \in Workers, Heartbeat(w)
      PROVE  IInv'
  <2>1. PICK ready \in BOOLEAN, metrics \in Readings, acks \in SUBSET Pending(store, w),
             report \in Reports(store, w) :
          \E late \in SUBSET acks, nacks \in SUBSET Pending(store, w) :
            Commit(HeartbeatTx(store, w, ready, metrics, acks, late, nacks, report))
    BY <1>2 DEF Heartbeat
  <2>2. PICK late \in SUBSET acks, nacks \in SUBSET Pending(store, w) :
          Commit(HeartbeatTx(store, w, ready, metrics, acks, late, nacks, report))
    BY <2>1
  <2>3. metrics \in Metrics /\ WorkerPhase(store, w) \notin Down
    BY <1>2 DEF Heartbeat
  <2>4. Good(store') /\ Keeps(store, store') /\ UNCHANGED <<cloud, ctl>>
    BY <1>0, <2>2, <2>3, HeartbeatGood, HeartbeatKeeps DEF Commit
  <2> QED BY <2>4, CommitStep
<1> QED BY <1>1, <1>2 DEF Agent

\* The passing of time.
LEMMA TimeStep ==
  ASSUME IInv, Time
  PROVE  IInv'
<1>0. Good(store)
  BY IInvUse
<1>1. ASSUME NEW w \in Workers, HeartbeatAges(w)
      PROVE  IInv'
  <2> DEFINE age == IF store.workers[w].heartbeat = "fresh" THEN "stale" ELSE "gone"
             r == [store.workers[w] EXCEPT !.heartbeat = age]
  <2>1. r \in Worker /\ r.state = WorkerPhase(store, w)
    <3>1. store.workers[w] \in Worker /\ age \in Ages
      BY <1>0 DEF Good, State, Ages
    <3> HIDE DEF age
    <3> QED BY <3>1 DEF Worker, WorkerPhase
  <2>2. store' = [store EXCEPT !.workers[w] = r] /\ UNCHANGED <<cloud, ctl>>
    BY <1>0, <1>1 DEF HeartbeatAges, Commit, Good, State, Worker
  <2> HIDE DEF r
  <2> QED BY <1>0, <2>1, <2>2, FieldGood, CommitStep
<1>2. ASSUME NEW w \in Workers, LifetimeEnds(w)
      PROVE  IInv'
  <2> DEFINE r == [store.workers[w] EXCEPT !.ending = TRUE]
  <2>1. r \in Worker /\ r.state = WorkerPhase(store, w)
    <3>1. store.workers[w] \in Worker
      BY <1>0 DEF Good, State
    <3> QED BY <3>1 DEF Worker, WorkerPhase
  <2>2. store' = [store EXCEPT !.workers[w] = r] /\ UNCHANGED <<cloud, ctl>>
    BY <1>2 DEF LifetimeEnds, Commit
  <2> HIDE DEF r
  <2> QED BY <1>0, <2>1, <2>2, FieldGood, CommitStep
<1> QED BY <1>1, <1>2 DEF Time

\* What the provider does writes neither the store nor a tick.
LEMMA ProviderStep ==
  ASSUME IInv, Provider
  PROVE  IInv'
<1>1. store' = store /\ ctl' = ctl
  BY DEF Provider, Land, Run, Halt, Machine
<1>2. cloud' \in [Workers -> Machines]
  BY IInvUse DEF Provider, Land, Run, Halt, Machine, Machines
<1> QED BY <1>1, <1>2 DEF IInv, TypeOK, Leads


-----------------------------------------------------------------------------
(* The tick.                                                               *)

\* The lease transaction of c as the chain of the states its phases leave behind.
TickChain(c, aged, expired, pruned, trimmed, assigned, placed, scaled, last) ==
    /\ \E interrupted \in SUBSET Starting(store) : aged = AgeWorkers(store, interrupted)
    /\ \E overdue \in SUBSET Expirable(aged) : expired = ExpireAllocations(aged, overdue)
    /\ \E history \in SUBSET Finished(expired) : pruned = PruneAllocations(expired, history)
    /\ \E retired \in SUBSET Retired(pruned) : trimmed = PruneWorkers(pruned, retired)
    /\ assigned = AssignPrepared(trimmed)
    /\ \E f \in Placements(assigned) : placed = Place(assigned, f)
    /\ scaled \in ScaleOut(placed)
    /\ \E surplus \in DrainChoices(scaled) : last = ScaleIn(scaled, surplus)
    /\ Good(aged) /\ Good(expired) /\ Good(pruned) /\ Good(trimmed) /\ Good(assigned)
    /\ Good(placed) /\ Good(scaled) /\ Good(last)
    /\ store' = [last EXCEPT !.leader = c]

\* Every phase starts from a good state.
LEMMA TickPhases ==
  ASSUME NEW c \in Controllers, Good(store), TickTx(c)
  PROVE  \E aged, expired, pruned, trimmed, assigned, placed, scaled, last :
            TickChain(c, aged, expired, pruned, trimmed, assigned, placed, scaled, last)
<1>1. PICK interrupted \in SUBSET Starting(store) :
       LET aged == AgeWorkers(store, interrupted) IN
       \E overdue \in SUBSET Expirable(aged) :
       LET expired == ExpireAllocations(aged, overdue) IN
       \E history \in Old(Finished(expired)) :
       LET pruned == PruneAllocations(expired, history) IN
       \E retired \in Old(Retired(pruned)) :
       LET tidy == AssignPrepared(PruneWorkers(pruned, retired)) IN
       \E f \in Placements(tidy) :
       \E scaled \in ScaleOut(Place(tidy, f)) :
       \E surplus \in DrainChoices(scaled) :
            store' = [ScaleIn(scaled, surplus) EXCEPT !.leader = c]
  BY DEF TickTx
<1> DEFINE aged == AgeWorkers(store, interrupted)
<1>2. Good(aged) /\ \E i \in SUBSET Starting(store) : aged = AgeWorkers(store, i)
  BY AgeWorkersGood
<1> HIDE DEF aged
<1>3. PICK overdue \in SUBSET Expirable(aged) :
       LET expired == ExpireAllocations(aged, overdue) IN
       \E history \in Old(Finished(expired)) :
       LET pruned == PruneAllocations(expired, history) IN
       \E retired \in Old(Retired(pruned)) :
       LET tidy == AssignPrepared(PruneWorkers(pruned, retired)) IN
       \E f \in Placements(tidy) :
       \E scaled \in ScaleOut(Place(tidy, f)) :
       \E surplus \in DrainChoices(scaled) :
            store' = [ScaleIn(scaled, surplus) EXCEPT !.leader = c]
  BY <1>1 DEF aged
<1> DEFINE expired == ExpireAllocations(aged, overdue)
<1>4. Good(expired) /\ \E o \in SUBSET Expirable(aged) : expired = ExpireAllocations(aged, o)
  BY <1>2, ExpireAllocationsGood
<1> HIDE DEF expired
<1>5. PICK history \in Old(Finished(expired)) :
       LET pruned == PruneAllocations(expired, history) IN
       \E retired \in Old(Retired(pruned)) :
       LET tidy == AssignPrepared(PruneWorkers(pruned, retired)) IN
       \E f \in Placements(tidy) :
       \E scaled \in ScaleOut(Place(tidy, f)) :
       \E surplus \in DrainChoices(scaled) :
            store' = [ScaleIn(scaled, surplus) EXCEPT !.leader = c]
  BY <1>3 DEF expired
<1> DEFINE pruned == PruneAllocations(expired, history)
<1>6. Good(pruned) /\ \E h \in SUBSET Finished(expired) : pruned = PruneAllocations(expired, h)
  <2>1. history \in SUBSET Finished(expired)
    BY DEF Old
  <2> QED BY <1>4, <2>1, PruneAllocationsGood
<1> HIDE DEF pruned
<1>7. PICK retired \in Old(Retired(pruned)) :
       LET tidy == AssignPrepared(PruneWorkers(pruned, retired)) IN
       \E f \in Placements(tidy) :
       \E scaled \in ScaleOut(Place(tidy, f)) :
       \E surplus \in DrainChoices(scaled) :
            store' = [ScaleIn(scaled, surplus) EXCEPT !.leader = c]
  BY <1>5 DEF pruned
<1> DEFINE trimmed == PruneWorkers(pruned, retired)
           assigned == AssignPrepared(trimmed)
<1>8. Good(trimmed) /\ \E r \in SUBSET Retired(pruned) : trimmed = PruneWorkers(pruned, r)
  <2>1. retired \in SUBSET Retired(pruned)
    BY DEF Old
  <2> QED BY <1>6, <2>1, PruneWorkersGood
<1> HIDE DEF trimmed
<1>9. Good(assigned) /\ assigned = AssignPrepared(trimmed)
  BY <1>8, AssignPreparedGood
<1> HIDE DEF assigned
<1>10. PICK f \in Placements(assigned) :
       \E scaled \in ScaleOut(Place(assigned, f)) :
       \E surplus \in DrainChoices(scaled) :
            store' = [ScaleIn(scaled, surplus) EXCEPT !.leader = c]
  BY <1>7 DEF assigned, trimmed
<1> DEFINE placed == Place(assigned, f)
<1>11. Good(placed) /\ \E g \in Placements(assigned) : placed = Place(assigned, g)
  BY <1>9, PlaceGood
<1> HIDE DEF placed
<1>12. PICK scaled \in ScaleOut(placed) :
       \E surplus \in DrainChoices(scaled) :
            store' = [ScaleIn(scaled, surplus) EXCEPT !.leader = c]
  BY <1>10 DEF placed
<1>13. PICK surplus \in DrainChoices(scaled) :
            store' = [ScaleIn(scaled, surplus) EXCEPT !.leader = c]
  BY <1>12
<1> DEFINE last == ScaleIn(scaled, surplus)
<1>14. Good(scaled) /\ Good(last) /\ \E d \in DrainChoices(scaled) : last = ScaleIn(scaled, d)
  BY <1>11, ScaleOutGood, ScaleInGood
<1>15. store' = [last EXCEPT !.leader = c]
  BY <1>13
<1> HIDE DEF last
<1>16. TickChain(c, aged, expired, pruned, trimmed, assigned, placed, scaled, last)
  BY <1>2, <1>4, <1>6, <1>8, <1>9, <1>11, <1>12, <1>14, <1>15 DEF TickChain
<1> QED BY <1>16

\* The lease transaction leaves a good state and makes its process the leader.
LEMMA TickGood ==
  ASSUME NEW c \in Controllers, Good(store), TickTx(c)
  PROVE  Good(store') /\ store'.leader = c
<1>1. PICK last : Good(last) /\ store' = [last EXCEPT !.leader = c]
  BY TickPhases DEF TickChain
<1> QED BY <1>1 DEF Good, State, RoomsServed, InProgress, Phase, WorkerPhase

\* The steps of a tick before its provider operation.
LEMMA LeaseStep ==
  ASSUME IInv, NEW c \in Controllers, TickTx(c) \/ Pick(c) \/ PickNone(c) \/ Refused(c) \/ Crash(c)
  PROVE  IInv'
<1>0. TypeOK /\ Good(store) /\ cloud \in [Workers -> Machines]
  BY IInvUse
<1>1. CASE TickTx(c)
  <2>1. Good(store') /\ store'.leader = c
    BY <1>0, <1>1, TickGood
  <2>2. Moved(c) /\ ctl'[c].pc = "ticked"
    <3>1. Moved(c) /\ ctl'[c] = [ctl[c] EXCEPT !.pc = "ticked"]
      BY <1>0, <1>1, GotoMoves DEF TickTx, Steps
    <3> QED BY <1>0, <3>1 DEF TypeOK, Control
  <2>3. Formed(ctl'[c]) /\ Fits(store', ctl'[c])
    BY <2>2 DEF Formed, Fits
  <2>4. cloud' = cloud
    BY <1>1 DEF TickTx
  <2> QED BY <1>0, <2>1, <2>2, <2>3, <2>4, ControlStep
<1>2. CASE Pick(c)
  <2>1. PICK w \in Workers :
          ctl' = [ctl EXCEPT ![c].pc = "picked", ![c].worker = w, ![c].op = OperationFor(w)]
    BY <1>2 DEF Pick
  <2> DEFINE op == OperationFor(w)
             k == [ctl[c] EXCEPT !.pc = "picked", !.worker = w, !.op = op]
  <2>2. op \in Operations /\ (op = "poll" => WorkerPhase(store, w) \in Polled)
    BY DEF OperationFor, Operations
  <2>3. k \in Control /\ k.pc = "picked" /\ k.worker = w /\ k.op = op
    <3> HIDE DEF op
    <3> QED BY <1>0, <2>2 DEF TypeOK, Control, Steps
  <2>4. ctl' = [ctl EXCEPT ![c] = k]
    <3> HIDE DEF op
    <3> QED BY <1>0, <2>1 DEF TypeOK, op
  <2>5. Moved(c) /\ ctl'[c] = k
    <3> HIDE DEF k
    <3> QED BY <1>0, <2>3, <2>4 DEF TypeOK, Moved
  <2>6. Formed(k) /\ Fits(store, k)
    <3> HIDE DEF k, op
    <3> QED BY <2>2, <2>3 DEF Formed, Fits
  <2>7. store' = store /\ cloud' = cloud
    BY <1>2 DEF Pick
  <2> HIDE DEF k
  <2> QED BY <1>0, <2>5, <2>6, <2>7, ControlStep
<1>3. CASE PickNone(c) \/ Refused(c) \/ Crash(c)
  <2>1. Return(c) /\ store' = store /\ cloud' = cloud
    BY <1>3 DEF PickNone, Refused, Crash
  <2> QED BY <1>0, <2>1, ReturnStep
<1> QED BY <1>1, <1>2, <1>3

\* A step that only moves c from one point of its operation to the next.
LEMMA GotoStep ==
  ASSUME IInv, NEW c \in Controllers, NEW pc \in Steps, Goto(c, pc),
         pc \notin {"picked", "got", "posted"}, ctl[c].pc \notin {"idle", "ticked"},
         store' = store, cloud' \in [Workers -> Machines],
         Leads(c) => \/ /\ pc \in {"deleting", "deleted", "confirmed"}
                        /\ WorkerPhase(store, ctl[c].worker) = "stopping"
                     \/ /\ pc \in {"posting", "awaiting"}
                        /\ WorkerPhase(store, ctl[c].worker) = "starting"
  PROVE  IInv'
<1>0. TypeOK /\ Good(store)
  BY IInvUse
<1>1. Moved(c) /\ ctl'[c].pc = pc /\ ctl'[c].worker = ctl[c].worker
  <2>1. Moved(c) /\ ctl'[c] = [ctl[c] EXCEPT !.pc = pc]
    BY <1>0, GotoMoves
  <2> QED BY <1>0, <2>1 DEF TypeOK, Control
<1>2. Formed(ctl[c])
  BY DEF IInv
<1>3. Formed(ctl'[c]) /\ (Leads(c) => Fits(store, ctl'[c]))
  BY <1>1, <1>2 DEF Formed, Fits
<1> QED BY <1>0, <1>1, <1>3, ControlStep

\* A step in which c hears the answer of a provider call.
LEMMA HearStep ==
  ASSUME IInv, NEW c \in Controllers, NEW pc \in Steps, NEW status \in Statuses,
         NEW short \in BOOLEAN, Hear(c, pc, status, short),
         \/ pc = "listed"
         \/ pc = "posted" /\ status \in PostAnswers
         \/ pc = "got" /\ status \in PollAnswers
         \/ pc = "confirmed",
         ctl[c].pc \notin {"idle", "ticked"}, store' = store, cloud' \in [Workers -> Machines],
         Leads(c) => /\ pc = "posted" => WorkerPhase(store, ctl[c].worker) = "starting"
                     /\ pc = "got" => WorkerPhase(store, ctl[c].worker) \in Polled
                     /\ pc = "confirmed" => WorkerPhase(store, ctl[c].worker) = "stopping"
  PROVE  IInv'
<1>0. TypeOK /\ Good(store)
  BY IInvUse
<1>1. /\ Moved(c) /\ ctl'[c].pc = pc /\ ctl'[c].worker = ctl[c].worker
      /\ ctl'[c].reply.status = status
  BY <1>0, HearMoves
<1>2. Formed(ctl[c])
  BY DEF IInv
<1>3. Formed(ctl'[c]) /\ (Leads(c) => Fits(store, ctl'[c]))
  BY <1>1, <1>2 DEF Formed, Fits
<1> QED BY <1>0, <1>1, <1>3, ControlStep

\* start: the worker stays starting until its own process writes the outcome.
LEMMA StartStep ==
  ASSUME IInv, NEW c \in Controllers,
         StartBegin(c) \/ Post(c) \/ PostUnknown(c) \/ PostCreated(c) \/ PostRejected(c) \/ StartEnd(c)
  PROVE  IInv'
<1>0. TypeOK /\ Good(store) /\ cloud \in [Workers -> Machines]
  BY IInvUse
<1> DEFINE w == ctl[c].worker
<1>1. /\ ctl[c].pc \notin {"idle", "ticked"} => w \in Workers
      /\ ctl[c].pc = "posted" => ctl[c].reply.status \in PostAnswers
      /\ ctl[c].reply \in Reply
      /\ Leads(c) /\ ctl[c].pc \in {"posting", "awaiting", "posted"}
            => WorkerPhase(store, w) = "starting"
  BY DEF IInv, Formed, Fits, TypeOK, Control
<1> HIDE DEF w
<1>2. CASE StartBegin(c)
  <2>1. /\ At(c, "picked") /\ Leads(c) /\ WorkerPhase(store, w) = "requested" /\ w \in Workers
        /\ store' = SetPhase(store, {w}, "starting") /\ Goto(c, "posting") /\ cloud' = cloud
    BY <1>1, <1>2 DEF StartBegin, Dispatch, At, w
  <2>2. Good(store')
    BY <1>0, <2>1, NoRooms, SetPhaseGood DEF ServingPhases, WorkerPhases
  <2>3. store'.leader = c /\ WorkerPhase(store', w) = "starting"
    <3>1. store.workers[w] \in Worker
      BY <1>0, <2>1 DEF Good, State
    <3> QED BY <1>0, <2>1, <3>1 DEF SetPhase, Leads, Good, State, Worker, WorkerPhase
  <2>4. Moved(c) /\ ctl'[c].pc = "posting" /\ ctl'[c].worker = w
    <3>1. Moved(c) /\ ctl'[c] = [ctl[c] EXCEPT !.pc = "posting"]
      BY <1>0, <2>1, GotoMoves DEF Steps
    <3> QED BY <1>0, <3>1 DEF TypeOK, Control, w
  <2>5. Formed(ctl'[c]) /\ Fits(store', ctl'[c])
    BY <2>1, <2>3, <2>4 DEF Formed, Fits
  <2> QED BY <1>0, <2>1, <2>2, <2>3, <2>4, <2>5, ControlStep
<1>3. CASE Post(c)
  <2>1. At(c, "posting") /\ Goto(c, "awaiting") /\ store' = store
    BY <1>3 DEF Post
  <2>2. cloud' \in [Workers -> Machines]
    BY <1>0, <1>3 DEF Post, Machines
  <2> QED BY <1>1, <2>1, <2>2, GotoStep DEF At, Steps, w
<1>4. CASE PostUnknown(c)
  BY <1>0, <1>1, <1>4, HearStep DEF PostUnknown, At, Steps, Statuses, PostAnswers, w
<1>5. CASE PostCreated(c)
  BY <1>0, <1>1, <1>5, HearStep DEF PostCreated, At, Steps, Statuses, PostAnswers, w
<1>6. CASE PostRejected(c)
  <2>1. /\ At(c, "awaiting") /\ store' = store
        /\ \E status \in {"rejected", "misconfigured"} : Hear(c, "posted", status, FALSE)
    BY <1>6 DEF PostRejected
  <2>2. cloud' \in [Workers -> Machines]
    BY <1>0, <1>6 DEF PostRejected, Machines
  <2> QED BY <1>1, <2>1, <2>2, HearStep DEF At, Steps, Statuses, PostAnswers, w
<1>7. CASE StartEnd(c)
  <2>1. /\ At(c, "posted") /\ Return(c) /\ cloud' = cloud
        /\ store' = IF Leads(c) THEN Created(store, w, ctl[c].reply) ELSE store
    BY <1>7 DEF StartEnd, w
  <2>2. CASE Leads(c)
    <3>1. Good(store')
      BY <1>0, <1>1, <2>1, <2>2, CreatedGood DEF At, ServingPhases, Reply
    <3>2. store'.leader = c
      BY <1>0, <1>1, <2>1, <2>2 DEF At, Created, PostAnswers, SetPhase, Lifetime, Leads, Good, State
    <3> QED BY <1>0, <2>1, <3>1, <3>2, WriteStep
  <2>3. CASE ~Leads(c)
    BY <1>0, <2>1, <2>3, ReturnStep
  <2> QED BY <2>2, <2>3
<1> QED BY <1>2, <1>3, <1>4, <1>5, <1>6, <1>7

\* reconcileUnknown reads the worker again before it writes.
LEMMA ReconcileStep ==
  ASSUME IInv, NEW c \in Controllers, ListCall(c) \/ ReconcileEnd(c)
  PROVE  IInv'
<1>0. TypeOK /\ Good(store) /\ cloud \in [Workers -> Machines]
  BY IInvUse
<1>1. CASE ListCall(c)
  BY <1>0, <1>1, HearStep DEF ListCall, Dispatch, At, Steps, Statuses
<1>2. CASE ReconcileEnd(c)
  <2> DEFINE w == ctl[c].worker
  <2>1. At(c, "listed") /\ Return(c) /\ cloud' = cloud
    BY <1>2 DEF ReconcileEnd
  <2>2. w \in Workers
    BY <2>1 DEF IInv, Formed, At
  <2>3. CASE store' = store
    BY <1>0, <2>1, <2>3, ReturnStep
  <2>4. CASE Leads(c) /\ WorkerPhase(store, w) = "unknown" /\ store' = Adopt(store, w)
    <3>1. Good(store')
      BY <1>0, <2>2, <2>4, AdoptGood DEF ServingPhases
    <3>2. store'.leader = c
      BY <1>0, <2>4 DEF Adopt, Leads, Good, State
    <3> QED BY <1>0, <2>1, <3>1, <3>2, WriteStep
  <2> QED BY <1>2, <2>3, <2>4 DEF ReconcileEnd
<1> QED BY <1>1, <1>2


\* What GET can answer.
LEMMA GetHears ==
  ASSUME NEW c \in Controllers, NEW pc \in Steps, Get(c, pc)
  PROVE  \E status \in PollAnswers \cap Statuses, short \in BOOLEAN : Hear(c, pc, status, short)
<1>1. PICK status \in Answers(ctl[c].worker) \cup Misfortunes :
        \E short \in IF status \in {"error", "missing", "foreign"} THEN {FALSE} ELSE Terms :
            Hear(c, pc, status, short)
  BY DEF Get
<1>2. PICK short \in BOOLEAN : Hear(c, pc, status, short)
  BY <1>1
<1>3. status \in PollAnswers \cap Statuses
  BY DEF Answers, Misfortunes, PollAnswers, Statuses
<1> QED BY <1>2, <1>3

\* poll: the worker stays in a polled phase while the answer is on its way.
LEMMA PollStep ==
  ASSUME IInv, NEW c \in Controllers, GetCall(c) \/ PollEnd(c)
  PROVE  IInv'
<1>0. TypeOK /\ Good(store) /\ cloud \in [Workers -> Machines]
  BY IInvUse
<1>1. CASE GetCall(c)
  <2>1. /\ At(c, "picked") /\ ctl[c].op = "poll" /\ Leads(c) /\ Get(c, "got")
        /\ store' = store /\ cloud' = cloud
    BY <1>1 DEF GetCall, Dispatch
  <2>2. PICK status \in PollAnswers \cap Statuses, short \in BOOLEAN : Hear(c, "got", status, short)
    BY <2>1, GetHears DEF Steps
  <2>3. WorkerPhase(store, ctl[c].worker) \in Polled
    BY <2>1 DEF IInv, Fits, At
  <2> QED BY <1>0, <2>1, <2>2, <2>3, HearStep DEF At, Steps
<1>2. CASE PollEnd(c)
  <2> DEFINE w == ctl[c].worker
             reply == ctl[c].reply
  <2>1. At(c, "got") /\ Return(c) /\ cloud' = cloud
    BY <1>2 DEF PollEnd
  <2>2. w \in Workers /\ reply \in Reply /\ reply.status \in PollAnswers
    BY <2>1 DEF IInv, Formed, At, TypeOK, Control
  <2>3. PICK overdue \in BOOLEAN :
          store' = IF Leads(c) THEN Poll(store, w, reply, overdue) ELSE store
    BY <1>2 DEF PollEnd
  <2> HIDE DEF w, reply
  <2>4. CASE Leads(c)
    <3>1. Good(store')
      BY <1>0, <2>2, <2>3, <2>4, PollGood DEF Reply
    <3>2. store'.leader = c
      <4> DEFINE t == Lifetime(store, w, reply.short)
      <4>1. Good(t) /\ t.leader = store.leader
        <5>1. reply.short \in BOOLEAN
          BY <2>2 DEF Reply
        <5>2. Good(t)
          BY <1>0, <2>2, <5>1, LifetimeGood
        <5>3. t.leader = store.leader
          BY <1>0 DEF Lifetime, Good, State
        <5> QED BY <5>2, <5>3
      <4>2. \A s, phase : Good(s) => Close(s, {w}, phase).leader = s.leader
                                     /\ SetPhase(s, {w}, phase).leader = s.leader
                                     /\ Serve(s, w).leader = s.leader
        BY DEF Close, Finish, Leave, SetPhase, Serve, Good, State
      <4>3. Poll(store, w, reply, overdue) \in
              {store, t, Close(store, {w}, "stopped"), Close(store, {w}, "lost"),
               Close(t, {w}, "stopped"), SetPhase(t, {w}, "stopping"), Serve(t, w)}
        <5> HIDE DEF t
        <5> QED BY <2>2 DEF Poll, PollAnswers, Stopped, Lost, t
      <4> HIDE DEF t
      <4> QED BY <1>0, <2>3, <2>4, <4>1, <4>2, <4>3 DEF Leads
    <3> QED BY <1>0, <2>1, <3>1, <3>2, WriteStep
  <2>5. CASE ~Leads(c)
    BY <1>0, <2>1, <2>3, <2>5, ReturnStep
  <2> QED BY <2>4, <2>5
<1> QED BY <1>1, <1>2

\* stop: the worker stays stopping from the recheck to the confirmation.
LEMMA StopStep ==
  ASSUME IInv, NEW c \in Controllers,
         StopCheck(c) \/ StopBusy(c) \/ DeleteCall(c) \/ ConfirmCall(c) \/ StopEnd(c)
  PROVE  IInv'
<1>0. TypeOK /\ Good(store) /\ cloud \in [Workers -> Machines]
  BY IInvUse
<1> DEFINE w == ctl[c].worker
<1>1. /\ ctl[c].pc \notin {"idle", "ticked"} => w \in Workers
      /\ Leads(c) /\ ctl[c].pc \in {"deleting", "deleted", "confirmed"}
            => WorkerPhase(store, w) = "stopping"
  BY DEF IInv, Formed, Fits
<1> HIDE DEF w
<1>2. CASE StopCheck(c)
  <2>1. /\ At(c, "picked") /\ WorkerPhase(store, w) = "stopping" /\ Goto(c, "deleting")
        /\ store' = store /\ cloud' = cloud
    BY <1>2 DEF StopCheck, Dispatch, MayStop, w
  <2> QED BY <1>0, <2>1, GotoStep DEF At, Steps, w
<1>3. CASE StopBusy(c)
  BY <1>0, <1>3, ReturnStep DEF StopBusy
<1>4. CASE DeleteCall(c)
  <2>1. At(c, "deleting") /\ store' = store /\ (Goto(c, "deleted") \/ Return(c))
    BY <1>4 DEF DeleteCall
  <2>2. cloud' \in [Workers -> Machines]
    BY <1>0, <1>4 DEF DeleteCall, Machines
  <2>3. CASE Goto(c, "deleted")
    BY <1>1, <2>1, <2>2, <2>3, GotoStep DEF At, Steps, w
  <2>4. CASE Return(c)
    BY <2>1, <2>2, <2>4, ReturnStep
  <2> QED BY <2>1, <2>3, <2>4
<1>5. CASE ConfirmCall(c)
  <2>1. At(c, "deleted") /\ Get(c, "confirmed") /\ store' = store /\ cloud' = cloud
    BY <1>5 DEF ConfirmCall
  <2>2. PICK status \in PollAnswers \cap Statuses, short \in BOOLEAN :
          Hear(c, "confirmed", status, short)
    BY <2>1, GetHears DEF Steps
  <2> QED BY <1>0, <1>1, <2>1, <2>2, HearStep DEF At, Steps, w
<1>6. CASE StopEnd(c)
  <2>1. At(c, "confirmed") /\ Return(c) /\ cloud' = cloud
    BY <1>6 DEF StopEnd
  <2>2. CASE store' = store
    BY <1>0, <2>1, <2>2, ReturnStep
  <2>3. CASE Leads(c) /\ store' = Stopped(store, {w})
    <3>1. Good(store')
      BY <1>0, <2>3, CloseGood DEF Stopped, Down
    <3>2. store'.leader = c
      BY <1>0, <2>3 DEF Stopped, Close, Finish, Leave, Leads, Good, State
    <3> QED BY <1>0, <2>1, <3>1, <3>2, WriteStep
  <2> QED BY <1>6, <2>2, <2>3 DEF StopEnd, w
<1> QED BY <1>2, <1>3, <1>4, <1>5, <1>6

-----------------------------------------------------------------------------
(* The theorems.                                                           *)

\* The invariant holds at the start.
LEMMA InitInvariant == Init => IInv
<1> SUFFICES ASSUME Init PROVE IInv
  OBVIOUS
<1>1. Good(store)
  BY NewGood DEF Init
<1>2. Idle \in Control
  BY DEF Idle, Control, Steps, Operations, Reply, NoReply, Statuses
<1>3. TypeOK
  BY <1>1, <1>2 DEF Init, TypeOK, Good, Machines
<1>4. \A c \in Controllers : Formed(ctl[c]) /\ Fits(store, ctl[c])
  BY DEF Init, Idle, Formed, Fits
<1> QED BY <1>1, <1>3, <1>4 DEF IInv, Good

\* Every step keeps the invariant.
LEMMA NextInvariant == IInv /\ [Next]_vars => IInv'
<1> SUFFICES ASSUME IInv, [Next]_vars PROVE IInv'
  OBVIOUS
<1>1. CASE Client
  BY <1>1, ClientStep
<1>2. CASE Agent
  BY <1>2, AgentStep
<1>3. CASE Time
  BY <1>3, TimeStep
<1>4. CASE Controller
  <2>1. PICK c \in Controllers :
          \/ TickTx(c) \/ Pick(c) \/ PickNone(c) \/ Refused(c) \/ Crash(c)
          \/ StartBegin(c) \/ Post(c) \/ PostUnknown(c) \/ PostCreated(c) \/ PostRejected(c)
          \/ StartEnd(c)
          \/ ListCall(c) \/ ReconcileEnd(c)
          \/ GetCall(c) \/ PollEnd(c)
          \/ StopCheck(c) \/ StopBusy(c) \/ DeleteCall(c) \/ ConfirmCall(c) \/ StopEnd(c)
    BY <1>4 DEF Controller
  <2> QED BY <2>1, LeaseStep, StartStep, ReconcileStep, PollStep, StopStep
<1>5. CASE Provider
  BY <1>5, ProviderStep
<1>6. CASE UNCHANGED vars
  BY <1>6 DEF vars, IInv, TypeOK, Leads
<1> QED BY <1>1, <1>2, <1>3, <1>4, <1>5, <1>6 DEF Next

\* The invariant holds always.
LEMMA Invariant == Spec => []IInv
BY InitInvariant, NextInvariant, PTL DEF Spec

\* Every record the transactions write is one the readers expect, and every
\* process knows its worker and its answer where a step of its tick uses them.
THEOREM TypeCorrect == Spec => []TypeOK
<1>1. IInv => TypeOK
  BY DEF IInv
<1> QED BY <1>1, Invariant, PTL

\* No machine is given up with a room on it: whatever clients, agents and the
\* processes do, a room that is not over and has a worker is on one that serves.
THEOREM RoomsAreServed == Spec => []RoomsOnServingWorkers
<1>1. IInv => RoomsOnServingWorkers
  BY DEF IInv, RoomsServed, ServingPhases, RoomsOnServingWorkers
<1> QED BY <1>1, Invariant, PTL

\* With any number of control processes, the one that leads when a provider call
\* returns finds its worker in the phase for which the call was made, although
\* renewLease and the transactions after the call compare only the leader's name.
THEOREM ResultsAreFenced == Spec => []FencedResults
<1>1. IInv => FencedResults
  BY DEF IInv, Fits, FencedResults
<1> QED BY <1>1, Invariant, PTL

-----------------------------------------------------------------------------
(* The lives of rooms and of workers: which steps a transaction can take   *)
(* them through.  RoomOnward and WorkerOnward are about one record before   *)
(* and after.  They compose, so what each transaction body does is shown    *)
(* once and holds of the transactions that run several bodies in turn.      *)

-----------------------------------------------------------------------------
(* One record before and after.                                            *)

\* What is left of an allocation after a day.
Forgotten == [NoAllocation EXCEPT !.state = "pruned"]

\* An allocation is unchanged, or forgotten, or it moves on: it keeps its
\* players, its key and its worker, and what is over stays as it ended.
RoomOnward(p, q) ==
    \/ q = p
    \/ q = Forgotten
    \/ /\ p.state \notin {"absent", "pruned"}
       /\ q.state \notin {"absent", "pruned", "waiting_capacity"}
       /\ q.users = p.users /\ q.key = p.key
       /\ p.worker # None => q.worker = p.worker
       /\ q.state \in InProgressPhases => p.state \in InProgressPhases
       /\ p.state \in TerminalPhases => q.state = p.state

\* the phases of a worker that is being given up, or has been
Ending == {"stopping", "lost", "stopped", "failed", "pruned"}

\* A worker that is being given up does not come back, and its drain is not
\* begun again; a record that is forgotten has no agent.
WorkerOnward(p, q) ==
    /\ p.state = "stopping" => q.state \in {"stopping", "lost"}
    /\ p.state = "lost" => q.state = "lost"
    /\ p.state \in {"stopped", "failed", "pruned"} => q.state \in {p.state, "pruned"}
    /\ p.state \in Ending /\ q.draining => p.draining /\ (p.drainAck => q.drainAck)
    /\ q.state = "absent" => p.state = "absent"
    /\ q.state = "requested" => p.state \in {"absent", "requested"}
    /\ q.state \in {"absent", "pruned"} /\ q.boot => p.state = q.state /\ p.boot
    /\ q.maxRooms = p.maxRooms \/ p.state = "absent" \/ q.state = "pruned"

\* The provider's answer stops a worker.
WorkerStopped(p, q) ==
    /\ p.state \notin {"failed", "pruned"} /\ q.state = "stopped"
    /\ q.draining = p.draining /\ q.drainAck = p.drainAck /\ q.maxRooms = p.maxRooms

RoomsOnward(s, t) == \A a \in Allocs : RoomOnward(s.allocations[a], t.allocations[a])
WorkersOnward(s, t) == \A w \in Workers : WorkerOnward(s.workers[w], t.workers[w])

\* No room fails, and none is placed.
Unfailed(s, t) == \A a \in Allocs : Phase(t, a) = "failed" => Phase(s, a) = "failed"
Unplaced(s, t) ==
    \A a \in Allocs : InProgress(t, a) => t.allocations[a].worker = s.allocations[a].worker
RoomsMove(s, t) == RoomsOnward(s, t) /\ Unfailed(s, t) /\ Unplaced(s, t)

\* The usual step: no room fails or is placed, and no worker is stopped.
Onward(s, t) == RoomsMove(s, t) /\ WorkersOnward(s, t)

HIDE InputsAssumption
USE DEF Phase, WorkerPhase, InProgress

LEMMA ForgottenFields ==
  /\ Forgotten \in Allocation
  /\ Forgotten.state = "pruned" /\ Forgotten.key = None /\ Forgotten.worker = None
  BY DEF Forgotten, NoAllocation, NoSessions, Allocation, SessionPhases, AllocPhases, Reasons

\* What no transaction touches moves on.
LEMMA OnwardReflexive ==
  ASSUME NEW s, NEW t
  PROVE  /\ t.allocations = s.allocations => RoomsMove(s, t)
         /\ t.workers = s.workers => WorkersOnward(s, t)
  BY DEF RoomsMove, RoomsOnward, RoomOnward, Unfailed, Unplaced, WorkersOnward, WorkerOnward, Ending

LEMMA RoomTransitive ==
  ASSUME NEW p, NEW q, NEW r, RoomOnward(p, q), RoomOnward(q, r)
  PROVE  RoomOnward(p, r)
  BY ForgottenFields DEF RoomOnward, InProgressPhases, WaitingPhases, TerminalPhases

LEMMA WorkerTransitive ==
  ASSUME NEW p, NEW q, NEW r, WorkerOnward(p, q), WorkerOnward(q, r)
  PROVE  WorkerOnward(p, r)
<1>1. /\ p.state = "stopping" => r.state \in {"stopping", "lost"}
      /\ p.state = "lost" => r.state = "lost"
      /\ p.state \in {"stopped", "failed", "pruned"} => r.state \in {p.state, "pruned"}
      /\ r.state = "absent" => p.state = "absent"
      /\ r.state = "requested" => p.state \in {"absent", "requested"}
  BY DEF WorkerOnward
<1>2. p.state \in Ending => q.state \in Ending
  BY DEF WorkerOnward, Ending
<1>3. p.state \in Ending /\ r.draining => p.draining /\ (p.drainAck => r.drainAck)
  BY <1>2, Zenon DEF WorkerOnward
<1>4. r.state \in {"absent", "pruned"} /\ r.boot => p.state = r.state /\ p.boot
  <2> SUFFICES ASSUME r.state \in {"absent", "pruned"}, r.boot PROVE p.state = r.state /\ p.boot
    OBVIOUS
  <2>1. q.state = r.state /\ q.boot
    BY Zenon DEF WorkerOnward
  <2>2. QED BY <2>1, Zenon DEF WorkerOnward
<1>5. r.maxRooms = p.maxRooms \/ p.state = "absent" \/ r.state = "pruned"
  BY DEF WorkerOnward
<1>6. QED BY <1>1, <1>3, <1>4, <1>5 DEF WorkerOnward

\* A room in progress was in progress.
LEMMA RoomWas ==
  ASSUME NEW p, NEW q, RoomOnward(p, q), q.state \in InProgressPhases
  PROVE  /\ p.state \in InProgressPhases /\ q.users = p.users /\ q.key = p.key
         /\ p.worker # None => q.worker = p.worker
  BY ForgottenFields DEF RoomOnward, InProgressPhases, WaitingPhases

LEMMA RoomsTransitive ==
  ASSUME NEW s, NEW t, NEW u, RoomsOnward(s, t), RoomsOnward(t, u)
  PROVE  RoomsOnward(s, u)
  BY RoomTransitive DEF RoomsOnward

LEMMA MoveTransitive ==
  ASSUME NEW s, NEW t, NEW u, RoomsMove(s, t), RoomsMove(t, u)
  PROVE  RoomsMove(s, u)
<1>1. RoomsOnward(s, u)
  BY RoomsTransitive DEF RoomsMove
<1>2. Unfailed(s, u)
  BY DEF RoomsMove, Unfailed
<1>3. Unplaced(s, u)
  BY RoomWas DEF RoomsMove, RoomsOnward, Unplaced
<1>4. QED BY <1>1, <1>2, <1>3 DEF RoomsMove

LEMMA WorkersTransitive ==
  ASSUME NEW s, NEW t, NEW u, WorkersOnward(s, t), WorkersOnward(t, u)
  PROVE  WorkersOnward(s, u)
  BY WorkerTransitive DEF WorkersOnward

LEMMA OnwardTransitive ==
  ASSUME NEW s, NEW t, NEW u, Onward(s, t), Onward(t, u)
  PROVE  Onward(s, u)
  BY MoveTransitive, WorkersTransitive DEF Onward

-----------------------------------------------------------------------------
(* What the bodies do to rooms.                                            *)

\* Rooms in progress move on; only the body that gives up their worker fails them.
LEMMA LeaveMoves ==
  ASSUME NEW s, Good(s), NEW D, D \subseteq {a \in Allocs : InProgress(s, a)},
         NEW phase \in (InProgressPhases \ {"waiting_capacity"}) \cup TerminalPhases, NEW reason
  PROVE  /\ Leave(s, D, phase, reason).workers = s.workers
         /\ RoomsOnward(s, Leave(s, D, phase, reason))
         /\ Unplaced(s, Leave(s, D, phase, reason))
         /\ phase # "failed" => RoomsMove(s, Leave(s, D, phase, reason))
<1> DEFINE t == Leave(s, D, phase, reason)
<1>1. t.workers = s.workers
  BY DEF Leave, Good, State
<1>2. ASSUME NEW a \in Allocs
      PROVE  /\ RoomOnward(s.allocations[a], t.allocations[a])
             /\ t.allocations[a].worker = s.allocations[a].worker
             /\ t.allocations[a].state = phase \/ t.allocations[a] = s.allocations[a]
  <2>1. s.allocations[a] \in Allocation
    BY DEF Good, State
  <2>2. t.allocations[a] = IF a \in D THEN [s.allocations[a] EXCEPT !.state = phase,
                                              !.reason = reason, !.sessions = NoSessions]
                                      ELSE s.allocations[a]
    BY DEF Leave, Good, State
  <2>3. CASE a \in D
    <3>1. /\ t.allocations[a].state = phase /\ t.allocations[a].users = s.allocations[a].users
          /\ t.allocations[a].key = s.allocations[a].key
          /\ t.allocations[a].worker = s.allocations[a].worker
      BY <2>1, <2>2, <2>3 DEF Allocation
    <3>2. s.allocations[a].state \in InProgressPhases
      BY <2>3
    <3> HIDE DEF t
    <3>3. QED BY <3>1, <3>2 DEF RoomOnward, InProgressPhases, WaitingPhases, TerminalPhases
  <2>4. CASE a \notin D
    BY <2>2, <2>4 DEF RoomOnward
  <2>5. QED BY <2>3, <2>4
<1> HIDE DEF t
<1>3. RoomsOnward(s, t) /\ Unplaced(s, t)
  BY <1>2 DEF RoomsOnward, Unplaced
<1>4. phase # "failed" => Unfailed(s, t)
  BY <1>2 DEF Unfailed
<1>5. QED BY <1>1, <1>3, <1>4 DEF RoomsMove, t

\* Manager.cancel moves rooms on and leaves the workers alone.
LEMMA CancelMoves ==
  ASSUME NEW s, Good(s), NEW D \in SUBSET Allocs, NEW reason \in Reasons
  PROVE  RoomsMove(s, Cancel(s, D, reason)) /\ Cancel(s, D, reason).workers = s.workers
<1> DEFINE going == Cancellable(s, D)
           bound == {a \in going : s.allocations[a].worker # None}
           phase == IF reason = "cancelled" THEN "cancelled" ELSE "expired"
           ended == Finish(s, going \ bound, phase)
           parting == Leave(ended, bound, "cancelling", reason)
           t == Cancel(s, D, reason)
<1>1. going \subseteq {a \in Allocs : InProgress(s, a)}
  BY DEF Cancellable
<1>2. Good(ended) /\ RoomsMove(s, ended) /\ ended.workers = s.workers
  BY <1>1, FinishGood, LeaveMoves DEF Finish, TerminalPhases
<1>3. bound \subseteq {a \in Allocs : InProgress(ended, a)}
  BY DEF Cancellable, Finish, Leave, Good, State
<1>4. RoomsMove(ended, parting) /\ parting.workers = ended.workers
  <2> HIDE DEF ended, bound
  <2>1. QED BY <1>2, <1>3, LeaveMoves DEF InProgressPhases
<1>5. t.allocations = parting.allocations /\ t.workers = parting.workers
  BY DEF Cancel, Finish, Leave, Good, State
<1> HIDE DEF ended, parting, t
<1>6. RoomsMove(parting, t)
  BY <1>5, OnwardReflexive
<1>7. QED BY <1>2, <1>4, <1>5, <1>6, MoveTransitive DEF t

\* Reserving assigns prepared rooms.
LEMMA ReserveMoves ==
  ASSUME NEW s, Good(s), NEW D
  PROVE  RoomsMove(s, Reserve(s, D)) /\ Reserve(s, D).workers = s.workers
<1> DEFINE t == Reserve(s, D)
<1>1. t.workers = s.workers
  BY DEF Reserve, Good, State
<1>2. ASSUME NEW a \in Allocs
      PROVE  /\ RoomOnward(s.allocations[a], t.allocations[a])
             /\ t.allocations[a].worker = s.allocations[a].worker
             /\ t.allocations[a].state = "assigned" \/ t.allocations[a] = s.allocations[a]
  <2> DEFINE seats == [u \in Users |-> IF u \in s.allocations[a].users THEN "reserved" ELSE "none"]
  <2>1. s.allocations[a] \in Allocation
    BY DEF Good, State
  <2>2. t.allocations[a] = IF a \in D /\ s.allocations[a].state = "prepared"
                           THEN [s.allocations[a] EXCEPT !.state = "assigned", !.sessions = seats]
                           ELSE s.allocations[a]
    BY DEF Reserve, Good, State
  <2> HIDE DEF seats, t
  <2>3. CASE a \in D /\ s.allocations[a].state = "prepared"
    <3>1. /\ t.allocations[a].state = "assigned" /\ t.allocations[a].users = s.allocations[a].users
          /\ t.allocations[a].key = s.allocations[a].key
          /\ t.allocations[a].worker = s.allocations[a].worker
      BY <2>1, <2>2, <2>3 DEF Allocation
    <3>2. QED BY <2>3, <3>1 DEF RoomOnward, InProgressPhases, WaitingPhases, TerminalPhases
  <2>4. CASE ~(a \in D /\ s.allocations[a].state = "prepared")
    BY <2>2, <2>4 DEF RoomOnward
  <2>5. QED BY <2>3, <2>4
<1> HIDE DEF t
<1>3. QED BY <1>1, <1>2 DEF RoomsMove, RoomsOnward, Unfailed, Unplaced, t

\* After a day nothing is left of an allocation.
LEMMA PruneAllocationsMoves ==
  ASSUME NEW s, Good(s), NEW old
  PROVE  /\ RoomsMove(s, PruneAllocations(s, old))
         /\ PruneAllocations(s, old).workers = s.workers
<1> DEFINE t == PruneAllocations(s, old)
<1>1. t.workers = s.workers
  BY DEF PruneAllocations, Good, State
<1>2. \A a \in Allocs : t.allocations[a] \in {s.allocations[a], Forgotten}
  BY DEF PruneAllocations, Forgotten, Good, State
<1> HIDE DEF t
<1>3. QED BY <1>1, <1>2, ForgottenFields DEF RoomsMove, RoomsOnward, RoomOnward, Unfailed, Unplaced,
             InProgressPhases, WaitingPhases, t

\* Only rooms of the workers that are given up fail.
LEMMA CloseMoves ==
  ASSUME NEW s, Good(s), NEW D, NEW phase \in Down
  PROVE  /\ RoomsOnward(s, Close(s, D, phase)) /\ Unplaced(s, Close(s, D, phase))
         /\ \A a \in Allocs : Phase(s, a) # "failed" /\ Phase(Close(s, D, phase), a) = "failed"
                => InProgress(s, a) /\ s.allocations[a].worker \in D
<1> DEFINE t == Close(s, D, phase)
           failing == {a \in Allocs : InProgress(s, a) /\ s.allocations[a].worker \in D}
           u == Finish(s, failing, "failed")
<1>1. RoomsOnward(s, u) /\ Unplaced(s, u)
  BY LeaveMoves DEF Finish, TerminalPhases
<1>2. t.allocations = u.allocations
  BY DEF Close, Finish, Leave, Good, State
<1>3. \A a \in Allocs \ failing : u.allocations[a] = s.allocations[a]
  BY DEF Finish, Leave, Good, State
<1> HIDE DEF t, u
<1>4. QED BY <1>1, <1>2, <1>3 DEF RoomsOnward, Unplaced, t

\* A worker that is given up keeps what its agent acknowledged.
LEMMA CloseWorkers ==
  ASSUME NEW s, Good(s), NEW D, NEW phase \in Down
  PROVE  /\ \A w \in Workers \ D : Close(s, D, phase).workers[w] = s.workers[w]
         /\ \A w \in Workers \cap D : LET p == s.workers[w]
                                          q == Close(s, D, phase).workers[w] IN
               /\ q.state = phase /\ q.draining = p.draining /\ q.drainAck = p.drainAck
               /\ q.maxRooms = p.maxRooms
<1> DEFINE t == Close(s, D, phase)
<1>1. ASSUME NEW w \in Workers
      PROVE  t.workers[w] = IF w \in D THEN [s.workers[w] EXCEPT !.state = phase, !.ready = FALSE]
                                       ELSE s.workers[w]
  BY DEF Close, Finish, Leave, Good, State
<1>2. \A w \in Workers : s.workers[w] \in Worker
  BY DEF Good, State
<1> HIDE DEF t
<1>3. QED BY <1>1, <1>2 DEF Worker, t

\* lost() gives up workers that were not given up before.
LEMMA LostOnward ==
  ASSUME NEW s, Good(s), NEW D,
         \A w \in D \cap Workers : WorkerPhase(s, w) \notin {"stopped", "failed", "pruned"}
  PROVE  WorkersOnward(s, Lost(s, D))
<1>1. ASSUME NEW w \in Workers PROVE WorkerOnward(s.workers[w], Lost(s, D).workers[w])
  <2>1. CASE w \in D
    BY <2>1, CloseWorkers DEF Lost, Down, WorkerOnward, Ending
  <2>2. CASE w \notin D
    BY <2>2, CloseWorkers DEF Lost, Down, WorkerOnward, Ending
  <2>3. QED BY <2>1, <2>2
<1>2. QED BY <1>1 DEF WorkersOnward

-----------------------------------------------------------------------------
(* What the bodies do to workers.                                          *)

\* A worker whose phase and drain stay, and that gets no agent while it has no record.
LEMMA WorkerSame ==
  ASSUME NEW p, NEW q, q.state = p.state, q.draining = p.draining, q.drainAck = p.drainAck,
         q.maxRooms = p.maxRooms, p.state \in {"absent", "pruned"} => q.boot = p.boot
  PROVE  WorkerOnward(p, q)
  BY DEF WorkerOnward

\* A worker that is not being given up moves to a phase of a worker that exists.
LEMMA WorkerFree ==
  ASSUME NEW p, NEW q, p.state \notin Ending,
         q.state \notin {"absent", "requested", "pruned"}, q.maxRooms = p.maxRooms
  PROVE  WorkerOnward(p, q)
  BY DEF WorkerOnward, Ending

\* The transactions that write one worker.
LEMMA OneWorkerOnward ==
  ASSUME NEW s, Good(s), NEW w \in Workers, NEW r, WorkerOnward(s.workers[w], r)
  PROVE  Onward(s, [s EXCEPT !.workers[w] = r])
<1> DEFINE t == [s EXCEPT !.workers[w] = r]
<1>1. t.allocations = s.allocations
  BY DEF Good, State
<1>2. \A v \in Workers : t.workers[v] = IF v = w THEN r ELSE s.workers[v]
  BY DEF Good, State
<1>3. \A v \in Workers : WorkerOnward(s.workers[v], s.workers[v])
  BY DEF WorkerOnward
<1> HIDE DEF t
<1>4. QED BY <1>1, <1>2, <1>3, OnwardReflexive DEF Onward, WorkersOnward, t

\* Workers that are not being given up change their phase.
LEMMA SetPhaseOnward ==
  ASSUME NEW s, Good(s), NEW D, NEW phase, phase \notin {"absent", "requested", "pruned"},
         \A w \in D \cap Workers : WorkerPhase(s, w) \notin Ending
  PROVE  Onward(s, SetPhase(s, D, phase))
<1> DEFINE t == SetPhase(s, D, phase)
<1>1. t.allocations = s.allocations
  BY DEF SetPhase, Good, State
<1>2. ASSUME NEW w \in Workers PROVE WorkerOnward(s.workers[w], t.workers[w])
  <2>1. t.workers[w] = IF w \in D THEN [s.workers[w] EXCEPT !.state = phase] ELSE s.workers[w]
    BY DEF SetPhase, Good, State
  <2>2. s.workers[w] \in Worker
    BY DEF Good, State
  <2> HIDE DEF t
  <2>3. CASE w \in D
    <3>1. t.workers[w].state = phase /\ t.workers[w].maxRooms = s.workers[w].maxRooms
      BY <2>1, <2>2, <2>3 DEF Worker
    <3>2. QED BY <2>3, <3>1, WorkerFree
  <2>4. CASE w \notin D
    BY <2>1, <2>4, WorkerSame
  <2>5. QED BY <2>3, <2>4
<1> HIDE DEF t
<1>3. QED BY <1>1, <1>2, OnwardReflexive DEF Onward, WorkersOnward, t

\* Workers that are not being given up begin to drain.
LEMMA BeginDrainOnward ==
  ASSUME NEW s, Good(s), NEW D \in SUBSET Workers, \A w \in D : WorkerPhase(s, w) \notin Ending
  PROVE  Onward(s, BeginDrain(s, D))
<1> DEFINE t == BeginDrain(s, D)
<1>1. t.allocations = s.allocations
  BY DEF BeginDrain, Good, State
<1>2. ASSUME NEW w \in Workers PROVE WorkerOnward(s.workers[w], t.workers[w])
  <2>1. t.workers[w] = IF w \in D /\ ~s.workers[w].draining
                       THEN [s.workers[w] EXCEPT !.draining = TRUE, !.state = "draining"]
                       ELSE s.workers[w]
    BY DEF BeginDrain, Good, State
  <2>2. s.workers[w] \in Worker
    BY DEF Good, State
  <2> HIDE DEF t
  <2>3. CASE w \in D /\ ~s.workers[w].draining
    <3>1. t.workers[w].state = "draining" /\ t.workers[w].maxRooms = s.workers[w].maxRooms
      BY <2>1, <2>2, <2>3 DEF Worker
    <3>2. QED BY <2>3, <3>1, WorkerFree
  <2>4. CASE ~(w \in D /\ ~s.workers[w].draining)
    BY <2>1, <2>4, WorkerSame
  <2>5. QED BY <2>3, <2>4
<1> HIDE DEF t
<1>3. QED BY <1>1, <1>2, OnwardReflexive DEF Onward, WorkersOnward, t

\* Only workers that were stopped or failed are forgotten.
LEMMA PruneWorkersOnward ==
  ASSUME NEW s, Good(s), NEW old \in SUBSET Retired(s)
  PROVE  Onward(s, PruneWorkers(s, old))
<1> DEFINE t == PruneWorkers(s, old)
<1>1. t.allocations = s.allocations
  BY DEF PruneWorkers, Good, State
<1>2. ASSUME NEW w \in Workers PROVE WorkerOnward(s.workers[w], t.workers[w])
  <2>1. t.workers[w] = IF w \in old THEN [NoWorker EXCEPT !.state = "pruned"] ELSE s.workers[w]
    BY DEF PruneWorkers, Good, State
  <2> HIDE DEF t
  <2>2. CASE w \in old
    <3>1. s.workers[w].state \in {"stopped", "failed"}
      BY <2>2 DEF Retired
    <3>2. t.workers[w].state = "pruned" /\ ~t.workers[w].draining /\ ~t.workers[w].boot
      BY <2>1, <2>2 DEF NoWorker
    <3>3. QED BY <3>1, <3>2 DEF WorkerOnward
  <2>3. CASE w \notin old
    BY <2>1, <2>3, WorkerSame
  <2>4. QED BY <2>2, <2>3
<1> HIDE DEF t
<1>3. QED BY <1>1, <1>2, OnwardReflexive DEF Onward, WorkersOnward, t

\* A new worker takes an identity that was never used.
LEMMA AddWorkerOnward ==
  ASSUME NEW s, Good(s), NEW w \in Workers, WorkerPhase(s, w) = "absent", NEW n
  PROVE  Onward(s, AddWorker(s, w, n))
<1> DEFINE r == [NoWorker EXCEPT !.state = "requested", !.maxRooms = n]
<1>1. r.state = "requested"
  BY DEF NoWorker
<1> HIDE DEF r
<1>2. WorkerOnward(s.workers[w], r)
  BY <1>1 DEF WorkerOnward, Ending
<1>3. QED BY <1>2, OneWorkerOnward DEF AddWorker, r

-----------------------------------------------------------------------------
(* The phases of the lease transaction.                                    *)

\* Workers age; the rooms that fail are those of workers that are lost.
LEMMA AgeWorkersMoves ==
  ASSUME NEW s, Good(s), NEW interrupted \in SUBSET Starting(s)
  PROVE  LET t == AgeWorkers(s, interrupted) IN
         /\ RoomsOnward(s, t) /\ WorkersOnward(s, t) /\ Unplaced(s, t)
         /\ \A a \in Allocs : Phase(s, a) # "failed" /\ Phase(t, a) = "failed" =>
               LET w == s.allocations[a].worker IN
               /\ w \in Workers /\ WorkerPhase(s, w) \notin Down /\ WorkerPhase(t, w) = "lost"
<1> DEFINE ending  == {w \in Workers : WorkerPhase(s, w) = "ready" /\ s.workers[w].ending}
           drained == BeginDrain(s, ending)
           silent  == {w \in Workers : /\ WorkerPhase(drained, w) = "ready"
                                       /\ s.workers[w].heartbeat # "fresh"}
           gone    == {w \in Workers : /\ Exists(s, w) /\ WorkerPhase(s, w) \notin Down
                                       /\ s.workers[w].heartbeat = "gone"}
           marked  == SetPhase(drained, interrupted, "unknown")
           quiet   == SetPhase(marked, silent, "suspect")
           t       == Lost(quiet, gone)
<1>1. Good(drained) /\ Onward(s, drained)
  BY BeginDrainGood, BeginDrainOnward DEF Ending
<1>2. \A w \in interrupted : w \in Workers /\ WorkerPhase(drained, w) = "starting"
  BY DEF Starting, BeginDrain, Good, State
<1>3. Good(marked) /\ Onward(drained, marked)
  <2> HIDE DEF drained
  <2>1. \A w \in interrupted \cap Workers : Rooms(drained, w) = {}
    BY <1>1, <1>2, NoRooms DEF ServingPhases
  <2>2. QED BY <1>1, <1>2, <2>1, SetPhaseGood, SetPhaseOnward DEF WorkerPhases, Ending
<1>4. \A w \in silent : WorkerPhase(marked, w) \in {"ready", "unknown"}
  <2> HIDE DEF drained
  <2>1. QED BY <1>1 DEF SetPhase, Good, State, Worker
<1>5. Good(quiet) /\ Onward(marked, quiet)
  <2> HIDE DEF marked, silent
  <2>1. QED BY <1>3, <1>4, SetPhaseGood, SetPhaseOnward DEF WorkerPhases, ServingPhases, Ending
<1>6. quiet.allocations = s.allocations
  BY DEF SetPhase, BeginDrain, Good, State
<1>7. \A w \in gone : WorkerPhase(quiet, w) \notin {"stopped", "failed", "pruned"}
  <2>1. \A w \in gone : WorkerPhase(drained, w) \in {WorkerPhase(s, w), "draining"}
    BY DEF BeginDrain, Good, State, Worker
  <2>2. \A w \in gone : WorkerPhase(marked, w) \in {WorkerPhase(drained, w), "unknown"}
    <3> HIDE DEF drained
    <3>1. QED BY <1>1 DEF SetPhase, Good, State, Worker
  <2>3. \A w \in gone : WorkerPhase(quiet, w) \in {WorkerPhase(marked, w), "suspect"}
    <3> HIDE DEF marked, silent
    <3>1. QED BY <1>3 DEF SetPhase, Good, State, Worker
  <2> HIDE DEF drained, marked, quiet
  <2>4. QED BY <2>1, <2>2, <2>3 DEF Exists, Down
<1> HIDE DEF drained, marked, quiet, silent
<1>8. Onward(s, quiet)
  BY <1>1, <1>3, <1>5, OnwardTransitive
<1>9. RoomsOnward(quiet, t) /\ Unplaced(quiet, t) /\ WorkersOnward(quiet, t)
  BY <1>5, <1>7, CloseMoves, LostOnward DEF Lost, Down
<1>10. RoomsOnward(s, t) /\ Unplaced(s, t) /\ WorkersOnward(s, t)
  BY <1>6, <1>8, <1>9, WorkersTransitive DEF Onward, RoomsMove, RoomsOnward, Unplaced
<1>11. ASSUME NEW a \in Allocs, Phase(s, a) # "failed", Phase(t, a) = "failed"
       PROVE  LET w == s.allocations[a].worker IN
              /\ w \in Workers /\ WorkerPhase(s, w) \notin Down /\ WorkerPhase(t, w) = "lost"
  <2>1. s.allocations[a].worker \in gone
    BY <1>5, <1>6, <1>11, CloseMoves DEF Lost, Down
  <2>2. \A w \in Workers \cap gone : WorkerPhase(t, w) = "lost"
    BY <1>5, CloseWorkers DEF Lost, Down
  <2>3. QED BY <2>1, <2>2
<1>12. t = AgeWorkers(s, interrupted)
  BY DEF AgeWorkers, t, quiet, marked, silent, drained
<1> HIDE DEF t
<1>13. QED BY <1>10, <1>11, <1>12

\* A record that is not there has no key, a waiting room no worker, and a worker
\* without a record no agent.
Tidy(s) ==
    /\ \A a \in Allocs :
        /\ Phase(s, a) \in {"absent", "pruned"} => s.allocations[a].key = None
        /\ Phase(s, a) \in {"absent", "pruned", "waiting_capacity"} => s.allocations[a].worker = None
    /\ \A w \in Workers : WorkerPhase(s, w) \in {"absent", "pruned"} => ~s.workers[w].boot

\* What moves on stays tidy.
LEMMA TidyRooms ==
  ASSUME NEW s, NEW t, Tidy(s), RoomsOnward(s, t),
         \A w \in Workers : WorkerPhase(t, w) \in {"absent", "pruned"} => ~t.workers[w].boot
  PROVE  Tidy(t)
<1>1. ASSUME NEW a \in Allocs
      PROVE  /\ Phase(t, a) \in {"absent", "pruned"} => t.allocations[a].key = None
             /\ Phase(t, a) \in {"absent", "pruned", "waiting_capacity"}
                    => t.allocations[a].worker = None
  BY ForgottenFields DEF Tidy, RoomsOnward, RoomOnward
<1>2. QED BY <1>1 DEF Tidy

LEMMA TidyOnward ==
  ASSUME NEW s, NEW t, Tidy(s), RoomsOnward(s, t), WorkersOnward(s, t)
  PROVE  Tidy(t)
<1>1. ASSUME NEW w \in Workers, WorkerPhase(t, w) \in {"absent", "pruned"}
      PROVE  ~t.workers[w].boot
  BY <1>1, Zenon DEF Tidy, WorkersOnward, WorkerOnward
<1>2. QED BY <1>1, TidyRooms

\* Waiting rooms get an eligible worker; nothing else moves.
LEMMA PlaceMoves ==
  ASSUME NEW s, Good(s), Tidy(s), NEW f \in Placements(s)
  PROVE  RoomsOnward(s, Place(s, f)) /\ Unfailed(s, Place(s, f)) /\ WorkersOnward(s, Place(s, f))
<1> DEFINE t == Place(s, f)
           placed == {a \in DOMAIN f : f[a] # None}
<1>1. f \in [Waiting(s) -> Workers \cup {None}]
  BY DEF Placements
<1>2. ASSUME NEW a \in Allocs
      PROVE  /\ RoomOnward(s.allocations[a], t.allocations[a])
             /\ t.allocations[a].state = "preparing" \/ t.allocations[a] = s.allocations[a]
  <2>1. t.allocations[a] = IF a \in placed
                           THEN [s.allocations[a] EXCEPT !.state = "preparing", !.worker = f[a]]
                           ELSE s.allocations[a]
    BY DEF Place, Good, State
  <2>2. s.allocations[a] \in Allocation
    BY DEF Good, State
  <2> HIDE DEF t
  <2>3. CASE a \in placed
    <3>1. s.allocations[a].state = "waiting_capacity" /\ s.allocations[a].worker = None
      BY <1>1, <2>3 DEF Waiting, Tidy
    <3>2. /\ t.allocations[a].state = "preparing" /\ t.allocations[a].users = s.allocations[a].users
          /\ t.allocations[a].key = s.allocations[a].key
      BY <2>1, <2>2, <2>3 DEF Allocation
    <3>3. QED BY <3>1, <3>2 DEF RoomOnward, InProgressPhases, WaitingPhases, TerminalPhases
  <2>4. CASE a \notin placed
    BY <2>1, <2>4 DEF RoomOnward
  <2>5. QED BY <2>3, <2>4
<1>3. ASSUME NEW w \in Workers PROVE WorkerOnward(s.workers[w], t.workers[w])
  <2>1. t.workers[w] \in {s.workers[w], [s.workers[w] EXCEPT !.idle = FALSE]}
    BY DEF Place, Good, State
  <2>2. s.workers[w] \in Worker
    BY DEF Good, State
  <2> HIDE DEF t
  <2>3. /\ t.workers[w].state = s.workers[w].state /\ t.workers[w].draining = s.workers[w].draining
        /\ t.workers[w].drainAck = s.workers[w].drainAck /\ t.workers[w].boot = s.workers[w].boot
        /\ t.workers[w].maxRooms = s.workers[w].maxRooms
    BY <2>1, <2>2 DEF Worker
  <2>4. QED BY <2>3, WorkerSame
<1> HIDE DEF t
<1>4. QED BY <1>2, <1>3 DEF RoomsOnward, Unfailed, WorkersOnward, t

\* At most one worker is added.
LEMMA ScaleOutOnward ==
  ASSUME NEW s, Good(s), NEW t \in ScaleOut(s)
  PROVE  Onward(s, t)
<1>1. CASE t = s
  BY <1>1, OnwardReflexive DEF Onward
<1>2. CASE \E w \in Workers : WorkerPhase(s, w) = "absent" /\ t = AddWorker(s, w, MaxRooms)
  BY <1>2, AddWorkerOnward
<1>3. QED BY <1>1, <1>2 DEF ScaleOut

\* The record of a worker whose idle clock is set.
LEMMA WorkerClocked ==
  ASSUME NEW r \in Worker, NEW b \in BOOLEAN
  PROVE  LET q == [r EXCEPT !.idle = b] IN
         q \in Worker /\ q.state = r.state /\ WorkerOnward(r, q)
<1> DEFINE q == [r EXCEPT !.idle = b]
<1>1. /\ q \in Worker /\ q.state = r.state /\ q.draining = r.draining
      /\ q.drainAck = r.drainAck /\ q.boot = r.boot /\ q.maxRooms = r.maxRooms
  BY DEF Worker
<1> HIDE DEF q
<1>2. QED BY <1>1, WorkerSame DEF q

\* Idle workers begin to drain, and drained ones are to be stopped.
LEMMA ScaleInOnward ==
  ASSUME NEW s, Good(s), NEW surplus \in DrainChoices(s)
  PROVE  Onward(s, ScaleIn(s, surplus)) /\ ScaleIn(s, surplus).allocations = s.allocations
<1> DEFINE W == [w \in Workers |->
                    IF w \in Serving(s) THEN [s.workers[w] EXCEPT !.idle = Rooms(s, w) = {}]
                                        ELSE s.workers[w]]
           clocked == [s EXCEPT !.workers = W]
           drained == BeginDrain(clocked, surplus)
           leaving == {w \in Workers : WorkerPhase(s, w) = "draining" /\ Drained(s, w)}
           t == ScaleIn(s, surplus)
<1>1. ASSUME NEW w \in Workers
      PROVE  /\ W[w] \in Worker /\ W[w].state = s.workers[w].state
             /\ WorkerOnward(s.workers[w], W[w])
  <2>1. s.workers[w] \in Worker
    BY DEF Good, State
  <2>2. CASE w \in Serving(s)
    <3> DEFINE empty == Rooms(s, w) = {}
    <3>1. W[w] = [s.workers[w] EXCEPT !.idle = empty] /\ empty \in BOOLEAN
      BY <2>2
    <3> HIDE DEF W, empty
    <3>2. QED BY <2>1, <3>1, WorkerClocked
  <2>3. CASE w \notin Serving(s)
    BY <2>1, <2>3, WorkerSame
  <2>4. QED BY <2>2, <2>3
<1>2. Good(clocked) /\ clocked.allocations = s.allocations
  <2>1. W \in [Workers -> Worker]
    BY <1>1
  <2> HIDE DEF W
  <2>2. QED BY <1>1, <2>1 DEF Good, State, RoomsServed, Allocation
<1>3. Onward(s, clocked)
  <2>1. \A w \in Workers : clocked.workers[w] = W[w]
    BY DEF Good, State
  <2> HIDE DEF W
  <2>2. QED BY <1>1, <1>2, <2>1, OnwardReflexive DEF Onward, WorkersOnward
<1>4. surplus \subseteq Workers /\ \A w \in surplus : WorkerPhase(s, w) = "ready"
  BY DEF DrainChoices, Surplus, Serving
<1>5. \A w \in Workers : WorkerPhase(clocked, w) = WorkerPhase(s, w)
  <2>1. \A w \in Workers : clocked.workers[w] = W[w]
    BY DEF Good, State
  <2> HIDE DEF W
  <2>2. QED BY <1>1, <2>1
<1> HIDE DEF clocked, W
<1>6. Good(drained) /\ Onward(clocked, drained) /\ drained.allocations = clocked.allocations
  BY <1>2, <1>4, <1>5, BeginDrainGood, BeginDrainOnward DEF Ending, BeginDrain, Good, State
<1>7. \A w \in leaving : WorkerPhase(drained, w) = "draining"
  BY <1>2, <1>5 DEF BeginDrain, Good, State, Worker
<1> HIDE DEF drained, leaving
<1>8. /\ Onward(drained, SetPhase(drained, leaving, "stopping"))
      /\ SetPhase(drained, leaving, "stopping").allocations = drained.allocations
  <2>1. Onward(drained, SetPhase(drained, leaving, "stopping"))
    BY <1>6, <1>7, SetPhaseOnward DEF Ending
  <2>2. SetPhase(drained, leaving, "stopping").allocations = drained.allocations
    BY <1>6 DEF SetPhase, Good, State
  <2>3. QED BY <2>1, <2>2
<1>9. t = SetPhase(drained, leaving, "stopping")
  BY DEF ScaleIn, drained, clocked, W, leaving
<1> HIDE DEF t
<1>10. QED BY <1>2, <1>3, <1>6, <1>8, <1>9, OnwardTransitive DEF t

\* The chain of the lease transaction: rooms and workers move on, and what fails
\* fails with its worker.
LEMMA TickMoves ==
  ASSUME NEW c \in Controllers, Good(store), Tidy(store), TickTx(c)
  PROVE  /\ RoomsOnward(store, store') /\ WorkersOnward(store, store')
         /\ \A a \in Allocs : Phase(store, a) # "failed" /\ Phase(store', a) = "failed" =>
               LET w == store.allocations[a].worker IN
               /\ w \in Workers /\ WorkerPhase(store, w) \notin Down
               /\ WorkerPhase(store', w) = "lost"
<1>1. PICK aged, expired, pruned, trimmed, assigned, placed, scaled, last :
        TickChain(c, aged, expired, pruned, trimmed, assigned, placed, scaled, last)
  BY TickPhases
<1>2. /\ RoomsOnward(store, aged) /\ WorkersOnward(store, aged)
      /\ \A a \in Allocs : Phase(store, a) # "failed" /\ Phase(aged, a) = "failed" =>
            LET w == store.allocations[a].worker IN
            /\ w \in Workers /\ WorkerPhase(store, w) \notin Down /\ WorkerPhase(aged, w) = "lost"
  BY <1>1, AgeWorkersMoves DEF TickChain
<1>3. Onward(aged, expired)
  <2>1. PICK overdue \in SUBSET Expirable(aged) : expired = ExpireAllocations(aged, overdue)
    BY <1>1 DEF TickChain
  <2>2. Orphans(aged) \cup overdue \in SUBSET Allocs
    BY DEF Orphans, Expirable
  <2>3. RoomsMove(aged, expired) /\ expired.workers = aged.workers
    BY <1>1, <2>1, <2>2, CancelMoves DEF TickChain, ExpireAllocations, Reasons
  <2>4. QED BY <2>3, OnwardReflexive DEF Onward
<1>4. Onward(expired, pruned)
  BY <1>1, PruneAllocationsMoves, OnwardReflexive DEF TickChain, Onward
<1>5. Onward(pruned, trimmed)
  BY <1>1, PruneWorkersOnward DEF TickChain
<1>6. Onward(trimmed, assigned)
  BY <1>1, ReserveMoves, OnwardReflexive DEF TickChain, AssignPrepared, Onward
<1>7. Onward(aged, assigned)
  BY <1>3, <1>4, <1>5, <1>6, OnwardTransitive
<1>8. RoomsOnward(store, assigned) /\ WorkersOnward(store, assigned) /\ Tidy(assigned)
  BY <1>2, <1>7, RoomsTransitive, WorkersTransitive, TidyOnward DEF Onward, RoomsMove
<1>9. RoomsOnward(assigned, placed) /\ Unfailed(assigned, placed) /\ WorkersOnward(assigned, placed)
  BY <1>1, <1>8, PlaceMoves DEF TickChain
<1>10. Onward(placed, scaled) /\ Onward(scaled, last)
  BY <1>1, ScaleOutOnward, ScaleInOnward DEF TickChain
<1>11. Onward(placed, last)
  BY <1>10, OnwardTransitive
<1>12. store'.allocations = last.allocations /\ store'.workers = last.workers
  BY <1>1 DEF TickChain, Good, State
<1>13. /\ RoomsOnward(aged, last) /\ WorkersOnward(aged, last) /\ Unfailed(aged, last)
  BY <1>7, <1>9, <1>11, RoomsTransitive, WorkersTransitive DEF Onward, RoomsMove, Unfailed
<1>14. RoomsOnward(store, last) /\ WorkersOnward(store, last)
  BY <1>2, <1>13, RoomsTransitive, WorkersTransitive
<1>15. ASSUME NEW a \in Allocs, Phase(store, a) # "failed", Phase(last, a) = "failed"
       PROVE  LET w == store.allocations[a].worker IN
              /\ w \in Workers /\ WorkerPhase(store, w) \notin Down /\ WorkerPhase(last, w) = "lost"
  BY <1>2, <1>13, <1>15 DEF Unfailed, WorkersOnward, WorkerOnward
<1>16. QED BY <1>12, <1>14, <1>15 DEF RoomsOnward, WorkersOnward

-----------------------------------------------------------------------------
(* The transaction of an agent's heartbeat.                                *)

\* A heartbeat does not take a worker out of the end of its life.
LEMMA ObserveOnward ==
  ASSUME NEW s, Good(s), NEW w \in Workers, Exists(s, w), WorkerPhase(s, w) \notin Down,
         NEW ready \in BOOLEAN, NEW metrics \in Metrics
  PROVE  Onward(s, Observe(s, w, ready, metrics))
<1> DEFINE p == s.workers[w]
           serving == p.host /\ ready /\ p.state \notin Unmoved
           phase == IF ~serving THEN p.state ELSE IF p.draining THEN "draining" ELSE "ready"
           r == [p EXCEPT !.heartbeat = "fresh", !.ready = ready, !.metrics = metrics,
                          !.state = phase]
<1>1. p \in Worker
  BY DEF Good, State
<1>2. phase = p.state \/ (phase \in {"ready", "draining"} /\ p.state \notin Unmoved)
  OBVIOUS
<1>3. /\ r.state = phase /\ r.draining = p.draining /\ r.drainAck = p.drainAck
      /\ r.maxRooms = p.maxRooms
  <2> HIDE DEF p, phase
  <2>1. QED BY <1>1 DEF Worker
<1>4. Observe(s, w, ready, metrics) = [s EXCEPT !.workers[w] = r]
  BY DEF Observe
<1>5. p.state \notin Down \cup {"absent", "pruned"}
  BY DEF Exists
<1> HIDE DEF p, phase, r
<1>6. WorkerOnward(p, r)
  <2>1. CASE phase = p.state
    BY <1>3, <1>5, <2>1, WorkerSame
  <2>2. CASE phase # p.state
    <3>1. r.state \in {"ready", "draining"} /\ p.state \notin {"stopping", "lost", "stopped", "failed", "pruned"}
      BY <1>2, <1>3, <1>5, <2>2 DEF Unmoved, Down
    <3>2. QED BY <1>3, <3>1, WorkerFree DEF Ending
  <2>3. QED BY <2>1, <2>2
<1>7. QED BY <1>4, <1>6, OneWorkerOnward DEF p

\* The results of commands move rooms on.
LEMMA AcknowledgeOnward ==
  ASSUME NEW s, Good(s), NEW w \in Workers, NEW acks, NEW late, NEW nacks
  PROVE  Onward(s, Acknowledge(s, w, acks, late, nacks))
<1>1. PICK opened, done, prepared, assigned, freed, released :
        AckChain(s, w, acks, late, nacks, opened, done, prepared, assigned, freed, released)
  BY AcknowledgeSteps
<1> DEFINE cleaned == RoomsOf(s, acks, "cancel_room", "cancelling")
           byPlayer == {a \in cleaned : s.allocations[a].reason = "cancelled"}
           failing == RefusedRooms(s, w, acks, late) \cup RoomsOf(s, nacks, "prepare_room", "preparing")
           ack == s.workers[w].drainAck \/ DrainCommand(w) \in acks
           r == [s.workers[w] EXCEPT !.drainAck = ack]
<1>2. Good(done) /\ Good(prepared) /\ Good(assigned) /\ Good(freed) /\ Good(released)
  BY <1>1 DEF AckChain
<1>3. /\ opened \subseteq {a \in Allocs : Phase(s, a) = "preparing"}
      /\ prepared = Leave(done, opened, "prepared", "none")
      /\ assigned \in {Reserve(prepared, opened), prepared}
      /\ freed = Leave(assigned, byPlayer, "cancelled", "none")
      /\ released = Leave(freed, cleaned \ byPlayer, "expired", "none")
      /\ Acknowledge(s, w, acks, late, nacks) = Cancel(released, failing, "other")
  BY <1>1 DEF AckChain, RoomsOf, Finish
<1>4. done.allocations = s.allocations /\ done.workers = [s.workers EXCEPT ![w] = r]
  BY <1>1 DEF AckChain, Good, State
<1>5. Onward(s, done)
  <2>1. /\ r.state = s.workers[w].state /\ r.draining = s.workers[w].draining
        /\ r.boot = s.workers[w].boot /\ r.maxRooms = s.workers[w].maxRooms
        /\ s.workers[w].drainAck => r.drainAck
    <3>1. s.workers[w] \in Worker
      BY DEF Good, State
    <3>2. ack \in BOOLEAN /\ (s.workers[w].drainAck => ack)
      OBVIOUS
    <3> HIDE DEF ack
    <3>3. QED BY <3>1, <3>2 DEF Worker
  <2>2. WorkerOnward(s.workers[w], r)
    <3> HIDE DEF r
    <3>1. QED BY <2>1, Zenon DEF WorkerOnward
  <2>3. RoomsMove(s, done)
    BY <1>4, OnwardReflexive
  <2>4. \A v \in Workers : done.workers[v] = IF v = w THEN r ELSE s.workers[v]
    BY <1>4 DEF Good, State
  <2>5. \A v \in Workers : WorkerOnward(s.workers[v], s.workers[v])
    BY WorkerSame
  <2> HIDE DEF r
  <2>6. QED BY <2>2, <2>3, <2>4, <2>5 DEF Onward, WorkersOnward
<1> HIDE DEF r, ack
<1>6. opened \subseteq {a \in Allocs : InProgress(done, a)}
  BY <1>3, <1>4 DEF InProgressPhases, WaitingPhases
<1>7. RoomsMove(done, prepared) /\ prepared.workers = done.workers
  BY <1>2, <1>3, <1>6, LeaveMoves DEF InProgressPhases, WaitingPhases
<1>8. RoomsMove(prepared, assigned) /\ assigned.workers = prepared.workers
  BY <1>2, <1>3, ReserveMoves, OnwardReflexive
<1>9. cleaned \subseteq {a \in Allocs : Phase(assigned, a) = "cancelling"}
  <2> SUFFICES ASSUME NEW a \in Allocs, Phase(s, a) = "cancelling"
               PROVE  Phase(assigned, a) = "cancelling"
    BY DEF RoomsOf
  <2>1. prepared.allocations[a] = s.allocations[a]
    BY <1>2, <1>3, <1>4 DEF Leave, Good, State
  <2>2. Reserve(prepared, opened).allocations[a] = prepared.allocations[a]
    BY <1>2, <2>1 DEF Reserve, Good, State
  <2>3. QED BY <1>3, <2>1, <2>2
<1> HIDE DEF cleaned, failing
<1>10. RoomsMove(assigned, freed) /\ freed.workers = assigned.workers
  <2>1. byPlayer \subseteq {a \in Allocs : InProgress(assigned, a)}
    BY <1>9 DEF InProgressPhases
  <2> HIDE DEF byPlayer
  <2>2. QED BY <1>2, <1>3, <2>1, LeaveMoves DEF TerminalPhases
<1>11. cleaned \ byPlayer \subseteq {a \in Allocs : InProgress(freed, a)}
  <2>1. \A a \in Allocs \ byPlayer : freed.allocations[a] = assigned.allocations[a]
    BY <1>2, <1>3 DEF Leave, Good, State
  <2> HIDE DEF byPlayer
  <2>2. QED BY <1>9, <2>1 DEF InProgressPhases
<1>12. RoomsMove(freed, released) /\ released.workers = freed.workers
  <2> HIDE DEF byPlayer
  <2>1. QED BY <1>2, <1>3, <1>11, LeaveMoves DEF TerminalPhases
<1>13. RoomsMove(released, Cancel(released, failing, "other"))
       /\ Cancel(released, failing, "other").workers = released.workers
  <2>1. failing \in SUBSET Allocs
    BY DEF failing, RefusedRooms, RoomsOf
  <2>2. QED BY <1>2, <2>1, CancelMoves DEF Reasons
<1> HIDE DEF byPlayer
<1>14. RoomsMove(done, Cancel(released, failing, "other"))
       /\ Cancel(released, failing, "other").workers = done.workers
  BY <1>7, <1>8, <1>10, <1>12, <1>13, MoveTransitive
<1>15. Onward(done, Cancel(released, failing, "other"))
  BY <1>14, OnwardReflexive DEF Onward
<1>16. QED BY <1>3, <1>5, <1>15, OnwardTransitive

\* The rooms an agent reports move on, and its worker stays as it is.
LEMMA ReportOnward ==
  ASSUME NEW s, Good(s), NEW w \in Workers, NEW report
  PROVE  Onward(s, ReportRooms(s, w, report))
<1>1. PICK seen, over : ReportChain(s, w, report, seen, over)
  BY ReportSteps
<1>2. RoomsMove(s, seen)
  <2>1. ASSUME NEW a \in Allocs
        PROVE  /\ RoomOnward(s.allocations[a], seen.allocations[a])
               /\ seen.allocations[a].worker = s.allocations[a].worker
               /\ seen.allocations[a].state = "failed" => s.allocations[a].state = "failed"
    <3>1. Untouched(s.allocations[a], seen.allocations[a])
      BY <1>1 DEF ReportChain
    <3>2. QED BY <3>1 DEF Untouched, RoomOnward, InProgressPhases, WaitingPhases, TerminalPhases
  <2>2. QED BY <2>1 DEF RoomsMove, RoomsOnward, Unfailed, Unplaced
<1>3. WorkersOnward(s, seen)
  <2>1. PICK b \in BOOLEAN :
          seen.workers = [s.workers EXCEPT ![w] = [s.workers[w] EXCEPT !.players = b]]
    BY <1>1 DEF ReportChain
  <2> DEFINE r == [s.workers[w] EXCEPT !.players = b]
  <2>2. \A v \in Workers : seen.workers[v] = IF v = w THEN r ELSE s.workers[v]
    BY <2>1 DEF Good, State
  <2>3. /\ r.state = s.workers[w].state /\ r.draining = s.workers[w].draining
        /\ r.drainAck = s.workers[w].drainAck /\ r.boot = s.workers[w].boot
        /\ r.maxRooms = s.workers[w].maxRooms
    <3>1. s.workers[w] \in Worker
      BY DEF Good, State
    <3>2. QED BY <3>1 DEF Worker
  <2> HIDE DEF r
  <2>4. \A v \in Workers : WorkerOnward(s.workers[v], seen.workers[v])
    BY <2>2, <2>3, WorkerSame
  <2>5. QED BY <2>4 DEF WorkersOnward
<1>4. Onward(seen, ReportRooms(s, w, report))
  <2>1. Good(seen) /\ ReportRooms(s, w, report) = Leave(seen, over, "completed", "none")
    BY <1>1 DEF ReportChain, Finish
  <2>2. over \subseteq {a \in Allocs : InProgress(seen, a)}
    BY <1>1 DEF ReportChain
  <2>3. QED BY <2>1, <2>2, LeaveMoves, OnwardReflexive DEF Onward, TerminalPhases
<1>5. QED BY <1>2, <1>3, <1>4, OnwardTransitive DEF Onward

LEMMA HeartbeatOnward ==
  ASSUME NEW s, Good(s), NEW w \in Workers, Exists(s, w), WorkerPhase(s, w) \notin Down,
         NEW ready \in BOOLEAN, NEW metrics \in Metrics, NEW acks, NEW late, NEW nacks, NEW report
  PROVE  Onward(s, HeartbeatTx(s, w, ready, metrics, acks, late, nacks, report))
<1> DEFINE observed == Observe(s, w, ready, metrics)
           answered == Acknowledge(observed, w, acks, late, nacks)
<1>1. Good(observed) /\ Onward(s, observed)
  BY ObserveGood, ObserveOnward
<1> HIDE DEF observed
<1>2. Good(answered) /\ Onward(observed, answered)
  BY <1>1, AcknowledgeGood, AcknowledgeOnward
<1> HIDE DEF answered
<1>3. Onward(answered, ReportRooms(answered, w, report))
  BY <1>2, ReportOnward
<1>4. QED BY <1>1, <1>2, <1>3, OnwardTransitive DEF HeartbeatTx, answered, observed

-----------------------------------------------------------------------------
(* What a controller makes of the provider's answers.                      *)

\* A room fails only with its worker.
FailedWithWorker(s, t) ==
    \A a \in Allocs : Phase(s, a) # "failed" /\ Phase(t, a) = "failed" =>
        LET w == s.allocations[a].worker IN
        w \in Workers /\ WorkerPhase(s, w) \notin Down /\ WorkerPhase(t, w) \in Down

\* Every step but those that create an allocation.
Lives(s, t) ==
    /\ RoomsOnward(s, t)
    /\ \A w \in Workers : \/ WorkerOnward(s.workers[w], t.workers[w])
                          \/ WorkerStopped(s.workers[w], t.workers[w])
    /\ FailedWithWorker(s, t)

LEMMA OnwardLives ==
  ASSUME NEW s, NEW t, Onward(s, t)
  PROVE  Lives(s, t) /\ Unplaced(s, t)
  BY DEF Onward, RoomsMove, Unfailed, WorkersOnward, Lives, FailedWithWorker

\* Giving one worker up.
LEMMA CloseLives ==
  ASSUME NEW s, Good(s), NEW w \in Workers, NEW phase \in {"stopped", "lost"},
         WorkerPhase(s, w) \notin {"failed", "pruned"},
         phase = "lost" => WorkerPhase(s, w) # "stopped"
  PROVE  Lives(s, Close(s, {w}, phase)) /\ Unplaced(s, Close(s, {w}, phase))
<1> DEFINE t == Close(s, {w}, phase)
<1>1. /\ RoomsOnward(s, t) /\ Unplaced(s, t)
      /\ \A a \in Allocs : Phase(s, a) # "failed" /\ Phase(t, a) = "failed"
            => InProgress(s, a) /\ s.allocations[a].worker = w
  BY CloseMoves DEF Down
<1>2. /\ \A v \in Workers \ {w} : t.workers[v] = s.workers[v]
      /\ t.workers[w].state = phase /\ t.workers[w].draining = s.workers[w].draining
      /\ t.workers[w].drainAck = s.workers[w].drainAck
      /\ t.workers[w].maxRooms = s.workers[w].maxRooms
  BY CloseWorkers DEF Down
<1> HIDE DEF t
<1>3. \/ WorkerOnward(s.workers[w], t.workers[w])
      \/ WorkerStopped(s.workers[w], t.workers[w])
  BY <1>2 DEF WorkerOnward, WorkerStopped, Ending
<1>4. \A v \in Workers : \/ WorkerOnward(s.workers[v], t.workers[v])
                         \/ WorkerStopped(s.workers[v], t.workers[v])
  BY <1>2, <1>3, WorkerSame
<1>5. FailedWithWorker(s, t)
  BY <1>1, <1>2, NoneAssumption DEF FailedWithWorker, Good, RoomsServed, ServingPhases, Down
<1>6. QED BY <1>1, <1>4, <1>5 DEF Lives, t

\* A machine too short-lived is stopped while it boots.
LEMMA LifetimeOnward ==
  ASSUME NEW s, Good(s), NEW w \in Workers, NEW short \in BOOLEAN
  PROVE  /\ Onward(s, Lifetime(s, w, short))
         /\ \/ WorkerPhase(Lifetime(s, w, short), w) = "stopping"
            \/ Lifetime(s, w, short).workers = s.workers
         /\ Lifetime(s, w, short).allocations = s.allocations
<1>1. CASE ~short
  BY <1>1, OnwardReflexive DEF Lifetime, Onward
<1>2. CASE short /\ s.workers[w].state \notin {"launching", "bootstrapping"}
  <2>1. s.workers[w] \in Worker
    BY DEF Good, State
  <2>2. [s.workers[w] EXCEPT !.state = s.workers[w].state] = s.workers[w]
    BY <2>1 DEF Worker
  <2>3. Lifetime(s, w, short).allocations = s.allocations /\ Lifetime(s, w, short).workers = s.workers
    BY <1>2, <2>1, <2>2 DEF Lifetime, Good, State
  <2>4. QED BY <2>3, OnwardReflexive DEF Onward
<1>3. CASE short /\ s.workers[w].state \in {"launching", "bootstrapping"}
  <2> DEFINE u == SetPhase(s, {w}, "stopping")
             t == Lifetime(s, w, short)
  <2>1. t.allocations = s.allocations /\ t.workers = u.workers /\ u.allocations = s.allocations
    BY <1>3 DEF Lifetime, SetPhase, Good, State
  <2>2. Onward(s, u)
    BY <1>3, SetPhaseOnward DEF Ending
  <2>3. WorkerPhase(u, w) = "stopping"
    BY DEF SetPhase, Good, State, Worker
  <2> HIDE DEF t, u
  <2>4. Onward(u, t)
    BY <2>1, OnwardReflexive DEF Onward
  <2>5. QED BY <2>1, <2>2, <2>3, <2>4, OnwardTransitive DEF t
<1>4. QED BY <1>1, <1>2, <1>3

\* A running machine with an address serves its worker.
LEMMA ServeOnward ==
  ASSUME NEW s, Good(s), NEW w \in Workers, WorkerPhase(s, w) \in Polled \ {"lost"}
  PROVE  Onward(s, Serve(s, w))
<1> DEFINE worker == s.workers[w]
           phase == IF worker.ready /\ worker.boot /\ worker.heartbeat = "fresh"
                    THEN IF worker.draining THEN "draining" ELSE "ready"
                    ELSE IF worker.state \in {"launching", "bootstrapping"} THEN "bootstrapping"
                    ELSE IF worker.draining THEN worker.state ELSE "suspect"
           r == [worker EXCEPT !.host = TRUE, !.state = phase]
<1>1. worker \in Worker /\ phase \in {"draining", "ready", "bootstrapping", "suspect", worker.state}
  BY DEF Good, State
<1>2. r.state = phase /\ r.maxRooms = worker.maxRooms
  <2> HIDE DEF worker, phase
  <2>1. QED BY <1>1 DEF Worker
<1>3. Serve(s, w) = [s EXCEPT !.workers[w] = r]
  BY DEF Serve
<1>4. worker.state \in Polled \ {"lost"}
  OBVIOUS
<1> HIDE DEF worker, phase, r
<1>5. WorkerOnward(worker, r)
  <2>1. worker.state \notin Ending /\ r.state \notin {"absent", "requested", "pruned"}
    BY <1>1, <1>2, <1>4 DEF Ending, Polled
  <2>2. QED BY <1>2, <2>1, WorkerFree
<1>6. QED BY <1>3, <1>5, OneWorkerOnward DEF worker

\* The answer to a poll of a worker in a polled phase.
LEMMA PollLives ==
  ASSUME NEW s, Good(s), NEW w \in Workers, WorkerPhase(s, w) \in Polled,
         NEW reply, reply.short \in BOOLEAN, reply.status \in PollAnswers, NEW overdue \in BOOLEAN
  PROVE  Lives(s, Poll(s, w, reply, overdue)) /\ Unplaced(s, Poll(s, w, reply, overdue))
<1> DEFINE t == Lifetime(s, w, reply.short)
           u == Poll(s, w, reply, overdue)
<1>1. Good(t) /\ Onward(s, t) /\ (WorkerPhase(t, w) = "stopping" \/ t.workers = s.workers)
      /\ t.allocations = s.allocations
  BY LifetimeGood, LifetimeOnward
<1>2. \/ u = s \/ u = t
      \/ u = Close(s, {w}, "stopped") \/ u = Close(s, {w}, "lost")
      \/ /\ WorkerPhase(t, w) # "stopping"
         /\ \/ u = Close(t, {w}, "stopped")
            \/ /\ WorkerPhase(t, w) # "lost"
               /\ \/ WorkerPhase(t, w) \in {"launching", "bootstrapping"}
                     /\ u = SetPhase(t, {w}, "stopping")
                  \/ u = Serve(t, w)
  <2> HIDE DEF t
  <2>1. QED BY DEF Poll, PollAnswers, Stopped, Lost, t
<1> HIDE DEF t, u
<1>3. Lives(s, s) /\ Unplaced(s, s) /\ Lives(s, t) /\ Unplaced(s, t)
  BY <1>1, OnwardReflexive, OnwardLives DEF Onward
<1>4. Lives(s, Close(s, {w}, "stopped")) /\ Unplaced(s, Close(s, {w}, "stopped"))
      /\ Lives(s, Close(s, {w}, "lost")) /\ Unplaced(s, Close(s, {w}, "lost"))
  BY CloseLives DEF Polled
<1>5. ASSUME WorkerPhase(t, w) # "stopping"
      PROVE  /\ t.workers = s.workers /\ t.allocations = s.allocations
             /\ \A v : Lives(t, v) /\ Unplaced(t, v) => Lives(s, v) /\ Unplaced(s, v)
  BY <1>1, <1>5 DEF Lives, RoomsOnward, FailedWithWorker, Unplaced
<1>6. ASSUME WorkerPhase(t, w) # "stopping"
      PROVE  Lives(t, Close(t, {w}, "stopped")) /\ Unplaced(t, Close(t, {w}, "stopped"))
  BY <1>1, <1>6, CloseLives DEF Polled
<1>7. ASSUME WorkerPhase(t, w) \in {"launching", "bootstrapping"}
      PROVE  Lives(t, SetPhase(t, {w}, "stopping")) /\ Unplaced(t, SetPhase(t, {w}, "stopping"))
  BY <1>1, <1>7, SetPhaseOnward, OnwardLives DEF Ending
<1>8. ASSUME WorkerPhase(t, w) \notin {"stopping", "lost"}
      PROVE  Lives(t, Serve(t, w)) /\ Unplaced(t, Serve(t, w))
  BY <1>1, <1>8, ServeOnward, OnwardLives
<1>9. QED BY <1>2, <1>3, <1>4, <1>5, <1>6, <1>7, <1>8 DEF u

\* The outcome of a create request that was recorded as starting.
LEMMA CreatedOnward ==
  ASSUME NEW s, Good(s), NEW w \in Workers, WorkerPhase(s, w) = "starting",
         NEW reply, reply.short \in BOOLEAN, reply.status \in PostAnswers
  PROVE  Onward(s, Created(s, w, reply))
<1>1. \A phase \in {"unknown", "failed"} : Good(SetPhase(s, {w}, phase)) /\ Onward(s, SetPhase(s, {w}, phase))
  BY NoRooms, SetPhaseGood, SetPhaseOnward DEF Ending, WorkerPhases, ServingPhases
<1>2. CASE reply.status \in {"unknown", "rejected"}
  BY <1>1, <1>2 DEF Created
<1>3. CASE reply.status = "misconfigured"
  <2> DEFINE u == SetPhase(s, {w}, "failed")
             t == [u EXCEPT !.blocked = TRUE]
  <2>1. Created(s, w, reply) = t
    BY <1>3 DEF Created
  <2>2. t.allocations = u.allocations /\ t.workers = u.workers
    BY DEF SetPhase, Good, State
  <2>3. Onward(s, u)
    BY <1>1
  <2> HIDE DEF u, t
  <2>4. QED BY <2>1, <2>2, <2>3, OnwardReflexive, OnwardTransitive DEF Onward
<1>4. CASE reply.status = "created"
  <2> DEFINE r == [s.workers[w] EXCEPT !.provider = TRUE, !.state = "launching"]
             t == [s EXCEPT !.workers[w] = r]
  <2>1. r \in Worker /\ r.state = "launching" /\ r.maxRooms = s.workers[w].maxRooms
    <3>1. s.workers[w] \in Worker
      BY DEF Good, State
    <3>2. QED BY <3>1 DEF Worker, WorkerPhases
  <2>2. Created(s, w, reply) = Lifetime(t, w, reply.short)
    BY <1>4 DEF Created, Good, State
  <2> HIDE DEF r
  <2>3. Good(t) /\ Onward(s, t)
    BY <2>1, WorkerFree, OneWorkerOnward, NoRooms, WorkerChanged DEF Ending, ServingPhases
  <2> HIDE DEF t
  <2>4. QED BY <2>2, <2>3, LifetimeOnward, OnwardTransitive
<1>5. QED BY <1>2, <1>3, <1>4 DEF PostAnswers

\* A machine found in the provider's list is taken over.
LEMMA AdoptOnward ==
  ASSUME NEW s, Good(s), NEW w \in Workers, WorkerPhase(s, w) = "unknown"
  PROVE  Onward(s, Adopt(s, w))
<1> DEFINE r == [s.workers[w] EXCEPT !.provider = TRUE, !.state = "launching"]
<1>1. r.state = "launching" /\ r.maxRooms = s.workers[w].maxRooms
  <2>1. s.workers[w] \in Worker
    BY DEF Good, State
  <2>2. QED BY <2>1 DEF Worker
<1>2. Adopt(s, w) = [s EXCEPT !.workers[w] = r]
  BY DEF Adopt, Good, State
<1> HIDE DEF r
<1>3. QED BY <1>1, <1>2, WorkerFree, OneWorkerOnward DEF Ending

-----------------------------------------------------------------------------
(* The steps of the system.                                                *)

\* An allocation is created where there was none, for players who are free.
Added(s, t) ==
    /\ WorkersOnward(s, t)
    /\ \E a \in Allocs, users \in SUBSET Users, key \in Keys \cup Workers,
          preferred \in Workers \cup {None} :
        /\ CanAllocate(s, users, key) /\ Phase(s, a) = "absent"
        /\ t.allocations = AddAllocation(s, a, users, key, preferred).allocations

\* What a step does to the store.
Moves(s, t) == (Lives(s, t) /\ Unplaced(s, t)) \/ Added(s, t)

\* A step that leaves the records alone.
LEMMA StillMoves ==
  ASSUME NEW s, NEW t, t.allocations = s.allocations, t.workers = s.workers
  PROVE  Moves(s, t)
  BY OnwardReflexive, OnwardLives DEF Onward, Moves

LEMMA OnwardMoves ==
  ASSUME NEW s, NEW t, Onward(s, t)
  PROVE  Moves(s, t)
  BY OnwardLives DEF Moves

\* The calls of clients.
LEMMA ClientMoves ==
  ASSUME IInv, Client
  PROVE  Moves(store, store')
<1>0. Good(store)
  BY IInvUse
<1>1. ASSUME NEW users \in Pairs, NEW key \in Keys, Allocate(users, key)
      PROVE  Moves(store, store')
  <2>1. CanAllocate(store, users, key)
        /\ \E a \in Allocs : NextSlot(store, a) /\ store' = AddAllocation(store, a, users, key, None)
    BY <1>1 DEF Allocate, Commit
  <2>2. PICK a \in Allocs : NextSlot(store, a) /\ store' = AddAllocation(store, a, users, key, None)
    BY <2>1
  <2>3. store'.workers = store.workers
    BY <1>0, <2>2 DEF AddAllocation, Good, State
  <2>4. WorkersOnward(store, store')
    BY <2>3, OnwardReflexive
  <2>5. Phase(store, a) = "absent" /\ users \in SUBSET Users /\ key \in Keys \cup Workers
    BY <2>2, InputsAssumption DEF NextSlot
  <2>6. QED BY <2>1, <2>2, <2>4, <2>5 DEF Added, Moves
<1>2. ASSUME NEW a \in Allocs, CancelByPlayer(a)
      PROVE  Moves(store, store')
  <2>1. store' = Cancel(store, {a}, "cancelled") /\ {a} \in SUBSET Allocs
    BY <1>2 DEF CancelByPlayer, Commit
  <2>2. QED BY <1>0, <2>1, CancelMoves, OnwardReflexive, OnwardMoves DEF Onward, Reasons
<1>3. ASSUME NEW a \in Allocs, Join(a)
      PROVE  Moves(store, store')
  BY <1>0, <1>3, ReserveMoves, OnwardReflexive, OnwardMoves DEF Join, Commit, Onward
<1>4. ASSUME NEW w \in Workers, NEW n \in Capacities, Create(w, n)
      PROVE  Moves(store, store')
  BY <1>0, <1>4, AddWorkerOnward, OnwardMoves DEF Create, Commit
<1>5. ASSUME NEW w \in Workers, NEW n \in Capacities, NEW users \in Pairs, CreateWithUsers(w, n, users)
      PROVE  Moves(store, store')
  <2> DEFINE t == AddWorker(store, w, n)
  <2>1. Good(t) /\ Onward(store, t) /\ t.allocations = store.allocations
    BY <1>0, <1>5, AddWorkerGood, AddWorkerOnward, InputsAssumption DEF CreateWithUsers, AddWorker, Good, State
  <2>2. CanAllocate(store, users, w)
        /\ \E a \in Allocs : NextSlot(store, a) /\ store' = AddAllocation(t, a, users, w, w)
    BY <1>5 DEF CreateWithUsers, Commit
  <2>3. PICK a \in Allocs : NextSlot(store, a) /\ store' = AddAllocation(t, a, users, w, w)
    BY <2>2
  <2> HIDE DEF t
  <2>4. store'.workers = t.workers
        /\ store'.allocations = AddAllocation(store, a, users, w, w).allocations
    BY <1>0, <2>1, <2>3 DEF AddAllocation, Good, State
  <2>5. WorkersOnward(store, store')
    BY <2>1, <2>4 DEF Onward, WorkersOnward
  <2>6. Phase(store, a) = "absent" /\ users \in SUBSET Users /\ w \in Keys \cup Workers
    BY <2>3, InputsAssumption DEF NextSlot
  <2>7. QED BY <2>2, <2>4, <2>5, <2>6 DEF Added, Moves
<1>6. ASSUME NEW w \in Workers, Delete(w) \/ Drain(w)
      PROVE  Moves(store, store')
  BY <1>0, <1>6, BeginDrainOnward, OnwardMoves DEF Delete, Drain, Drainable, Commit, Ending
<1>7. ASSUME NEW w \in Workers, NEW some \in Posted, PostPlayers(w, some)
      PROVE  Moves(store, store')
  <2> DEFINE r == [store.workers[w] EXCEPT !.players = some]
  <2>1. store.workers[w] \in Worker
    BY <1>0 DEF Good, State
  <2>2. WorkerOnward(store.workers[w], r)
    BY <2>1, WorkerSame DEF Worker
  <2>3. store' = [store EXCEPT !.workers[w] = r]
    BY <1>7 DEF PostPlayers, Commit
  <2> HIDE DEF r
  <2>4. QED BY <1>0, <2>2, <2>3, OneWorkerOnward, OnwardMoves
<1>8. ASSUME RetryCreation
      PROVE  Moves(store, store')
  BY <1>0, <1>8, StillMoves DEF RetryCreation, Commit, Good, State
<1>9. QED BY <1>1, <1>2, <1>3, <1>4, <1>5, <1>6, <1>7, <1>8 DEF Client

\* The requests of agents, and the passing of time.
LEMMA AgentMoves ==
  ASSUME IInv, Tidy(store), Agent \/ Time
  PROVE  Moves(store, store')
<1>0. Good(store) /\ \A w \in Workers : store.workers[w] \in Worker
  BY IInvUse DEF Good, State
<1>1. ASSUME NEW w \in Workers, Bootstrap(w)
      PROVE  Moves(store, store')
  <2> DEFINE r == [store.workers[w] EXCEPT !.boot = TRUE]
  <2>1. WorkerPhase(store, w) \notin {"absent", "pruned"}
    BY <1>1 DEF Bootstrap, Exists
  <2>2. WorkerOnward(store.workers[w], r)
    BY <1>0, <2>1, WorkerSame DEF Worker
  <2>3. store' = [store EXCEPT !.workers[w] = r]
    BY <1>1 DEF Bootstrap, Commit
  <2> HIDE DEF r
  <2>4. QED BY <1>0, <2>2, <2>3, OneWorkerOnward, OnwardMoves
<1>2. ASSUME NEW w \in Workers, Heartbeat(w)
      PROVE  Moves(store, store')
  <2>1. PICK ready \in BOOLEAN, metrics \in Readings, acks \in SUBSET Pending(store, w),
             report \in Reports(store, w) :
          \E late \in SUBSET acks, nacks \in SUBSET Pending(store, w) :
            Commit(HeartbeatTx(store, w, ready, metrics, acks, late, nacks, report))
    BY <1>2 DEF Heartbeat
  <2>2. PICK late \in SUBSET acks, nacks \in SUBSET Pending(store, w) :
          store' = HeartbeatTx(store, w, ready, metrics, acks, late, nacks, report)
    BY <2>1 DEF Commit
  <2>3. metrics \in Metrics /\ WorkerPhase(store, w) \notin Down /\ store.workers[w].boot
    BY <1>2, InputsAssumption DEF Heartbeat
  <2>4. Exists(store, w)
    BY <2>3 DEF Exists, Tidy
  <2>5. QED BY <1>0, <2>2, <2>3, <2>4, HeartbeatOnward, OnwardMoves
<1>3. ASSUME NEW w \in Workers, NEW age, store' = [store EXCEPT !.workers[w].heartbeat = age]
      PROVE  Moves(store, store')
  <2> DEFINE r == [store.workers[w] EXCEPT !.heartbeat = age]
  <2>1. WorkerOnward(store.workers[w], r)
    BY <1>0, WorkerSame DEF Worker
  <2>2. store' = [store EXCEPT !.workers[w] = r]
    BY <1>3
  <2> HIDE DEF r
  <2>3. QED BY <1>0, <2>1, <2>2, OneWorkerOnward, OnwardMoves
<1>4. ASSUME NEW w \in Workers, LifetimeEnds(w)
      PROVE  Moves(store, store')
  <2> DEFINE r == [store.workers[w] EXCEPT !.ending = TRUE]
  <2>1. WorkerOnward(store.workers[w], r)
    BY <1>0, WorkerSame DEF Worker
  <2>2. store' = [store EXCEPT !.workers[w] = r]
    BY <1>4 DEF LifetimeEnds, Commit
  <2> HIDE DEF r
  <2>3. QED BY <1>0, <2>1, <2>2, OneWorkerOnward, OnwardMoves
<1>5. ASSUME NEW w \in Workers, HeartbeatAges(w)
      PROVE  Moves(store, store')
  BY <1>3, <1>5 DEF HeartbeatAges, Commit
<1>6. QED BY <1>1, <1>2, <1>4, <1>5 DEF Agent, Time

\* The steps of a tick other than its lease transaction.
LEMMA ControllerMoves ==
  ASSUME IInv, NEW c \in Controllers,
         \/ Pick(c) \/ PickNone(c) \/ Refused(c) \/ Crash(c)
         \/ StartBegin(c) \/ Post(c) \/ PostUnknown(c) \/ PostCreated(c) \/ PostRejected(c)
         \/ StartEnd(c) \/ ListCall(c) \/ ReconcileEnd(c) \/ GetCall(c) \/ PollEnd(c)
         \/ StopCheck(c) \/ StopBusy(c) \/ DeleteCall(c) \/ ConfirmCall(c) \/ StopEnd(c)
  PROVE  Moves(store, store')
<1> DEFINE w == ctl[c].worker
           reply == ctl[c].reply
<1>0. /\ Good(store) /\ Formed(ctl[c]) /\ (Leads(c) => Fits(store, ctl[c]))
      /\ reply \in Reply
  BY IInvUse DEF IInv, TypeOK, Control
<1>1. CASE store' = store
  BY <1>1, StillMoves
<1>2. CASE StartBegin(c)
  <2>1. /\ WorkerPhase(store, w) = "requested" /\ store' = SetPhase(store, {w}, "starting")
    BY <1>2 DEF StartBegin
  <2>2. QED BY <1>0, <2>1, SetPhaseOnward, OnwardMoves DEF Ending
<1>3. CASE StartEnd(c) /\ Leads(c)
  <2>1. At(c, "posted") /\ store' = Created(store, w, reply)
    BY <1>3 DEF StartEnd
  <2>2. w \in Workers /\ WorkerPhase(store, w) = "starting" /\ reply.status \in PostAnswers
        /\ reply.short \in BOOLEAN
    BY <1>0, <1>3, <2>1 DEF At, Formed, Fits, Reply
  <2> HIDE DEF w, reply
  <2>3. QED BY <1>0, <2>1, <2>2, CreatedOnward, OnwardMoves
<1>4. CASE ReconcileEnd(c) /\ store' # store
  <2>1. /\ At(c, "listed") /\ WorkerPhase(store, w) = "unknown" /\ store' = Adopt(store, w)
    BY <1>4 DEF ReconcileEnd
  <2>2. w \in Workers
    BY <1>0, <2>1 DEF At, Formed
  <2>3. QED BY <1>0, <2>1, <2>2, AdoptOnward, OnwardMoves
<1>5. CASE PollEnd(c) /\ Leads(c)
  <2>1. At(c, "got") /\ \E overdue \in BOOLEAN : store' = Poll(store, w, reply, overdue)
    BY <1>5 DEF PollEnd
  <2>2. w \in Workers /\ WorkerPhase(store, w) \in Polled /\ reply.status \in PollAnswers
        /\ reply.short \in BOOLEAN
    BY <1>0, <1>5, <2>1 DEF At, Formed, Fits, Reply
  <2> HIDE DEF w, reply
  <2>3. QED BY <1>0, <2>1, <2>2, PollLives DEF Moves
<1>6. CASE StopEnd(c) /\ store' # store
  <2>1. /\ At(c, "confirmed") /\ Leads(c) /\ store' = Close(store, {w}, "stopped")
    BY <1>6 DEF StopEnd, Stopped
  <2>2. w \in Workers /\ WorkerPhase(store, w) = "stopping"
    BY <1>0, <2>1 DEF At, Formed, Fits
  <2>3. QED BY <1>0, <2>1, <2>2, CloseLives DEF Moves
<1>7. store' = store \/ StartBegin(c) \/ (StartEnd(c) /\ Leads(c)) \/ ReconcileEnd(c)
      \/ (PollEnd(c) /\ Leads(c)) \/ StopEnd(c)
  BY DEF Pick, PickNone, Refused, Crash, Post, PostUnknown, PostCreated, PostRejected, StartEnd,
     ListCall, GetCall, PollEnd, StopCheck, StopBusy, DeleteCall, ConfirmCall
<1>8. QED BY <1>1, <1>2, <1>3, <1>4, <1>5, <1>6, <1>7

\* Every step, with the lease transaction apart: it is the one that places rooms.
LEMMA StepMoves ==
  ASSUME IInv, Tidy(store), [Next]_vars
  PROVE  Moves(store, store') \/ \E c \in Controllers : TickTx(c) /\ Lives(store, store')
                                                        /\ WorkersOnward(store, store')
<1>1. CASE Client
  BY <1>1, ClientMoves
<1>2. CASE Agent \/ Time
  BY <1>2, AgentMoves
<1>3. CASE Controller
  <2>1. PICK c \in Controllers :
          \/ TickTx(c) \/ Pick(c) \/ PickNone(c) \/ Refused(c) \/ Crash(c)
          \/ StartBegin(c) \/ Post(c) \/ PostUnknown(c) \/ PostCreated(c) \/ PostRejected(c)
          \/ StartEnd(c)
          \/ ListCall(c) \/ ReconcileEnd(c)
          \/ GetCall(c) \/ PollEnd(c)
          \/ StopCheck(c) \/ StopBusy(c) \/ DeleteCall(c) \/ ConfirmCall(c) \/ StopEnd(c)
    BY <1>3 DEF Controller
  <2>2. CASE TickTx(c)
    <3>1. Good(store)
      BY IInvUse
    <3>2. RoomsOnward(store, store') /\ WorkersOnward(store, store')
          /\ FailedWithWorker(store, store')
      BY <2>2, <3>1, TickMoves DEF FailedWithWorker, Down
    <3>3. QED BY <2>2, <3>2 DEF Lives, WorkersOnward
  <2>3. QED BY <2>1, <2>2, ControllerMoves
<1>4. CASE Provider \/ UNCHANGED vars
  <2>1. store' = store
    BY <1>4 DEF Provider, Land, Run, Halt, Machine, vars
  <2>2. QED BY <2>1, StillMoves
<1>5. QED BY <1>1, <1>2, <1>3, <1>4 DEF Next

-----------------------------------------------------------------------------
(* The invariant of this module: what moves on stays tidy, a player stays  *)
(* in one room, and a worker about to be deleted stays given up.           *)

Single(s) ==
    \A a, b \in Allocs : a # b =>
        /\ InProgress(s, a) /\ InProgress(s, b) => s.allocations[a].users \cap s.allocations[b].users = {}
        /\ s.allocations[a].key # None => s.allocations[a].key # s.allocations[b].key

Deletable(s, k) ==
    k.pc = "deleting" => /\ WorkerPhase(s, k.worker) \in Ending
                         /\ s.workers[k.worker].draining => s.workers[k.worker].drainAck

MovesInv == /\ IInv
            /\ Tidy(store)
            /\ Single(store)
            /\ \A c \in Controllers : Deletable(store, ctl[c])

\* The allocation that a step adds, and the others, which it leaves alone.
LEMMA AddedRooms ==
  ASSUME NEW s, Good(s), NEW t, Added(s, t)
  PROVE  \E a \in Allocs, users \in SUBSET Users, key \in Keys \cup Workers :
            /\ CanAllocate(s, users, key) /\ Phase(s, a) = "absent"
            /\ Phase(t, a) = "waiting_capacity" /\ t.allocations[a].worker = None
            /\ t.allocations[a].users = users /\ t.allocations[a].key = key
            /\ \A b \in Allocs \ {a} : t.allocations[b] = s.allocations[b]
<1>1. PICK a \in Allocs, users \in SUBSET Users, key \in Keys \cup Workers,
           preferred \in Workers \cup {None} :
        /\ CanAllocate(s, users, key) /\ Phase(s, a) = "absent"
        /\ t.allocations = AddAllocation(s, a, users, key, preferred).allocations
  BY DEF Added
<1> DEFINE r == [NoAllocation EXCEPT !.state = "waiting_capacity", !.users = users,
                                     !.key = key, !.preferred = preferred]
<1>2. r.state = "waiting_capacity" /\ r.users = users /\ r.key = key /\ r.worker = None
  BY DEF NoAllocation
<1>3. t.allocations = [s.allocations EXCEPT ![a] = r]
  BY <1>1 DEF AddAllocation, Good, State
<1> HIDE DEF r
<1>4. t.allocations[a] = r /\ \A b \in Allocs \ {a} : t.allocations[b] = s.allocations[b]
  BY <1>3 DEF Good, State
<1>5. QED BY <1>1, <1>2, <1>4

\* Every step leaves the records tidy.
LEMMA TidyStep ==
  ASSUME IInv, Tidy(store), [Next]_vars
  PROVE  Tidy(store')
<1>0. Good(store)
  BY IInvUse
<1>1. ASSUME NEW w \in Workers, WorkerPhase(store', w) \in {"absent", "pruned"}
      PROVE  ~store'.workers[w].boot
  <2>1. \/ WorkerOnward(store.workers[w], store'.workers[w])
        \/ WorkerStopped(store.workers[w], store'.workers[w])
    BY StepMoves DEF Moves, Lives, Added, WorkersOnward
  <2>2. WorkerOnward(store.workers[w], store'.workers[w])
    BY <1>1, <2>1 DEF WorkerStopped
  <2>3. QED BY <1>1, <2>2, Zenon DEF Tidy, WorkerOnward
<1>2. CASE Lives(store, store')
  BY <1>1, <1>2, TidyRooms DEF Lives
<1>3. CASE Added(store, store')
  <2>1. PICK a \in Allocs :
          /\ Phase(store', a) = "waiting_capacity" /\ store'.allocations[a].worker = None
          /\ \A b \in Allocs \ {a} : store'.allocations[b] = store.allocations[b]
    BY <1>0, <1>3, AddedRooms
  <2>2. QED BY <1>1, <2>1 DEF Tidy
<1>4. QED BY <1>2, <1>3, StepMoves DEF Moves

\* Every step keeps a player in one room.
LEMMA SingleStep ==
  ASSUME IInv, Tidy(store), Single(store), [Next]_vars
  PROVE  Single(store')
<1>0. Good(store)
  BY IInvUse
<1>1. CASE RoomsOnward(store, store')
  <2>1. ASSUME NEW a \in Allocs
        PROVE  /\ InProgress(store', a) => /\ InProgress(store, a)
                                           /\ store'.allocations[a].users = store.allocations[a].users
               /\ store'.allocations[a].key \in {None, store.allocations[a].key}
    BY <1>1, ForgottenFields DEF RoomsOnward, RoomOnward, InProgressPhases, WaitingPhases
  <2>2. QED BY <2>1 DEF Single
<1>2. CASE Added(store, store')
  <2>1. PICK a \in Allocs, users \in SUBSET Users, key \in Keys \cup Workers :
          /\ CanAllocate(store, users, key) /\ Phase(store, a) = "absent"
          /\ store'.allocations[a].users = users /\ store'.allocations[a].key = key
          /\ \A b \in Allocs \ {a} : store'.allocations[b] = store.allocations[b]
    BY <1>0, <1>2, AddedRooms
  <2>2. \A b \in Allocs \ {a} :
          /\ InProgress(store, b) => store.allocations[b].users \cap users = {}
          /\ store.allocations[b].key # None => store.allocations[b].key # key
    BY <2>1 DEF CanAllocate, Tidy, InProgressPhases, WaitingPhases
  <2>3. QED BY <2>1, <2>2 DEF Single
<1>3. QED BY <1>1, <1>2, StepMoves DEF Moves, Lives

\* A process is about to delete a machine only after the check of stop.
LEMMA DeletingStep ==
  ASSUME TypeOK, [Next]_vars, NEW c \in Controllers, ctl'[c].pc = "deleting"
  PROVE  ctl'[c] = ctl[c] \/ (StopCheck(c) /\ ctl'[c].worker = ctl[c].worker)
<1>1. CASE ctl' = ctl
  BY <1>1
<1>2. ASSUME NEW d \in Controllers, \E pc \in Steps \ {"deleting"} : Goto(d, pc)
      PROVE  ctl'[c] = ctl[c]
  <2>1. PICK pc \in Steps \ {"deleting"} : Goto(d, pc)
    BY <1>2
  <2>2. Moved(d) /\ ctl'[d] = [ctl[d] EXCEPT !.pc = pc]
    BY <2>1, GotoMoves
  <2>3. QED BY <2>2 DEF Moved, TypeOK, Control
<1>3. ASSUME NEW d \in Controllers, NEW pc \in Steps \ {"deleting"}, NEW status, NEW short,
             Hear(d, pc, status, short)
      PROVE  ctl'[c] = ctl[c]
  <2>1. ctl'[d].pc = pc /\ \A e \in Controllers \ {d} : ctl'[e] = ctl[e]
    BY <1>3 DEF Hear, TypeOK, Control
  <2>2. QED BY <2>1
<1>4. ASSUME NEW d \in Controllers, Return(d)
      PROVE  ctl'[c] = ctl[c]
  BY <1>4, ReturnMoves DEF Moved, Idle
<1>5. ASSUME NEW d \in Controllers, Pick(d)
      PROVE  ctl'[c] = ctl[c]
  <2>1. ctl'[d].pc = "picked" /\ \A e \in Controllers \ {d} : ctl'[e] = ctl[e]
    BY <1>5 DEF Pick, TypeOK, Control
  <2>2. QED BY <2>1
<1>6. ASSUME NEW d \in Controllers, StopCheck(d)
      PROVE  ctl'[c] = ctl[c] \/ (StopCheck(c) /\ ctl'[c].worker = ctl[c].worker)
  <2>1. Moved(d) /\ ctl'[d] = [ctl[d] EXCEPT !.pc = "deleting"]
    BY <1>6, GotoMoves DEF StopCheck, Steps
  <2>2. QED BY <1>6, <2>1 DEF Moved, TypeOK, Control
<1>7. ASSUME NEW d \in Controllers, GetCall(d) \/ ConfirmCall(d)
      PROVE  ctl'[c] = ctl[c]
  BY <1>3, <1>7, GetHears DEF GetCall, ConfirmCall, Steps
<1>8. CASE Controller
  <2>1. PICK d \in Controllers :
          \/ TickTx(d) \/ Pick(d) \/ PickNone(d) \/ Refused(d) \/ Crash(d)
          \/ StartBegin(d) \/ Post(d) \/ PostUnknown(d) \/ PostCreated(d) \/ PostRejected(d)
          \/ StartEnd(d)
          \/ ListCall(d) \/ ReconcileEnd(d)
          \/ GetCall(d) \/ PollEnd(d)
          \/ StopCheck(d) \/ StopBusy(d) \/ DeleteCall(d) \/ ConfirmCall(d) \/ StopEnd(d)
    BY <1>8 DEF Controller
  <2>2. CASE TickTx(d) \/ StartBegin(d) \/ Post(d)
    BY <1>2, <2>2 DEF TickTx, StartBegin, Post, Steps
  <2>3. CASE PickNone(d) \/ Refused(d) \/ Crash(d) \/ StartEnd(d) \/ ReconcileEnd(d) \/ PollEnd(d)
             \/ StopBusy(d) \/ StopEnd(d)
    BY <1>4, <2>3 DEF PickNone, Refused, Crash, StartEnd, ReconcileEnd, PollEnd, StopBusy, StopEnd
  <2>4. CASE PostUnknown(d) \/ PostCreated(d) \/ PostRejected(d) \/ ListCall(d)
    BY <1>3, <2>4 DEF PostUnknown, PostCreated, PostRejected, ListCall, Steps
  <2>5. CASE DeleteCall(d)
    BY <1>2, <1>4, <2>5 DEF DeleteCall, Steps
  <2>6. QED BY <1>5, <1>6, <1>7, <2>1, <2>2, <2>3, <2>4, <2>5
<1>9. CASE Client \/ Agent \/ Time
  <2>1. ctl' = ctl
    BY <1>9 DEF Client, Allocate, CancelByPlayer, Create, CreateWithUsers, Join, PostPlayers,
       Delete, Drain, RetryCreation, Agent, Bootstrap, Heartbeat, Time, HeartbeatAges,
       LifetimeEnds, Commit
  <2>2. QED BY <2>1
<1>10. CASE Provider \/ UNCHANGED vars
  BY <1>10 DEF Provider, Land, Run, Halt, Machine, vars
<1>11. QED BY <1>8, <1>9, <1>10 DEF Next

\* A worker that may be deleted stays so while the call is under way.
LEMMA DeletableStep ==
  ASSUME IInv, Tidy(store), [Next]_vars, NEW c \in Controllers, Deletable(store, ctl[c])
  PROVE  Deletable(store', ctl'[c])
<1> SUFFICES ASSUME ctl'[c].pc = "deleting" PROVE Deletable(store', ctl'[c])
  BY DEF Deletable
<1>0. TypeOK /\ Formed(ctl[c])
  BY DEF IInv
<1> DEFINE w == ctl[c].worker
<1>1. CASE StopCheck(c) /\ ctl'[c].worker = w
  <2>1. /\ store' = store /\ WorkerPhase(store, w) = "stopping"
        /\ store.workers[w].draining => store.workers[w].drainAck
    BY <1>1 DEF StopCheck, MayStop, Drained
  <2>2. QED BY <1>1, <2>1 DEF Deletable, Ending
<1>2. CASE ctl'[c] = ctl[c]
  <2>1. w \in Workers /\ WorkerPhase(store, w) \in Ending
        /\ (store.workers[w].draining => store.workers[w].drainAck)
    BY <1>0, <1>2 DEF Formed, Deletable
  <2> DEFINE p == store.workers[w]
             q == store'.workers[w]
  <2>2. WorkerOnward(p, q) \/ WorkerStopped(p, q)
    BY <2>1, StepMoves DEF Moves, Lives, Added, WorkersOnward
  <2> HIDE DEF p, q
  <2>3. ASSUME WorkerOnward(p, q), p.state \in Ending, p.draining => p.drainAck
        PROVE  q.state \in Ending /\ (q.draining => q.drainAck)
    <3>1. q.state \in Ending
      BY <2>3 DEF WorkerOnward, Ending
    <3>2. p.state \in Ending /\ q.draining => p.draining /\ (p.drainAck => q.drainAck)
      BY <2>3 DEF WorkerOnward
    <3>3. q.draining => q.drainAck
      BY <2>3, <3>2, Zenon
    <3>4. QED BY <3>1, <3>3
  <2>4. ASSUME WorkerStopped(p, q), p.draining => p.drainAck
        PROVE  q.state \in Ending /\ (q.draining => q.drainAck)
    BY <2>4 DEF WorkerStopped, Ending
  <2>5. q.state \in Ending /\ (q.draining => q.drainAck)
    BY <2>1, <2>2, <2>3, <2>4 DEF p
  <2>6. QED BY <1>2, <2>5 DEF Deletable, q
<1>3. QED BY <1>0, <1>1, <1>2, DeletingStep

LEMMA InitMoves == Init => MovesInv
<1> SUFFICES ASSUME Init PROVE MovesInv
  OBVIOUS
<1>1. IInv
  BY InitInvariant
<1>2. \A a \in Allocs : store.allocations[a] = NoAllocation
  BY DEF Init, New
<1>3. \A w \in Workers : store.workers[w] = NoWorker
  BY DEF Init, New
<1>4. NoAllocation.state = "absent" /\ NoAllocation.key = None /\ NoAllocation.worker = None
      /\ NoWorker.state = "absent" /\ NoWorker.boot = FALSE
  BY DEF NoAllocation, NoWorker
<1>5. Tidy(store) /\ Single(store)
  BY <1>2, <1>3, <1>4 DEF Tidy, Single, InProgressPhases, WaitingPhases
<1>6. \A c \in Controllers : Deletable(store, ctl[c])
  BY DEF Init, Idle, Deletable
<1>7. QED BY <1>1, <1>5, <1>6 DEF MovesInv

LEMMA NextMoves == MovesInv /\ [Next]_vars => MovesInv'
<1> SUFFICES ASSUME MovesInv, [Next]_vars PROVE MovesInv'
  OBVIOUS
<1>1. IInv'
  BY NextInvariant DEF MovesInv
<1>2. Tidy(store')
  BY TidyStep DEF MovesInv
<1>3. Single(store')
  BY SingleStep DEF MovesInv
<1>4. \A c \in Controllers : Deletable(store', ctl'[c])
  BY DeletableStep DEF MovesInv
<1>5. QED BY <1>1, <1>2, <1>3, <1>4 DEF MovesInv, Tidy, Single, Deletable

LEMMA MovesInvariant == Spec => []MovesInv
<1>1. QED BY InitMoves, NextMoves, PTL DEF Spec

\* Whatever is retried and whoever asks, a player is in at most one room that is not
\* over, and a request key stands for one allocation.
THEOREM PlayersHaveOneRoom == Spec => []OneRoomPerUser
<1>1. MovesInv => OneRoomPerUser
  BY DEF MovesInv, Single, OneRoomPerUser
<1>2. QED BY <1>1, MovesInvariant, PTL

\* A machine is deleted only when no room is left on it and its agent knows of the
\* drain, although the check comes before the call and heartbeats come in between.
THEOREM DeletedWorkersAreEmpty == Spec => []DeletesOnlyEmptyWorkers
<1>1. MovesInv => DeletesOnlyEmptyWorkers
  <2> SUFFICES ASSUME MovesInv, NEW c \in Controllers, At(c, "deleting")
               PROVE  /\ Rooms(store, ctl[c].worker) = {}
                      /\ store.workers[ctl[c].worker].draining => store.workers[ctl[c].worker].drainAck
    BY DEF DeletesOnlyEmptyWorkers
  <2>1. Good(store) /\ ctl[c].worker \in Workers
    BY IInvUse DEF MovesInv, IInv, Formed, At
  <2>2. Deletable(store, ctl[c]) /\ ctl[c].pc = "deleting"
    BY DEF MovesInv, At
  <2>3. Rooms(store, ctl[c].worker) = {}
    BY <2>1, <2>2, NoRooms DEF Deletable, Ending, ServingPhases
  <2>4. QED BY <2>2, <2>3 DEF Deletable
<1>2. QED BY <1>1, MovesInvariant, PTL

\* An allocation ends once and stays with its worker: no step of a client, an agent
\* or a process, however late, takes a room out of its end or moves it.
THEOREM RoomsNeverReopen == Spec => RoomsEndOnce
<1> DEFINE Once == \A a \in Allocs :
        Phase(store', a) # "pruned" =>
            /\ Terminal(store, a) => Phase(store', a) = Phase(store, a)
            /\ store.allocations[a].worker # None
                => store'.allocations[a].worker = store.allocations[a].worker
<1>1. MovesInv /\ [Next]_vars => Once
  <2> SUFFICES ASSUME MovesInv, [Next]_vars PROVE Once
    OBVIOUS
  <2>1. CASE RoomsOnward(store, store')
    BY <2>1, ForgottenFields DEF RoomsOnward, RoomOnward, Terminal
  <2>2. CASE Added(store, store')
    <3>1. PICK a \in Allocs : /\ Phase(store, a) = "absent"
                              /\ \A b \in Allocs \ {a} : store'.allocations[b] = store.allocations[b]
      BY <2>2, IInvUse, AddedRooms DEF MovesInv
    <3>2. store.allocations[a].worker = None /\ ~Terminal(store, a)
      BY <3>1 DEF MovesInv, Tidy, Terminal, TerminalPhases
    <3>3. QED BY <3>1, <3>2
  <2>3. QED BY <2>1, <2>2, StepMoves DEF MovesInv, Moves, Lives
<1>2. Spec => [][Once]_vars
  BY <1>1, MovesInvariant, PTL DEF Spec
<1>3. QED BY <1>2 DEF RoomsEndOnce

\* A room fails only in the step that gives its own worker up.
THEOREM RoomsFailWithTheirWorker == Spec => FailuresAreLocal
<1> DEFINE Local == \A a \in Allocs :
        Phase(store, a) # "failed" /\ Phase(store', a) = "failed"
            => /\ store.allocations[a].worker # None
               /\ WorkerPhase(store, store.allocations[a].worker) \notin Down
               /\ WorkerPhase(store', store.allocations[a].worker) \in Down
<1>1. MovesInv /\ [Next]_vars => Local
  <2> SUFFICES ASSUME MovesInv, [Next]_vars PROVE Local
    OBVIOUS
  <2>1. CASE FailedWithWorker(store, store')
    BY <2>1, NoneAssumption DEF FailedWithWorker
  <2>2. CASE Added(store, store')
    <3>1. PICK a \in Allocs : /\ Phase(store', a) = "waiting_capacity"
                              /\ \A b \in Allocs \ {a} : store'.allocations[b] = store.allocations[b]
      BY <2>2, IInvUse, AddedRooms DEF MovesInv
    <3>2. QED BY <3>1
  <2>3. QED BY <2>1, <2>2, StepMoves DEF MovesInv, Moves, Lives
<1>2. Spec => [][Local]_vars
  BY <1>1, MovesInvariant, PTL DEF Spec
<1>3. QED BY <1>2 DEF FailuresAreLocal

\* A worker that was given up never comes back, whatever arrives late.
THEOREM WorkersNeverComeBack == Spec => WorkersEndOnce
<1> DEFINE Ends == \A w \in Workers :
        /\ WorkerPhase(store, w) = "lost" => WorkerPhase(store', w) \in {"lost", "stopped"}
        /\ WorkerPhase(store, w) = "stopped" => WorkerPhase(store', w) \in {"stopped", "pruned"}
        /\ WorkerPhase(store, w) = "failed" => WorkerPhase(store', w) \in {"failed", "pruned"}
        /\ WorkerPhase(store, w) = "pruned" => WorkerPhase(store', w) = "pruned"
<1>1. MovesInv /\ [Next]_vars => Ends
  <2> SUFFICES ASSUME MovesInv, [Next]_vars PROVE Ends
    OBVIOUS
  <2>1. \A w \in Workers : \/ WorkerOnward(store.workers[w], store'.workers[w])
                           \/ WorkerStopped(store.workers[w], store'.workers[w])
    BY StepMoves DEF MovesInv, Moves, Lives, Added, WorkersOnward
  <2>2. QED BY <2>1 DEF WorkerOnward, WorkerStopped
<1>2. Spec => [][Ends]_vars
  BY <1>1, MovesInvariant, PTL DEF Spec
<1>3. QED BY <1>2 DEF WorkersEndOnce

=============================================================================
