----------------------------- MODULE FleetState -----------------------------
(***************************************************************************)
(* The durable control-plane state of the fleet (internal/state) and the   *)
(* pure transaction bodies that pkg/fleetmanager runs on it.               *)
(*                                                                         *)
(* Every operator takes a state record s and returns the state the Go      *)
(* closure `func(s *state.State) error` leaves behind.  Sets replace the   *)
(* loops over Go maps: the loop bodies touch disjoint records, so an       *)
(* operator applies one step to every member of a set at once.             *)
(*                                                                         *)
(* Deadlines that one transaction alone reads are not state: the reading   *)
(* transaction receives, as a parameter, the set of records whose deadline *)
(* has passed.  The age of a heartbeat, which many transactions compare    *)
(* with two thresholds, is state (see Ages).                               *)
(***************************************************************************)
EXTENDS Naturals, FiniteSets

CONSTANTS
    Workers,       \* identities a worker can be given
    AllocSlots,    \* how many allocations a behaviour may create
    Users,         \* players
    Keys,          \* request keys of the matched hook and of Allocate
    Controllers,   \* control processes sharing the store
    MaxRooms,      \* Config.MaxRooms
    MaxInstances,  \* Config.MaxInstances
    MinInstances,  \* Config.MinInstances
    None           \* no worker, no allocation, no leader

Allocs == 1 .. AllocSlots

ASSUME SlotsAssumption == AllocSlots \in Nat
ASSUME LimitsAssumption == /\ MaxRooms \in Nat \ {0}
                           /\ MaxInstances \in Nat
                           /\ MinInstances \in Nat
ASSUME WorkersAssumption == IsFiniteSet(Workers)
ASSUME NoneAssumption == /\ None \notin Workers
                         /\ None \notin Nat
                         /\ None \notin Controllers

-----------------------------------------------------------------------------
(* The records of the store.                                               *)

WorkerPhases == {"absent", "requested", "starting", "launching",
                 "bootstrapping", "ready", "suspect", "draining", "stopping",
                 "stopped", "failed", "lost", "unknown", "pruned"}

WaitingPhases == {"waiting_capacity", "preparing", "prepared", "assigned"}
InProgressPhases == WaitingPhases \cup {"active", "cancelling"}
TerminalPhases == {"completed", "cancelled", "expired", "failed"}
AllocPhases == {"absent", "pruned"} \cup InProgressPhases \cup TerminalPhases

Reasons == {"none", "cancelled", "other"}

\* now - LastHeartbeat: within HeartbeatTimeout, beyond it, beyond LostTimeout
Ages == {"never", "fresh", "stale", "gone"}

Metrics == [busy : BOOLEAN, overloaded : BOOLEAN]

Worker == [state : WorkerPhases, provider : BOOLEAN, boot : BOOLEAN,
           host : BOOLEAN, maxRooms : 1 .. MaxRooms, heartbeat : Ages,
           ready : BOOLEAN, draining : BOOLEAN, drainAck : BOOLEAN,
           players : BOOLEAN, metrics : Metrics, ending : BOOLEAN,
           idle : BOOLEAN]

SessionPhases == {"none", "reserved", "connected", "away"}

Allocation == [state : AllocPhases, users : SUBSET Users,
               key : Keys \cup Workers \cup {None},
               worker : Workers \cup {None}, preferred : Workers \cup {None},
               reason : Reasons, sessions : [Users -> SessionPhases]]

CommandTypes == {"prepare_room", "cancel_room", "drain"}
Command == [type : CommandTypes, worker : Workers, alloc : Allocs \cup {None}]

\* commands holds the commands that are not Done: a result for a Done command
\* is skipped and a Done command is never delivered again.
State == [workers : [Workers -> Worker],
          allocations : [Allocs -> Allocation],
          commands : SUBSET Command,
          leader : Controllers \cup {None},
          blocked : BOOLEAN]

Calm == [busy |-> FALSE, overloaded |-> FALSE]

NoWorker == [state |-> "absent", provider |-> FALSE, boot |-> FALSE,
             host |-> FALSE, maxRooms |-> 1, heartbeat |-> "never",
             ready |-> FALSE, draining |-> FALSE, drainAck |-> FALSE,
             players |-> FALSE, metrics |-> Calm, ending |-> FALSE,
             idle |-> FALSE]

NoSessions == [u \in Users |-> "none"]

NoAllocation == [state |-> "absent", users |-> {}, key |-> None,
                 worker |-> None, preferred |-> None, reason |-> "none",
                 sessions |-> NoSessions]

New == [workers |-> [w \in Workers |-> NoWorker],
        allocations |-> [a \in Allocs |-> NoAllocation],
        commands |-> {}, leader |-> None, blocked |-> FALSE]

PrepareCommand(w, a) == [type |-> "prepare_room", worker |-> w, alloc |-> a]
CancelCommand(w, a) == [type |-> "cancel_room", worker |-> w, alloc |-> a]
DrainCommand(w) == [type |-> "drain", worker |-> w, alloc |-> None]

-----------------------------------------------------------------------------
(* Questions the transactions ask of the state.                            *)

Phase(s, a) == s.allocations[a].state
WorkerPhase(s, w) == s.workers[w].state

InProgress(s, a) == Phase(s, a) \in InProgressPhases
Terminal(s, a) == Phase(s, a) \in TerminalPhases

\* the rooms that occupy a worker: those of state.Occupied
Rooms(s, w) == {a \in Allocs : InProgress(s, a) /\ s.allocations[a].worker = w}
Occupied(s, w) == Cardinality(Rooms(s, w))

Exists(s, w) == WorkerPhase(s, w) \notin {"absent", "pruned"}
Down == {"stopped", "failed", "lost"}

\* the workers Manager.liveCount counts: a failed worker never has an instance
Live(s) == {w \in Workers : /\ Exists(s, w)
                            /\ WorkerPhase(s, w) # "stopped"
                            /\ ~(WorkerPhase(s, w) = "failed" /\ ~s.workers[w].provider)}
LiveCount(s) == Cardinality(Live(s))

Eligible(s, w) ==
    LET worker == s.workers[w] IN
    /\ worker.state = "ready" /\ worker.ready
    /\ ~worker.draining /\ ~worker.ending
    /\ worker.host /\ worker.boot
    /\ worker.heartbeat = "fresh"
    /\ ~worker.metrics.overloaded

WorkFinished(worker) == ~worker.metrics.busy

\* Mutant of Drained: a worker is given up before its agent knows of the drain.
DrainedUnacknowledged(s, w) ==
    /\ Rooms(s, w) = {} /\ ~s.workers[w].players
    /\ WorkFinished(s.workers[w]) /\ s.workers[w].heartbeat = "fresh"

\* Mutant of Drained: the rooms the store knows of are not counted.
DrainedByAgentOnly(s, w) ==
    /\ s.workers[w].drainAck /\ ~s.workers[w].players
    /\ WorkFinished(s.workers[w]) /\ s.workers[w].heartbeat = "fresh"

\* the conditions under which a draining worker may be given up
Drained(s, w) ==
    LET worker == s.workers[w] IN
    /\ worker.drainAck
    /\ Rooms(s, w) = {}
    /\ ~worker.players
    /\ WorkFinished(worker)
    /\ worker.heartbeat = "fresh"

Drainable(s, w) == WorkerPhase(s, w) \in {"ready", "suspect", "draining"}

-----------------------------------------------------------------------------
(* Steps on allocations.                                                   *)

\* Sessions are read only while a room is assigned or active, and the reason
\* only while it is cancelling: a step out of these forgets them.
Leave(s, D, phase, reason) ==
    [s EXCEPT !.allocations = [a \in Allocs |->
        IF a \in D THEN [s.allocations[a] EXCEPT !.state = phase, !.reason = reason,
                                                !.sessions = NoSessions]
                   ELSE s.allocations[a]]]

Finish(s, D, phase) == Leave(s, D, phase, "none")

Cancellable(s, D) == {a \in D : InProgress(s, a) /\ Phase(s, a) # "cancelling"}

\* Mutant of Cancel: the preparation of a cancelled room stays deliverable.
CancelKeepsPrepare(s, D, reason) ==
    LET going == Cancellable(s, D)
        bound == {a \in going : s.allocations[a].worker # None}
        phase == IF reason = "cancelled" THEN "cancelled" ELSE "expired"
    IN  [Leave(Finish(s, going \ bound, phase), bound, "cancelling", reason) EXCEPT
            !.commands = @ \cup {CancelCommand(s.allocations[a].worker, a) : a \in bound}]

\* Mutant of Cancel: an allocation without a worker waits for a cleanup too.
CancelAsIfBound(s, D, reason) ==
    LET going == Cancellable(s, D) IN
    [Leave(s, going, "cancelling", reason) EXCEPT
        !.commands = @ \cup {CancelCommand(s.allocations[a].worker, a) : a \in going}]

\* Manager.cancel: an unbound allocation ends at once; a bound one waits for
\* the host's cleanup, and its preparation is withdrawn.
Cancel(s, D, reason) ==
    LET going   == Cancellable(s, D)
        bound   == {a \in going : s.allocations[a].worker # None}
        phase   == IF reason = "cancelled" THEN "cancelled" ELSE "expired"
        parting == Leave(Finish(s, going \ bound, phase), bound, "cancelling", reason)
    IN  [parting EXCEPT !.commands =
            {k \in s.commands : ~(k.type = "prepare_room" /\ k.alloc \in bound)}
                \cup {CancelCommand(s.allocations[a].worker, a) : a \in bound}]

Reserve(s, D) ==
    [s EXCEPT !.allocations = [a \in Allocs |->
        IF a \in D /\ Phase(s, a) = "prepared"
        THEN [s.allocations[a] EXCEPT
                !.state = "assigned",
                !.sessions = [u \in Users |->
                    IF u \in s.allocations[a].users THEN "reserved" ELSE "none"]]
        ELSE s.allocations[a]]]

\* Mutant of CanAllocate: only the key is looked up.
CanAllocateByKey(s, users, key) ==
    \A a \in Allocs : Phase(s, a) \notin {"absent", "pruned"} => s.allocations[a].key # key

\* Manager.allocation admits a request whose key is new and whose players are free
CanAllocate(s, users, key) ==
    \A a \in Allocs : Phase(s, a) \notin {"absent", "pruned"} =>
        /\ s.allocations[a].key # key
        /\ InProgress(s, a) => s.allocations[a].users \cap users = {}

NextSlot(s, a) == /\ Phase(s, a) = "absent"
                  /\ \A b \in Allocs : b < a => Phase(s, b) # "absent"

AddAllocation(s, a, users, key, preferred) ==
    [s EXCEPT !.allocations[a] =
        [NoAllocation EXCEPT !.state = "waiting_capacity", !.users = users,
                             !.key = key, !.preferred = preferred]]

-----------------------------------------------------------------------------
(* Steps on workers.                                                       *)

AddWorker(s, w, maxRooms) ==
    [s EXCEPT !.workers[w] = [NoWorker EXCEPT !.state = "requested", !.maxRooms = maxRooms]]

SetPhase(s, D, phase) ==
    [s EXCEPT !.workers = [w \in Workers |->
        IF w \in D THEN [s.workers[w] EXCEPT !.state = phase] ELSE s.workers[w]]]

BeginDrain(s, D) ==
    LET new == {w \in D : ~s.workers[w].draining} IN
    [s EXCEPT
        !.workers = [w \in Workers |->
            IF w \in new THEN [s.workers[w] EXCEPT !.draining = TRUE, !.state = "draining"]
                         ELSE s.workers[w]],
        !.commands = s.commands \cup {DrainCommand(w) : w \in new}]

\* Mutant of Close: every allocation of the worker fails, finished ones too.
CloseReopens(s, D, phase) ==
    [Finish(s, {a \in Allocs : s.allocations[a].worker \in D}, "failed") EXCEPT
        !.workers = [w \in Workers |->
            IF w \in D THEN [s.workers[w] EXCEPT !.state = phase, !.ready = FALSE]
                       ELSE s.workers[w]],
        !.commands = {k \in s.commands : k.worker \notin D}]

\* Mutant of Close: the rooms of other workers fail as well.
CloseEverywhere(s, D, phase) ==
    [Finish(s, {a \in Allocs : D # {} /\ InProgress(s, a)}, "failed") EXCEPT
        !.workers = [w \in Workers |->
            IF w \in D THEN [s.workers[w] EXCEPT !.state = phase, !.ready = FALSE]
                       ELSE s.workers[w]],
        !.commands = {k \in s.commands : k.worker \notin D}]

\* stopped() and lost(): the worker's rooms fail and its commands are closed
Close(s, D, phase) ==
    LET failing == {a \in Allocs : InProgress(s, a) /\ s.allocations[a].worker \in D} IN
    [Finish(s, failing, "failed") EXCEPT
        !.workers = [w \in Workers |->
            IF w \in D THEN [s.workers[w] EXCEPT !.state = phase, !.ready = FALSE]
                       ELSE s.workers[w]],
        !.commands = {k \in s.commands : k.worker \notin D}]

Stopped(s, D) == Close(s, D, "stopped")
Lost(s, D) == Close(s, D, "lost")

-----------------------------------------------------------------------------
(* The phases of the lease transaction of Tick, in their order.            *)

Starting(s) == {w \in Workers : WorkerPhase(s, w) = "starting"}

\* interrupted: starting workers whose create began more than 15 seconds ago
AgeWorkers(s, interrupted) ==
    LET ending  == {w \in Workers : WorkerPhase(s, w) = "ready" /\ s.workers[w].ending}
        drained == BeginDrain(s, ending)
        silent  == {w \in Workers : /\ WorkerPhase(drained, w) = "ready"
                                    /\ s.workers[w].heartbeat # "fresh"}
        gone    == {w \in Workers : /\ Exists(s, w) /\ WorkerPhase(s, w) \notin Down
                                    /\ s.workers[w].heartbeat = "gone"}
    IN  Lost(SetPhase(SetPhase(drained, interrupted, "unknown"), silent, "suspect"), gone)

\* allocations with a deadline Tick compares with the clock
Expirable(s) ==
    {a \in Allocs : \/ Phase(s, a) \in WaitingPhases
                    \/ /\ Phase(s, a) = "active"
                       /\ \E u \in Users : s.allocations[a].sessions[u] = "away"}

\* allocations whose preferred worker can no longer serve them
Orphans(s) ==
    {a \in Allocs : /\ s.allocations[a].preferred # None
                    /\ WorkerPhase(s, s.allocations[a].preferred) \in Down}

ExpireAllocations(s, overdue) == Cancel(s, Orphans(s) \cup overdue, "other")

Finished(s) == {a \in Allocs : Terminal(s, a)}

\* workers whose record may go once a day has passed since their last update
Retired(s) ==
    {w \in Workers :
        /\ \/ WorkerPhase(s, w) = "stopped"
           \/ WorkerPhase(s, w) = "failed" /\ ~s.workers[w].provider
        /\ \A a \in Allocs : w \in {s.allocations[a].worker, s.allocations[a].preferred}
                                => ~InProgress(s, a)}

PruneAllocations(s, old) ==
    [s EXCEPT !.allocations = [a \in Allocs |->
        IF a \in old THEN [NoAllocation EXCEPT !.state = "pruned"] ELSE s.allocations[a]]]

PruneWorkers(s, old) ==
    [s EXCEPT !.workers = [w \in Workers |->
                  IF w \in old THEN [NoWorker EXCEPT !.state = "pruned"] ELSE s.workers[w]],
              !.commands = {k \in s.commands : k.worker \notin old}]

AssignPrepared(s) ==
    Reserve(s, {a \in Allocs : /\ s.allocations[a].worker # None
                               /\ Eligible(s, s.allocations[a].worker)})

Waiting(s) == {a \in Allocs : Phase(s, a) = "waiting_capacity"}
Queued(s) == {a \in Waiting(s) : s.allocations[a].preferred = None}

\* requests with a preferred worker go first, then the order of creation
Before(s, a, b) ==
    IF (s.allocations[a].preferred = None) = (s.allocations[b].preferred = None)
    THEN a < b
    ELSE s.allocations[a].preferred # None

\* Mutant of Placements: the rooms placed earlier in the same pass are not counted.
PlacementsFromSnapshot(s) ==
    LET Candidates(a) == {w \in Workers : /\ Eligible(s, w)
                                          /\ s.allocations[a].preferred \in {None, w}
                                          /\ Occupied(s, w) < s.workers[w].maxRooms}
    IN  {f \in [Waiting(s) -> Workers \cup {None}] :
            \A a \in Waiting(s) : IF Candidates(a) = {} THEN f[a] = None
                                                       ELSE f[a] \in Candidates(a)}

\* The choices Tick can make for the waiting allocations: f[a] is the fullest
\* eligible worker with a free room after the allocations before a are placed.
Placements(s) ==
    LET Load(f, a, w) == Occupied(s, w) +
                         Cardinality({b \in Waiting(s) : Before(s, b, a) /\ f[b] = w})
        Candidates(f, a) ==
            {w \in Workers : /\ Eligible(s, w)
                             /\ s.allocations[a].preferred \in {None, w}
                             /\ Load(f, a, w) < s.workers[w].maxRooms}
    IN  {f \in [Waiting(s) -> Workers \cup {None}] :
            \A a \in Waiting(s) :
                IF Candidates(f, a) = {}
                THEN f[a] = None
                ELSE /\ f[a] \in Candidates(f, a)
                     /\ \A w \in Candidates(f, a) : Load(f, a, w) <= Load(f, a, f[a])}

Place(s, f) ==
    LET placed == {a \in DOMAIN f : f[a] # None} IN
    [s EXCEPT
        !.allocations = [a \in Allocs |->
            IF a \in placed
            THEN [s.allocations[a] EXCEPT !.state = "preparing", !.worker = f[a]]
            ELSE s.allocations[a]],
        !.workers = [w \in Workers |->
            IF \E a \in placed : f[a] = w THEN [s.workers[w] EXCEPT !.idle = FALSE]
                                          ELSE s.workers[w]],
        !.commands = s.commands \cup {PrepareCommand(f[a], a) : a \in placed}]

Serving(s) == {w \in Workers : WorkerPhase(s, w) = "ready" /\ ~s.workers[w].draining}
Booting(s) == {w \in Workers : WorkerPhase(s, w) \in
                                {"requested", "starting", "launching", "bootstrapping"}}

\* young: booting workers created less than LaunchTimeout ago
NeedsWorker(s, young) ==
    LET bootCapacity == UNION {{w} \X (1 .. s.workers[w].maxRooms) : w \in young} IN
    /\ ~s.blocked
    /\ LiveCount(s) < MaxInstances
    /\ \/ Cardinality(Queued(s)) > Cardinality(bootCapacity)
       \/ Cardinality(Serving(s)) < MinInstances /\ young = {}

\* a new worker, when one is wanted and the creation delay has passed
ScaleOut(s) ==
    {s} \cup {AddWorker(s, w, MaxRooms) :
                w \in {v \in Workers : /\ WorkerPhase(s, v) = "absent"
                                       /\ \E young \in SUBSET Booting(s) : NeedsWorker(s, young)}}

\* workers that were already idle and may be drained for cost
Surplus(s) ==
    IF Queued(s) # {} THEN {}
    ELSE {w \in Serving(s) : s.workers[w].idle /\ Rooms(s, w) = {}}

\* the workers this pass drains leave MinInstances ready ones behind
DrainChoices(s) ==
    {D \in SUBSET Surplus(s) :
        D = {} \/ Cardinality(D) + MinInstances <= Cardinality(Serving(s))}

\* surplus: the workers idle for IdleSeconds that this pass drains
ScaleIn(s, surplus) ==
    LET clocked == [s EXCEPT !.workers = [w \in Workers |->
                        IF w \in Serving(s) THEN [s.workers[w] EXCEPT !.idle = Rooms(s, w) = {}]
                                            ELSE s.workers[w]]]
        leaving == {w \in Workers : WorkerPhase(s, w) = "draining" /\ Drained(s, w)}
    IN  SetPhase(BeginDrain(clocked, surplus), leaving, "stopping")

-----------------------------------------------------------------------------
(* The transaction of an agent's heartbeat, in its three parts.            *)

Silent == [phase |-> "silent", users |-> {}]
Closed == [phase |-> "closed", users |-> {}]

\* what an agent may say of one room: nothing, that it is closed, or that it
\* is open with some of its players, and with all of them that it is playing
RoomReports(s, w, a) ==
    IF a \notin Rooms(s, w) THEN {Silent}
    ELSE {Silent, Closed, [phase |-> "playing", users |-> s.allocations[a].users]}
            \cup {[phase |-> "open", users |-> U] : U \in SUBSET s.allocations[a].users}

AllReports == [phase : {"silent", "closed", "open", "playing"}, users : SUBSET Users]

Reports(s, w) ==
    {report \in [Allocs -> UNION {RoomReports(s, w, a) : a \in Allocs}] :
        \A a \in Allocs : report[a] \in RoomReports(s, w, a)}

Pending(s, w) == {k \in s.commands : k.worker = w}

\* Mutant of Unmoved: a heartbeat revives a worker that is being stopped.
MovedWhileStopping == {"unknown", "requested", "starting"}

\* the states a heartbeat leaves alone even when the host says it is ready
Unmoved == {"stopping", "unknown", "requested", "starting"}

Observe(s, w, ready, metrics) ==
    LET worker == s.workers[w]
        serving == worker.host /\ ready /\ worker.state \notin Unmoved
    IN  [s EXCEPT !.workers[w] = [worker EXCEPT
            !.heartbeat = "fresh", !.ready = ready, !.metrics = metrics,
            !.state = IF ~serving THEN worker.state
                      ELSE IF worker.draining THEN "draining" ELSE "ready"]]

\* acks: the commands reported successful; late: those of them whose deadline
\* has passed; nacks: failed preparations.  Any other failed command is replaced
\* by a copy of itself under a new identity, which leaves the set as it is.
Acknowledge(s, w, acks, late, nacks) ==
    LET Of(K, type, phase) == {a \in Allocs : /\ Phase(s, a) = phase
                                              /\ \E k \in K : k.type = type /\ k.alloc = a}
        answered == Of(acks, "prepare_room", "preparing")
        refused  == IF s.workers[w].draining THEN answered
                    ELSE Of(acks \cap late, "prepare_room", "preparing")
        opened   == answered \ refused
        cleaned  == Of(acks, "cancel_room", "cancelling")
        byPlayer == {a \in cleaned : s.allocations[a].reason = "cancelled"}
        done     == [s EXCEPT
                        !.commands = s.commands \ (acks \cup nacks),
                        !.workers[w].drainAck = @ \/ DrainCommand(w) \in acks]
        prepared == Leave(done, opened, "prepared", "none")
        assigned == IF Eligible(s, w) THEN Reserve(prepared, opened) ELSE prepared
        released == Finish(Finish(assigned, byPlayer, "cancelled"), cleaned \ byPlayer, "expired")
    IN  Cancel(released, refused \cup Of(nacks, "prepare_room", "preparing"), "other")

Session(phase, here) ==
    CASE here -> "connected"
      [] ~here /\ phase = "connected" -> "away"
      [] OTHER -> phase

ReportRooms(s, w, report) ==
    LET open == {a \in Rooms(s, w) : report[a].phase \in {"open", "playing"}}
        held == {a \in Rooms(s, w) : Phase(s, a) \in {"assigned", "active"}}
        over == {a \in held : report[a].phase = "closed"}
        seen == [s EXCEPT !.allocations = [a \in Allocs |->
                    IF a \in open \cap held
                    THEN [s.allocations[a] EXCEPT
                            !.sessions = [u \in Users |->
                                IF u \in s.allocations[a].users
                                THEN Session(s.allocations[a].sessions[u], u \in report[a].users)
                                ELSE "none"],
                            !.state = IF report[a].phase = "playing" THEN "active" ELSE @]
                    ELSE s.allocations[a]],
                    !.workers[w].players = \E a \in open : report[a].users # {}]
    IN  Finish(seen, over, "completed")

-----------------------------------------------------------------------------
(* What a controller makes of the provider's answers.                      *)

\* providerLifetime: an instance too short-lived for the profile blocks creation
Lifetime(s, w, short) ==
    IF ~short THEN s
    ELSE [s EXCEPT !.blocked = TRUE,
                   !.workers[w].state =
                        IF @ \in {"launching", "bootstrapping"} THEN "stopping" ELSE @]

\* the instance runs and its UDP endpoint is known
Serve(s, w) ==
    LET worker == s.workers[w] IN
    [s EXCEPT !.workers[w] = [worker EXCEPT
        !.host = TRUE,
        !.state = IF worker.ready /\ worker.boot /\ worker.heartbeat = "fresh"
                  THEN IF worker.draining THEN "draining" ELSE "ready"
                  ELSE IF worker.state \in {"launching", "bootstrapping"} THEN "bootstrapping"
                  ELSE IF worker.draining THEN worker.state ELSE "suspect"]]

\* Mutant of Poll: a running machine brings a lost worker back.
PollRevivesLost(s, w, reply, overdue) ==
    IF reply.status = "missing" THEN Stopped(s, {w})
    ELSE IF reply.status = "running" THEN Serve(s, w) ELSE s

\* overdue: LaunchTimeout has passed since the worker was created
Poll(s, w, reply, overdue) ==
    LET t == Lifetime(s, w, reply.short) IN
    CASE reply.status = "error" -> s
      [] reply.status = "missing" -> Stopped(s, {w})
      [] reply.status = "foreign" -> Lost(s, {w})
      [] reply.status \in {"launching", "running", "portless", "stopped"} ->
            IF WorkerPhase(t, w) = "stopping" THEN t
            ELSE IF reply.status = "stopped" THEN Stopped(t, {w})
            ELSE IF WorkerPhase(t, w) = "lost" THEN t
            ELSE IF overdue /\ WorkerPhase(t, w) \in {"launching", "bootstrapping"}
                 THEN SetPhase(t, {w}, "stopping")
            ELSE IF reply.status = "running" THEN Serve(t, w)
            ELSE t

\* Mutant of Created: an unknown outcome is taken for a failure.
CreatedGivesUp(s, w, reply) ==
    IF reply.status = "created"
    THEN [s EXCEPT !.workers[w].provider = TRUE, !.workers[w].state = "launching"]
    ELSE SetPhase(s, {w}, "failed")

\* the transaction that follows the create call
Created(s, w, reply) ==
    CASE reply.status = "unknown" -> SetPhase(s, {w}, "unknown")
      [] reply.status = "rejected" -> SetPhase(s, {w}, "failed")
      [] reply.status = "misconfigured" -> [SetPhase(s, {w}, "failed") EXCEPT !.blocked = TRUE]
      [] reply.status = "created" ->
            Lifetime([s EXCEPT !.workers[w].provider = TRUE,
                               !.workers[w].state = "launching"], w, reply.short)

Adopt(s, w) ==
    [s EXCEPT !.workers[w].provider = TRUE, !.workers[w].state = "launching"]

=============================================================================
