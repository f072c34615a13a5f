-------------------------- MODULE FleetBoundsProofs --------------------------
(***************************************************************************)
(* What the fleet has promised and what it may spend, for every value of   *)
(* the constants: the commands in the outbox, the rooms of a worker, the   *)
(* create request of a worker, and the machines that cost money.           *)
(***************************************************************************)
EXTENDS FleetProofs, FiniteSetTheorems, WellFoundedInduction

-----------------------------------------------------------------------------
(* What a step does to the record of a worker.                             *)

\* a record that Live counts
Alive(r) == /\ r.state \notin {"absent", "pruned", "stopped"}
            /\ r.state = "failed" => r.provider

\* A record that is counted stays counted, and one whose agent was never heard
\* does not get past the create request.
Stays(p, q) ==
    /\ Alive(p) => Alive(q)
    /\ p.heartbeat = "never" => q.heartbeat = "never"
    /\ p.heartbeat = "never" /\ p.state \in {"starting", "unknown"}
           => q.state \in {"starting", "unknown"}

Steady(p, q) == Stays(p, q) /\ (Alive(q) => Alive(p))

WorkersStay(s, t) == \A w \in Workers : Stays(s.workers[w], t.workers[w])
WorkersSteady(s, t) == \A w \in Workers : Steady(s.workers[w], t.workers[w])

\* the phases in which a worker has a machine, or may get one
Counted == WorkerPhases \ {"absent", "pruned", "stopped", "failed"}

USE DEF Phase, WorkerPhase, InProgress

LEMMA SteadyKept ==
  ASSUME NEW p, NEW q, q.state = p.state, q.provider = p.provider, q.heartbeat = p.heartbeat
  PROVE  Steady(p, q)
  BY Zenon DEF Steady, Stays, Alive

LEMMA SteadyMoved ==
  ASSUME NEW p, NEW q, p.state \in Counted, q.state \in Counted,
         p.heartbeat = "never" => q.heartbeat = "never",
         p.heartbeat = "never" /\ p.state \in {"starting", "unknown"}
            => q.state \in {"starting", "unknown"}
  PROVE  Steady(p, q)
  BY DEF Steady, Stays, Alive, Counted

LEMMA StayTransitive ==
  ASSUME NEW s, NEW t, NEW u, WorkersStay(s, t), WorkersStay(t, u)
  PROVE  WorkersStay(s, u)
  BY DEF WorkersStay, Stays

LEMMA SteadyTransitive ==
  ASSUME NEW s, NEW t, NEW u, WorkersSteady(s, t), WorkersSteady(t, u)
  PROVE  WorkersSteady(s, u)
  BY DEF WorkersSteady, Steady, Stays

LEMMA SteadyReflexive ==
  ASSUME NEW s, NEW t, t.workers = s.workers
  PROVE  WorkersSteady(s, t)
  BY SteadyKept DEF WorkersSteady

LEMMA SteadyStays ==
  ASSUME NEW s, NEW t, WorkersSteady(s, t)
  PROVE  WorkersStay(s, t)
  BY DEF WorkersSteady, WorkersStay, Steady

LEMMA SetPhaseSteady ==
  ASSUME NEW s, Good(s), NEW D, NEW phase \in Counted,
         \A w \in D \cap Workers :
            /\ WorkerPhase(s, w) \in Counted
            /\ s.workers[w].heartbeat = "never" /\ WorkerPhase(s, w) \in {"starting", "unknown"}
                => phase \in {"starting", "unknown"}
  PROVE  /\ WorkersSteady(s, SetPhase(s, D, phase))
         /\ \A w \in Workers : SetPhase(s, D, phase).workers[w].heartbeat = s.workers[w].heartbeat
<1> DEFINE t == SetPhase(s, D, phase)
<1>1. ASSUME NEW w \in Workers
      PROVE  Steady(s.workers[w], t.workers[w]) /\ t.workers[w].heartbeat = s.workers[w].heartbeat
  <2>1. t.workers[w] = IF w \in D THEN [s.workers[w] EXCEPT !.state = phase] ELSE s.workers[w]
    BY DEF SetPhase, Good, State
  <2>2. s.workers[w] \in Worker
    BY DEF Good, State
  <2> HIDE DEF t
  <2>3. CASE w \in D
    <3>1. /\ t.workers[w].state = phase /\ t.workers[w].heartbeat = s.workers[w].heartbeat
      BY <2>1, <2>2, <2>3 DEF Worker
    <3>2. QED BY <2>3, <3>1, SteadyMoved
  <2>4. CASE w \notin D
    BY <2>1, <2>4, SteadyKept
  <2>5. QED BY <2>3, <2>4
<1> HIDE DEF t
<1>2. QED BY <1>1 DEF WorkersSteady, t

LEMMA BeginDrainSteady ==
  ASSUME NEW s, Good(s), NEW D \in SUBSET Workers,
         \A w \in D : WorkerPhase(s, w) \in Counted \ {"starting", "unknown"}
  PROVE  /\ WorkersSteady(s, BeginDrain(s, D))
         /\ \A w \in Workers : BeginDrain(s, D).workers[w].heartbeat = s.workers[w].heartbeat
<1> DEFINE t == BeginDrain(s, D)
<1>1. ASSUME NEW w \in Workers
      PROVE  Steady(s.workers[w], t.workers[w]) /\ t.workers[w].heartbeat = s.workers[w].heartbeat
  <2>1. t.workers[w] = IF w \in D /\ ~s.workers[w].draining
                       THEN [s.workers[w] EXCEPT !.draining = TRUE, !.state = "draining"]
                       ELSE s.workers[w]
    BY DEF BeginDrain, Good, State
  <2>2. s.workers[w] \in Worker
    BY DEF Good, State
  <2> HIDE DEF t
  <2>3. CASE w \in D /\ ~s.workers[w].draining
    <3>1. t.workers[w].state = "draining" /\ t.workers[w].heartbeat = s.workers[w].heartbeat
      BY <2>1, <2>2, <2>3 DEF Worker
    <3>2. s.workers[w].state \in Counted \ {"starting", "unknown"} /\ "draining" \in Counted
      BY <2>3 DEF Counted, WorkerPhases
    <3>3. QED BY <3>1, <3>2, SteadyMoved
  <2>4. CASE ~(w \in D /\ ~s.workers[w].draining)
    BY <2>1, <2>4, SteadyKept
  <2>5. QED BY <2>3, <2>4
<1> HIDE DEF t
<1>2. QED BY <1>1 DEF WorkersSteady, t

\* Workers are given up as lost only after their agents were heard.
LEMMA LostSteady ==
  ASSUME NEW s, Good(s), NEW D,
         \A w \in D \cap Workers : WorkerPhase(s, w) \in Counted /\ s.workers[w].heartbeat # "never"
  PROVE  WorkersSteady(s, Lost(s, D))
<1> DEFINE t == Close(s, D, "lost")
<1>1. ASSUME NEW w \in Workers PROVE Steady(s.workers[w], t.workers[w])
  <2>1. t.workers[w] = IF w \in D THEN [s.workers[w] EXCEPT !.state = "lost", !.ready = FALSE]
                                  ELSE s.workers[w]
    BY DEF Close, Finish, Leave, Good, State
  <2>2. s.workers[w] \in Worker
    BY DEF Good, State
  <2> HIDE DEF t
  <2>3. CASE w \in D
    <3>1. t.workers[w].state = "lost" /\ "lost" \in Counted
      BY <2>1, <2>2, <2>3 DEF Worker, Counted, WorkerPhases
    <3>2. QED BY <2>3, <3>1, SteadyMoved
  <2>4. CASE w \notin D
    BY <2>1, <2>4, SteadyKept
  <2>5. QED BY <2>3, <2>4
<1> HIDE DEF t
<1>2. QED BY <1>1 DEF WorkersSteady, Lost, t

\* Only records that are not counted any more are forgotten.
LEMMA PruneWorkersSteady ==
  ASSUME NEW s, Good(s), NEW old \in SUBSET Retired(s)
  PROVE  WorkersSteady(s, PruneWorkers(s, old))
<1> DEFINE t == PruneWorkers(s, old)
<1>1. ASSUME NEW w \in Workers PROVE Steady(s.workers[w], t.workers[w])
  <2>1. t.workers[w] = IF w \in old THEN [NoWorker EXCEPT !.state = "pruned"] ELSE s.workers[w]
    BY DEF PruneWorkers, Good, State
  <2> HIDE DEF t
  <2>2. CASE w \in old
    <3>1. t.workers[w].state = "pruned" /\ t.workers[w].heartbeat = "never"
      BY <2>1, <2>2 DEF NoWorker
    <3>2. ~Alive(t.workers[w])
      BY <3>1 DEF Alive
    <3>3. \/ s.workers[w].state = "stopped"
          \/ s.workers[w].state = "failed" /\ ~s.workers[w].provider
      BY <2>2, Zenon DEF Retired
    <3>4. ~Alive(s.workers[w]) /\ s.workers[w].state \notin {"starting", "unknown"}
      BY <3>3 DEF Alive
    <3>5. QED BY <3>1, <3>2, <3>4, Zenon DEF Steady, Stays
  <2>3. CASE w \notin old
    BY <2>1, <2>3, SteadyKept
  <2>4. QED BY <2>2, <2>3
<1> HIDE DEF t
<1>2. QED BY <1>1 DEF WorkersSteady, t

-----------------------------------------------------------------------------
(* The lease transaction.                                                  *)

LEMMA AgeWorkersSteady ==
  ASSUME NEW s, Good(s), NEW interrupted \in SUBSET Starting(s)
  PROVE  WorkersSteady(s, AgeWorkers(s, interrupted))
<1> DEFINE ending  == {w \in Workers : WorkerPhase(s, w) = "ready" /\ s.workers[w].ending}
           drained == BeginDrain(s, ending)
           silent  == {w \in Workers : /\ WorkerPhase(drained, w) = "ready"
                                       /\ s.workers[w].heartbeat # "fresh"}
           gone    == {w \in Workers : /\ Exists(s, w) /\ WorkerPhase(s, w) \notin Down
                                       /\ s.workers[w].heartbeat = "gone"}
           marked  == SetPhase(drained, interrupted, "unknown")
           quiet   == SetPhase(marked, silent, "suspect")
           t       == Lost(quiet, gone)
<1>0. "ready" \in Counted \ {"starting", "unknown"} /\ "unknown" \in Counted
      /\ "suspect" \in Counted /\ "starting" \in Counted /\ "draining" \in Counted
  BY DEF Counted, WorkerPhases
<1>1. /\ Good(drained) /\ WorkersSteady(s, drained)
      /\ \A w \in Workers : drained.workers[w].heartbeat = s.workers[w].heartbeat
  BY <1>0, BeginDrainGood, BeginDrainSteady
<1>2. \A w \in interrupted : w \in Workers /\ WorkerPhase(drained, w) = "starting"
  BY DEF Starting, BeginDrain, Good, State
<1>3. \A w \in gone : WorkerPhase(drained, w) \in {WorkerPhase(s, w), "draining"}
  BY DEF BeginDrain, Good, State, Worker
<1> HIDE DEF drained
<1>4. /\ Good(marked) /\ WorkersSteady(drained, marked)
      /\ \A w \in Workers : marked.workers[w].heartbeat = drained.workers[w].heartbeat
  <2>1. Good(marked)
    <3>1. \A w \in interrupted \cap Workers : Rooms(drained, w) = {}
      BY <1>1, <1>2, NoRooms DEF ServingPhases
    <3>2. QED BY <1>1, <3>1, SetPhaseGood DEF WorkerPhases
  <2>2. QED BY <1>0, <1>1, <1>2, <2>1, SetPhaseSteady
<1>5. /\ \A w \in silent : WorkerPhase(marked, w) = "ready"
      /\ \A w \in gone : WorkerPhase(marked, w) \in {WorkerPhase(drained, w), "unknown"}
  BY <1>1, <1>2 DEF SetPhase, Good, State, Worker
<1> HIDE DEF marked, silent
<1>6. /\ Good(quiet) /\ WorkersSteady(marked, quiet)
      /\ \A w \in Workers : quiet.workers[w].heartbeat = marked.workers[w].heartbeat
  <2>1. Good(quiet)
    BY <1>4, <1>5, SetPhaseGood DEF WorkerPhases, ServingPhases
  <2>2. QED BY <1>0, <1>4, <1>5, <2>1, SetPhaseSteady
<1>7. \A w \in gone : WorkerPhase(quiet, w) \in {WorkerPhase(marked, w), "suspect"}
  BY <1>4 DEF SetPhase, Good, State, Worker
<1> HIDE DEF quiet
<1>8. \A w \in gone : WorkerPhase(quiet, w) \in Counted /\ quiet.workers[w].heartbeat # "never"
  <2> SUFFICES ASSUME NEW w \in gone
               PROVE  WorkerPhase(quiet, w) \in Counted /\ quiet.workers[w].heartbeat # "never"
    OBVIOUS
  <2>1. WorkerPhase(s, w) \in Counted
    BY DEF Exists, Down, Counted, Good, State, Worker
  <2>2. quiet.workers[w].heartbeat = "gone"
    BY <1>1, <1>4, <1>6
  <2>3. QED BY <1>0, <1>3, <1>5, <1>7, <2>1, <2>2
<1>9. WorkersSteady(quiet, t)
  BY <1>6, <1>8, LostSteady
<1>10. t = AgeWorkers(s, interrupted)
  BY DEF AgeWorkers, t, quiet, marked, silent, drained
<1> HIDE DEF t
<1>11. QED BY <1>1, <1>4, <1>6, <1>9, <1>10, SteadyTransitive

\* Placing a request and setting the idle clock leave phases alone.
LEMMA PlaceSteady ==
  ASSUME NEW s, Good(s), NEW f
  PROVE  WorkersSteady(s, Place(s, f))
<1> DEFINE t == Place(s, f)
<1>1. ASSUME NEW w \in Workers PROVE Steady(s.workers[w], t.workers[w])
  <2>1. t.workers[w] \in {s.workers[w], [s.workers[w] EXCEPT !.idle = FALSE]}
    BY DEF Place, Good, State
  <2>2. s.workers[w] \in Worker
    BY DEF Good, State
  <2> HIDE DEF t
  <2>3. QED BY <2>1, <2>2, SteadyKept DEF Worker
<1> HIDE DEF t
<1>2. QED BY <1>1 DEF WorkersSteady, t

LEMMA ScaleInSteady ==
  ASSUME NEW s, Good(s), NEW surplus \in DrainChoices(s)
  PROVE  WorkersSteady(s, ScaleIn(s, surplus))
<1> DEFINE W == [w \in Workers |->
                    IF w \in Serving(s) THEN [s.workers[w] EXCEPT !.idle = Rooms(s, w) = {}]
                                        ELSE s.workers[w]]
           clocked == [s EXCEPT !.workers = W]
           drained == BeginDrain(clocked, surplus)
           leaving == {w \in Workers : WorkerPhase(s, w) = "draining" /\ Drained(s, w)}
           t == ScaleIn(s, surplus)
<1>0. /\ "ready" \in Counted \ {"starting", "unknown"} /\ "draining" \in Counted
      /\ "stopping" \in Counted
  BY DEF Counted, WorkerPhases
<1>1. ASSUME NEW w \in Workers
      PROVE  W[w] \in Worker /\ W[w].state = s.workers[w].state /\ Steady(s.workers[w], W[w])
  <2>1. s.workers[w] \in Worker
    BY DEF Good, State
  <2>2. CASE w \in Serving(s)
    <3> DEFINE empty == Rooms(s, w) = {}
    <3>1. W[w] = [s.workers[w] EXCEPT !.idle = empty] /\ empty \in BOOLEAN
      BY <2>2
    <3> HIDE DEF W, empty
    <3>2. /\ W[w] \in Worker /\ W[w].state = s.workers[w].state
          /\ W[w].provider = s.workers[w].provider /\ W[w].heartbeat = s.workers[w].heartbeat
      BY <2>1, <3>1 DEF Worker
    <3>3. QED BY <3>2, SteadyKept
  <2>3. CASE w \notin Serving(s)
    BY <2>1, <2>3, SteadyKept
  <2>4. QED BY <2>2, <2>3
<1>2. Good(clocked)
  <2>1. W \in [Workers -> Worker]
    BY <1>1
  <2> HIDE DEF W
  <2>2. QED BY <1>1, <2>1 DEF Good, State, RoomsServed, Allocation
<1>3. WorkersSteady(s, clocked) /\ \A w \in Workers : WorkerPhase(clocked, w) = WorkerPhase(s, w)
  <2>1. \A w \in Workers : clocked.workers[w] = W[w]
    BY DEF Good, State
  <2> HIDE DEF W
  <2>2. QED BY <1>1, <2>1 DEF WorkersSteady
<1>4. surplus \subseteq Workers /\ \A w \in surplus : WorkerPhase(s, w) = "ready"
  BY DEF DrainChoices, Surplus, Serving
<1> HIDE DEF clocked, W
<1>5. Good(drained) /\ WorkersSteady(clocked, drained)
  BY <1>0, <1>2, <1>3, <1>4, BeginDrainGood, BeginDrainSteady
<1>6. \A w \in leaving : WorkerPhase(drained, w) = "draining"
  BY <1>2, <1>3 DEF BeginDrain, Good, State, Worker
<1> HIDE DEF drained, leaving
<1>7. WorkersSteady(drained, SetPhase(drained, leaving, "stopping"))
  BY <1>0, <1>5, <1>6, SetPhaseSteady
<1>8. t = SetPhase(drained, leaving, "stopping")
  BY DEF ScaleIn, drained, clocked, W, leaving
<1> HIDE DEF t
<1>9. QED BY <1>3, <1>5, <1>7, <1>8, SteadyTransitive DEF t

-----------------------------------------------------------------------------
(* The workers that liveCount counts.                                      *)

Budget(s, t) == LiveCount(s) <= MaxInstances => LiveCount(t) <= MaxInstances

LEMMA LiveFinite ==
  ASSUME NEW s
  PROVE  /\ Live(s) = {w \in Workers : Alive(s.workers[w])}
         /\ IsFiniteSet(Live(s)) /\ LiveCount(s) \in Nat
<1>1. ASSUME NEW w \in Workers PROVE w \in Live(s) <=> Alive(s.workers[w])
  BY Zenon DEF Live, Exists, Alive
<1>2. Live(s) \in SUBSET Workers
  BY DEF Live
<1>3. QED BY <1>1, <1>2, WorkersAssumption, FS_Subset, FS_CardinalityType DEF LiveCount

LEMMA SteadyBudget ==
  ASSUME NEW s, NEW t, \A w \in Workers : Alive(t.workers[w]) => Alive(s.workers[w])
  PROVE  Budget(s, t)
<1>1. Live(t) \subseteq Live(s) /\ IsFiniteSet(Live(s))
  BY LiveFinite
<1>2. LiveCount(t) <= LiveCount(s)
  BY <1>1, FS_Subset DEF LiveCount
<1>3. LiveCount(t) \in Nat /\ LiveCount(s) \in Nat
  BY LiveFinite
<1>4. QED BY <1>2, <1>3, LimitsAssumption DEF Budget

\* One more worker, where there is room for one.
LEMMA AddWorkerCounted ==
  ASSUME NEW s, Good(s), NEW w \in Workers, WorkerPhase(s, w) = "absent", NEW n,
         LiveCount(s) < MaxInstances
  PROVE  WorkersStay(s, AddWorker(s, w, n)) /\ Budget(s, AddWorker(s, w, n))
<1> DEFINE t == AddWorker(s, w, n)
           r == [NoWorker EXCEPT !.state = "requested", !.maxRooms = n]
<1>1. r.state = "requested" /\ r.heartbeat = "never"
  BY DEF NoWorker
<1>2. \A v \in Workers : t.workers[v] = IF v = w THEN r ELSE s.workers[v]
  BY DEF AddWorker, Good, State
<1> HIDE DEF t, r
<1>3. Stays(s.workers[w], r)
  BY <1>1 DEF Stays, Alive
<1>4. \A v \in Workers : Steady(s.workers[v], s.workers[v])
  BY SteadyKept
<1>5. WorkersStay(s, t)
  BY <1>2, <1>3, <1>4 DEF WorkersStay, Steady
<1>6. Live(t) \subseteq Live(s) \cup {w}
  BY <1>2, LiveFinite
<1>7. LiveCount(t) <= LiveCount(s) + 1
  <2>1. IsFiniteSet(Live(s) \cup {w})
        /\ Cardinality(Live(s) \cup {w}) \in {LiveCount(s), LiveCount(s) + 1}
    BY LiveFinite, FS_AddElement DEF LiveCount
  <2>2. LiveCount(t) <= Cardinality(Live(s) \cup {w})
    BY <1>6, <2>1, FS_Subset DEF LiveCount
  <2>3. QED BY <2>1, <2>2, LiveFinite
<1>8. LiveCount(t) \in Nat /\ LiveCount(s) \in Nat
  BY LiveFinite
<1>9. QED BY <1>5, <1>7, <1>8, LimitsAssumption DEF Budget, t

\* The lease transaction adds a worker only within the limit.
LEMMA TickStays ==
  ASSUME NEW c \in Controllers, Good(store), TickTx(c)
  PROVE  WorkersStay(store, store') /\ Budget(store, store')
<1>1. PICK aged, expired, pruned, trimmed, assigned, placed, scaled, last :
        TickChain(c, aged, expired, pruned, trimmed, assigned, placed, scaled, last)
  BY TickPhases
<1>2. /\ Good(aged) /\ Good(expired) /\ Good(pruned) /\ Good(trimmed) /\ Good(assigned)
      /\ Good(placed) /\ Good(scaled) /\ Good(last)
  BY <1>1 DEF TickChain
<1>3. WorkersSteady(store, aged)
  BY <1>1, AgeWorkersSteady DEF TickChain
<1>4. WorkersSteady(aged, pruned)
  <2>1. expired.workers = aged.workers
    <3>1. PICK overdue \in SUBSET Expirable(aged) : expired = ExpireAllocations(aged, overdue)
      BY <1>1 DEF TickChain
    <3>2. Orphans(aged) \cup overdue \in SUBSET Allocs
      BY DEF Orphans, Expirable
    <3>3. QED BY <1>2, <3>1, <3>2, CancelMoves DEF ExpireAllocations, Reasons
  <2>2. pruned.workers = expired.workers
    BY <1>1, PruneAllocationsMoves DEF TickChain
  <2>3. QED BY <2>1, <2>2, SteadyReflexive
<1>5. WorkersSteady(pruned, trimmed)
  BY <1>1, PruneWorkersSteady DEF TickChain
<1>6. WorkersSteady(trimmed, assigned)
  BY <1>1, ReserveMoves, SteadyReflexive DEF TickChain, AssignPrepared
<1>7. WorkersSteady(assigned, placed)
  BY <1>1, PlaceSteady DEF TickChain
<1>8. WorkersSteady(store, placed)
  BY <1>3, <1>4, <1>5, <1>6, <1>7, SteadyTransitive
<1>9. WorkersStay(placed, scaled) /\ Budget(placed, scaled)
  <2>1. CASE scaled = placed
    BY <2>1, SteadyReflexive, SteadyStays DEF Budget
  <2>2. CASE \E w \in Workers : /\ WorkerPhase(placed, w) = "absent" /\ LiveCount(placed) < MaxInstances
                                /\ scaled = AddWorker(placed, w, MaxRooms)
    BY <1>2, <2>2, AddWorkerCounted
  <2>3. QED BY <1>1, <2>1, <2>2 DEF TickChain, ScaleOut, NeedsWorker
<1>10. WorkersSteady(scaled, last)
  BY <1>1, ScaleInSteady DEF TickChain
<1>11. store'.workers = last.workers
  BY <1>1 DEF TickChain, Good, State
<1>12. WorkersSteady(scaled, store')
  BY <1>10, <1>11 DEF WorkersSteady
<1>13. Budget(store, placed) /\ Budget(scaled, store')
  BY <1>8, <1>12, SteadyBudget DEF WorkersSteady, Steady
<1>14. WorkersStay(store, store')
  BY <1>8, <1>9, <1>12, SteadyStays, StayTransitive
<1>15. QED BY <1>9, <1>13, <1>14 DEF Budget

-----------------------------------------------------------------------------
(* Steps that write the record of one worker.                              *)

\* Only the record of w changes, and its heartbeat does not.
Only(s, t, w) ==
    /\ \A v \in Workers \ {w} : t.workers[v] = s.workers[v]
    /\ t.workers[w].heartbeat = s.workers[w].heartbeat

LEMMA OnlyTransitive ==
  ASSUME NEW s, NEW t, NEW u, NEW w, Only(s, t, w), Only(t, u, w)
  PROVE  Only(s, u, w)
  BY DEF Only

LEMMA OnlySetPhase ==
  ASSUME NEW s, Good(s), NEW w \in Workers, NEW phase
  PROVE  /\ Only(s, SetPhase(s, {w}, phase), w)
         /\ SetPhase(s, {w}, phase).workers[w].state = phase
<1>1. s.workers[w] \in Worker
  BY DEF Good, State
<1>2. /\ SetPhase(s, {w}, phase).workers[w] = [s.workers[w] EXCEPT !.state = phase]
      /\ \A v \in Workers \ {w} : SetPhase(s, {w}, phase).workers[v] = s.workers[v]
  BY DEF SetPhase, Good, State
<1>3. QED BY <1>1, <1>2 DEF Only, Worker

LEMMA OnlyClose ==
  ASSUME NEW s, Good(s), NEW w \in Workers, NEW phase
  PROVE  /\ Only(s, Close(s, {w}, phase), w)
         /\ Close(s, {w}, phase).workers[w].state = phase
<1>1. s.workers[w] \in Worker
  BY DEF Good, State
<1>2. /\ Close(s, {w}, phase).workers[w] = [s.workers[w] EXCEPT !.state = phase, !.ready = FALSE]
      /\ \A v \in Workers \ {w} : Close(s, {w}, phase).workers[v] = s.workers[v]
  BY DEF Close, Finish, Leave, Good, State
<1>3. QED BY <1>1, <1>2 DEF Only, Worker

LEMMA OnlyLifetime ==
  ASSUME NEW s, Good(s), NEW w \in Workers, NEW short
  PROVE  /\ Only(s, Lifetime(s, w, short), w)
         /\ Lifetime(s, w, short).workers[w].state \in {WorkerPhase(s, w), "stopping"}
<1>1. s.workers[w] \in Worker
  BY DEF Good, State
<1>2. CASE ~short
  BY <1>2 DEF Only, Lifetime
<1>3. CASE short
  <2> DEFINE phase == IF s.workers[w].state \in {"launching", "bootstrapping"} THEN "stopping"
                      ELSE s.workers[w].state
             t == Lifetime(s, w, short)
  <2>1. /\ t.workers[w] = [s.workers[w] EXCEPT !.state = phase]
        /\ \A v \in Workers \ {w} : t.workers[v] = s.workers[v]
        /\ phase \in {WorkerPhase(s, w), "stopping"}
    BY <1>3 DEF Lifetime, Good, State
  <2> HIDE DEF t, phase
  <2>2. QED BY <1>1, <2>1 DEF Only, Worker, t
<1>4. QED BY <1>2, <1>3

LEMMA OnlyLaunched ==
  ASSUME NEW s, Good(s), NEW w \in Workers
  PROVE  /\ Only(s, Adopt(s, w), w) /\ Adopt(s, w).workers[w].state = "launching"
<1>1. s.workers[w] \in Worker
  BY DEF Good, State
<1>2. /\ Adopt(s, w).workers[w] = [s.workers[w] EXCEPT !.provider = TRUE, !.state = "launching"]
      /\ \A v \in Workers \ {w} : Adopt(s, w).workers[v] = s.workers[v]
  BY DEF Adopt, Good, State
<1>3. QED BY <1>1, <1>2 DEF Only, Worker

\* The outcome of a create request.
LEMMA OnlyCreated ==
  ASSUME NEW s, Good(s), NEW w \in Workers, WorkerPhase(s, w) = "starting",
         NEW reply, reply.status \in PostAnswers
  PROVE  LET t == Created(s, w, reply) IN
         /\ Only(s, t, w)
         /\ t.workers[w].state \in {"unknown", "failed", "launching", "stopping"}
         /\ t.workers[w].state = "failed" => reply.status \in {"rejected", "misconfigured"}
<1> DEFINE t == Created(s, w, reply)
<1>1. \A phase : /\ Only(s, SetPhase(s, {w}, phase), w)
                 /\ SetPhase(s, {w}, phase).workers[w].state = phase
  BY OnlySetPhase
<1>2. CASE reply.status \in {"unknown", "rejected"}
  BY <1>1, <1>2 DEF Created
<1>3. CASE reply.status = "misconfigured"
  <2>1. Created(s, w, reply) = [SetPhase(s, {w}, "failed") EXCEPT !.blocked = TRUE]
    BY <1>3 DEF Created
  <2>2. Created(s, w, reply).workers = SetPhase(s, {w}, "failed").workers
    BY <2>1 DEF SetPhase, Good, State
  <2>3. Only(s, Created(s, w, reply), w) /\ Created(s, w, reply).workers[w].state = "failed"
    BY <1>1, <2>2 DEF Only
  <2>4. QED BY <1>3, <2>3
<1>4. CASE reply.status = "created"
  <2> DEFINE u == Adopt(s, w)
  <2>1. Good(u) /\ Only(s, u, w) /\ u.workers[w].state = "launching"
    <3>1. [s.workers[w] EXCEPT !.provider = TRUE, !.state = "launching"] \in Worker
      <4>1. s.workers[w] \in Worker
        BY DEF Good, State
      <4>2. QED BY <4>1 DEF Worker, WorkerPhases
    <3>2. u = [s EXCEPT !.workers[w] = [s.workers[w] EXCEPT !.provider = TRUE, !.state = "launching"]]
      BY DEF Adopt, Good, State
    <3>3. Good(u)
      BY <3>1, <3>2, NoRooms, WorkerChanged DEF ServingPhases
    <3>4. QED BY <3>3, OnlyLaunched
  <2>2. Created(s, w, reply) = Lifetime(u, w, reply.short)
    BY <1>4 DEF Created, Adopt
  <2> HIDE DEF u
  <2>3. /\ Only(u, Lifetime(u, w, reply.short), w)
        /\ Lifetime(u, w, reply.short).workers[w].state \in {"launching", "stopping"}
    BY <2>1, OnlyLifetime
  <2>4. QED BY <1>4, <2>1, <2>2, <2>3, OnlyTransitive
<1>5. QED BY <1>2, <1>3, <1>4 DEF PostAnswers

\* The answer to a poll: only a machine that is stopped or gone stops its worker.
LEMMA OnlyPoll ==
  ASSUME NEW s, Good(s), NEW w \in Workers, WorkerPhase(s, w) \in Polled,
         NEW reply, reply.short \in BOOLEAN, reply.status \in PollAnswers, NEW overdue \in BOOLEAN
  PROVE  LET t == Poll(s, w, reply, overdue) IN
         /\ Only(s, t, w)
         /\ t.workers[w].state \in Polled \cup {"stopping", "stopped"}
         /\ t.workers[w].state = "stopped" => reply.status \in {"stopped", "missing"}
<1> DEFINE t == Lifetime(s, w, reply.short)
           u == Poll(s, w, reply, overdue)
<1> SUFFICES /\ Only(s, u, w)
             /\ u.workers[w].state \in Polled \cup {"stopping", "stopped"}
             /\ u.workers[w].state = "stopped" => reply.status \in {"stopped", "missing"}
  OBVIOUS
<1>1. Good(t) /\ Only(s, t, w) /\ t.workers[w].state \in Polled \cup {"stopping"}
  BY LifetimeGood, OnlyLifetime
<1>2. \/ u = s \/ u = t
      \/ u = Close(s, {w}, "lost")
      \/ u = SetPhase(t, {w}, "stopping")
      \/ WorkerPhase(t, w) # "stopping" /\ u = Serve(t, w)
      \/ /\ reply.status \in {"stopped", "missing"}
         /\ u = Close(s, {w}, "stopped") \/ u = Close(t, {w}, "stopped")
  <2> HIDE DEF t
  <2>1. QED BY DEF Poll, PollAnswers, Stopped, Lost, t
<1> HIDE DEF t, u
<1>3. ASSUME WorkerPhase(t, w) # "stopping"
      PROVE  Only(t, Serve(t, w), w) /\ Serve(t, w).workers[w].state \in Polled
  <2> DEFINE worker == t.workers[w]
             phase == IF worker.ready /\ worker.boot /\ worker.heartbeat = "fresh"
                      THEN IF worker.draining THEN "draining" ELSE "ready"
                      ELSE IF worker.state \in {"launching", "bootstrapping"} THEN "bootstrapping"
                      ELSE IF worker.draining THEN worker.state ELSE "suspect"
             r == [worker EXCEPT !.host = TRUE, !.state = phase]
  <2>1. phase \in Polled
    BY <1>1, <1>3 DEF Polled
  <2>2. Serve(t, w) = [t EXCEPT !.workers[w] = r]
    BY DEF Serve
  <2>3. worker \in Worker
    BY <1>1 DEF Good, State
  <2> HIDE DEF phase
  <2>4. r.state = phase /\ r.heartbeat = worker.heartbeat
    BY <2>3 DEF Worker
  <2>5. Serve(t, w).workers[w] = r /\ \A v \in Workers \ {w} : Serve(t, w).workers[v] = t.workers[v]
    BY <1>1, <2>2 DEF Good, State
  <2> HIDE DEF r
  <2>6. QED BY <2>1, <2>4, <2>5 DEF Only
<1>4. CASE u = s
  BY <1>4 DEF Only, Polled
<1>5. CASE u = Close(s, {w}, "lost")
  BY <1>5, OnlyClose DEF Polled
<1>6. CASE u = Close(s, {w}, "stopped") /\ reply.status \in {"stopped", "missing"}
  BY <1>6, OnlyClose DEF Polled
<1>7. CASE u = t
  BY <1>1, <1>7 DEF Polled
<1>8. CASE u = SetPhase(t, {w}, "stopping")
  BY <1>1, <1>8, OnlySetPhase, OnlyTransitive
<1>9. CASE WorkerPhase(t, w) # "stopping" /\ u = Serve(t, w)
  BY <1>1, <1>3, <1>9, OnlyTransitive DEF Polled
<1>10. CASE u = Close(t, {w}, "stopped") /\ reply.status \in {"stopped", "missing"}
  BY <1>1, <1>10, OnlyClose, OnlyTransitive
<1>11. QED BY <1>2, <1>4, <1>5, <1>6, <1>7, <1>8, <1>9, <1>10

-----------------------------------------------------------------------------
(* The inductive invariant.                                                *)

\* a create request of w is about to be sent, or its outcome is not recorded
Asking(k, w) == k.worker = w /\ k.pc \in {"posting", "awaiting", "posted"}

\* Of a worker for which nothing was asked there is no machine and no request.
Unasked(w) ==
    WorkerPhase(store, w) \in {"absent", "requested"} =>
        cloud[w] = "none" /\ \A c \in Controllers : ~Asking(ctl[c], w)

\* No agent was heard before there was a machine for it to run in.
Unheard(w) == ~Spoke(w) => store.workers[w].heartbeat = "never"

\* A machine that costs money belongs to a worker that is counted.
Paid(w) == cloud[w] \in Billable => Alive(store.workers[w])

\* A request is about to be sent only where none was sent before.
Sending(c) ==
    ctl[c].pc = "posting" =>
        /\ cloud[ctl[c].worker] = "none"
        /\ WorkerPhase(store, ctl[c].worker) \in {"starting", "unknown"}
        /\ \A d \in Controllers \ {c} : ~Asking(ctl[d], ctl[c].worker)

\* What an answer says that a process has not recorded yet is still true.
Honest(c) ==
    LET k == ctl[c] IN
    /\ k.pc = "listed" /\ k.reply.status = "found" => Spoke(k.worker)
    /\ k.pc \in {"got", "confirmed"} /\ k.reply.status \in {"stopped", "missing"}
            => cloud[k.worker] = "stopped"
    /\ k.pc = "posted" /\ k.reply.status \in {"rejected", "misconfigured"}
            => cloud[k.worker] \notin Billable

LaunchInv ==
    /\ MovesInv
    /\ \A w \in Workers : Unasked(w) /\ Unheard(w) /\ Paid(w)
    /\ \A c \in Controllers : Sending(c) /\ Honest(c)
    /\ LiveCount(store) <= MaxInstances

-----------------------------------------------------------------------------
(* What a step does to the store, as far as the machines are concerned.    *)

\* A worker whose machine costs money stays counted, and one whose machine never
\* spoke stays in its start, unless the outcome of its request is being recorded.
Fate(s, t, w) ==
    LET p == s.workers[w]
        q == t.workers[w]
    IN  /\ cloud[w] \in Billable => (Alive(p) => Alive(q))
        /\ ~Spoke(w) => (p.heartbeat = "never" => q.heartbeat = "never")
        /\ ~Spoke(w) /\ (\A c \in Controllers : ctl[c].pc = "posted" => ctl[c].worker # w)
            => (p.heartbeat = "never" /\ p.state \in {"starting", "unknown"}
                    => q.state \in {"starting", "unknown"})

Fates(s, t) == (\A w \in Workers : Fate(s, t, w)) /\ Budget(s, t)

LEMMA StayFates ==
  ASSUME NEW s, NEW t, WorkersStay(s, t), Budget(s, t)
  PROVE  Fates(s, t)
  BY DEF WorkersStay, Stays, Fate, Fates

LEMMA SteadyFates ==
  ASSUME NEW s, NEW t, WorkersSteady(s, t)
  PROVE  Fates(s, t)
  BY SteadyStays, SteadyBudget, StayFates DEF WorkersSteady, Steady

LEMMA OnlyFates ==
  ASSUME NEW s, NEW t, NEW w \in Workers, Alive(s.workers[w]),
         \A v \in Workers \ {w} : t.workers[v] = s.workers[v],
         cloud[w] \in Billable => Alive(t.workers[w]),
         \/ Spoke(w)
         \/ /\ t.workers[w].heartbeat = s.workers[w].heartbeat
            /\ \/ \E c \in Controllers : ctl[c].pc = "posted" /\ ctl[c].worker = w
               \/ s.workers[w].state \notin {"starting", "unknown"}
               \/ t.workers[w].state \in {"starting", "unknown"}
  PROVE  Fates(s, t)
<1>1. Fate(s, t, w)
  BY DEF Fate
<1>2. ASSUME NEW v \in Workers \ {w} PROVE Fate(s, t, v) /\ (Alive(t.workers[v]) => Alive(s.workers[v]))
  BY DEF Fate
<1>3. Budget(s, t)
  BY <1>2, SteadyBudget
<1>4. QED BY <1>1, <1>2, <1>3 DEF Fates

\* A worker that exists and is neither stopped nor failed is counted.
LEMMA CountedAlive == \A r : r.state \in Counted => Alive(r)
  BY DEF Counted, Alive

\* A worker whose phase, provider and heartbeat stay.
LEMMA KeptFates ==
  ASSUME NEW s, Good(s), NEW w \in Workers, NEW r, r.state = s.workers[w].state,
         r.provider = s.workers[w].provider,
         r.heartbeat = s.workers[w].heartbeat \/ s.workers[w].heartbeat # "never"
  PROVE  Fates(s, [s EXCEPT !.workers[w] = r])
<1> DEFINE t == [s EXCEPT !.workers[w] = r]
<1>1. \A v \in Workers : t.workers[v] = IF v = w THEN r ELSE s.workers[v]
  BY DEF Good, State
<1> HIDE DEF t
<1>2. Steady(s.workers[w], r)
  BY DEF Steady, Stays, Alive
<1>3. \A v \in Workers : Steady(s.workers[v], s.workers[v])
  BY SteadyKept
<1>4. WorkersSteady(s, t)
  BY <1>1, <1>2, <1>3 DEF WorkersSteady
<1>5. QED BY <1>4, SteadyFates DEF t

LEMMA ClientFates ==
  ASSUME IInv, Client
  PROVE  Fates(store, store')
<1>0. Good(store) /\ \A w \in Workers : store.workers[w] \in Worker
  BY IInvUse DEF Good, State
<1>1. ASSUME store'.workers = store.workers PROVE Fates(store, store')
  BY <1>1, SteadyReflexive, SteadyFates
<1>2. ASSUME NEW users \in Pairs, NEW key \in Keys, Allocate(users, key)
      PROVE  Fates(store, store')
  BY <1>0, <1>1, <1>2 DEF Allocate, Commit, AddAllocation, Good, State
<1>3. ASSUME NEW a \in Allocs, CancelByPlayer(a) \/ Join(a)
      PROVE  Fates(store, store')
  <2>1. {a} \in SUBSET Allocs /\ "cancelled" \in Reasons
    BY DEF Reasons
  <2>2. QED BY <1>0, <1>1, <1>3, <2>1, CancelMoves, ReserveMoves DEF CancelByPlayer, Join, Commit
<1>4. ASSUME NEW w \in Workers, NEW n \in Capacities, Create(w, n)
      PROVE  Fates(store, store')
  BY <1>0, <1>4, AddWorkerCounted, StayFates DEF Create, CanCreate, Commit
<1>5. ASSUME NEW w \in Workers, NEW n \in Capacities, NEW users \in Pairs, CreateWithUsers(w, n, users)
      PROVE  Fates(store, store')
  <2> DEFINE t == AddWorker(store, w, n)
  <2>1. Good(t) /\ Fates(store, t)
    BY <1>0, <1>5, AddWorkerGood, AddWorkerCounted, StayFates, InputsAssumption
       DEF CreateWithUsers, CanCreate
  <2>2. PICK a \in Allocs : store' = AddAllocation(t, a, users, w, w)
    BY <1>5 DEF CreateWithUsers, Commit
  <2> HIDE DEF t
  <2>3. store'.workers = t.workers
    BY <2>1, <2>2 DEF AddAllocation, Good, State
  <2>4. QED BY <2>1, <2>3 DEF Fates, Fate, Budget, LiveCount, Live, Exists
<1>6. ASSUME NEW w \in Workers, Delete(w) \/ Drain(w)
      PROVE  Fates(store, store')
  <2>1. WorkerPhase(store, w) \in Counted \ {"starting", "unknown"} /\ {w} \in SUBSET Workers
        /\ store' = BeginDrain(store, {w})
    BY <1>6 DEF Delete, Drain, Drainable, Commit, Counted, WorkerPhases
  <2>2. QED BY <1>0, <2>1, BeginDrainSteady, SteadyFates
<1>7. ASSUME NEW w \in Workers, NEW some \in Posted, PostPlayers(w, some)
      PROVE  Fates(store, store')
  <2> DEFINE r == [store.workers[w] EXCEPT !.players = some]
  <2>1. r.state = store.workers[w].state /\ r.provider = store.workers[w].provider
        /\ r.heartbeat = store.workers[w].heartbeat
    BY <1>0 DEF Worker
  <2>2. store' = [store EXCEPT !.workers[w] = r]
    BY <1>7 DEF PostPlayers, Commit
  <2> HIDE DEF r
  <2>3. QED BY <1>0, <2>1, <2>2, KeptFates
<1>8. ASSUME RetryCreation PROVE Fates(store, store')
  BY <1>0, <1>1, <1>8 DEF RetryCreation, Commit, Good, State
<1>9. QED BY <1>2, <1>3, <1>4, <1>5, <1>6, <1>7, <1>8 DEF Client

\* A heartbeat concerns its own worker, and leaves it counted.
LEMMA HeartbeatOnly ==
  ASSUME NEW s, Good(s), NEW w \in Workers, Exists(s, w), WorkerPhase(s, w) \notin Down,
         NEW ready \in BOOLEAN, NEW metrics \in Metrics, NEW acks, NEW late, NEW nacks, NEW report
  PROVE  LET t == HeartbeatTx(s, w, ready, metrics, acks, late, nacks, report) IN
         /\ \A v \in Workers \ {w} : t.workers[v] = s.workers[v]
         /\ t.workers[w].state \in Counted /\ s.workers[w].state \in Counted
<1> DEFINE observed == Observe(s, w, ready, metrics)
           answered == Acknowledge(observed, w, acks, late, nacks)
           t == ReportRooms(answered, w, report)
<1>0. s.workers[w] \in Worker /\ s.workers[w].state \in Counted
  BY DEF Good, State, Worker, Exists, Down, Counted
<1>1. /\ Good(observed) /\ \A v \in Workers \ {w} : observed.workers[v] = s.workers[v]
      /\ observed.workers[w].state \in Counted
  <2> DEFINE p == s.workers[w]
             serving == p.host /\ ready /\ p.state \notin Unmoved
             phase == IF ~serving THEN p.state ELSE IF p.draining THEN "draining" ELSE "ready"
             r == [p EXCEPT !.heartbeat = "fresh", !.ready = ready, !.metrics = metrics,
                            !.state = phase]
  <2>1. observed = [s EXCEPT !.workers[w] = r]
    BY DEF Observe
  <2>2. phase \in Counted
    BY <1>0 DEF Counted, WorkerPhases
  <2>3. r.state = phase
    <3> HIDE DEF phase
    <3>1. QED BY <1>0 DEF Worker
  <2> HIDE DEF r
  <2>4. observed.workers[w] = r /\ \A v \in Workers \ {w} : observed.workers[v] = s.workers[v]
    BY <2>1 DEF Good, State
  <2>5. Good(observed)
    BY ObserveGood
  <2>6. QED BY <2>2, <2>3, <2>4, <2>5
<1> HIDE DEF observed
<1>2. /\ Good(answered) /\ \A v \in Workers \ {w} : answered.workers[v] = observed.workers[v]
      /\ answered.workers[w].state = observed.workers[w].state
  <2>1. Good(answered) /\ SameFleet(observed, answered)
    BY <1>1, AcknowledgeGood
  <2>2. PICK opened, done, prepared, assigned, freed, released :
          AckChain(observed, w, acks, late, nacks, opened, done, prepared, assigned, freed, released)
    BY <1>1, AcknowledgeSteps
  <2>3. \A v \in Workers \ {w} : done.workers[v] = observed.workers[v]
    <3> DEFINE ack == observed.workers[w].drainAck \/ DrainCommand(w) \in acks
               K == observed.commands \ (acks \cup nacks)
               r == [observed.workers[w] EXCEPT !.drainAck = ack]
    <3>1. done = [observed EXCEPT !.commands = K, !.workers[w] = r]
      BY <2>2 DEF AckChain
    <3> HIDE DEF K, r
    <3>2. QED BY <1>1, <3>1 DEF Good, State
  <2>4. Good(done) /\ Good(prepared) /\ Good(assigned) /\ Good(freed) /\ Good(released)
    BY <2>2 DEF AckChain
  <2>5. prepared.workers = done.workers
    BY <2>2, <2>4 DEF AckChain, Leave, Good, State
  <2>6. assigned.workers = prepared.workers
    BY <2>2, <2>4 DEF AckChain, Reserve, Good, State
  <2>7. freed.workers = assigned.workers /\ released.workers = freed.workers
    BY <2>2, <2>4 DEF AckChain, Finish, Leave, Good, State
  <2>8. answered.workers = released.workers
    <3> DEFINE failing == RefusedRooms(observed, w, acks, late)
                            \cup RoomsOf(observed, nacks, "prepare_room", "preparing")
    <3>1. failing \in SUBSET Allocs /\ "other" \in Reasons
      BY DEF RefusedRooms, RoomsOf, Reasons
    <3>2. answered = Cancel(released, failing, "other")
      BY <2>2 DEF AckChain
    <3> HIDE DEF failing, answered
    <3>3. QED BY <2>4, <3>1, <3>2, CancelMoves
  <2>9. QED BY <2>1, <2>3, <2>5, <2>6, <2>7, <2>8 DEF SameFleet
<1> HIDE DEF answered
<1>3. /\ \A v \in Workers \ {w} : t.workers[v] = answered.workers[v]
      /\ t.workers[w].state = answered.workers[w].state
  <2>1. SameFleet(answered, t)
    BY <1>2, ReportRoomsGood
  <2>2. PICK seen, over : ReportChain(answered, w, report, seen, over)
    BY <1>2, ReportSteps
  <2>3. \A v \in Workers \ {w} : seen.workers[v] = answered.workers[v]
    BY <1>2, <2>2 DEF ReportChain, Good, State
  <2>4. t.workers = seen.workers
    BY <2>2 DEF ReportChain, Finish, Leave, Good, State
  <2>5. QED BY <2>1, <2>3, <2>4 DEF SameFleet
<1>4. t = HeartbeatTx(s, w, ready, metrics, acks, late, nacks, report)
  BY DEF HeartbeatTx, t, answered, observed
<1> HIDE DEF t
<1>5. QED BY <1>0, <1>1, <1>2, <1>3, <1>4

LEMMA AgentFates ==
  ASSUME IInv, Tidy(store), Agent \/ Time
  PROVE  Fates(store, store')
<1>0. Good(store) /\ \A w \in Workers : store.workers[w] \in Worker
  BY IInvUse DEF Good, State
<1>1. ASSUME NEW w \in Workers, Bootstrap(w)
      PROVE  Fates(store, store')
  <2> DEFINE r == [store.workers[w] EXCEPT !.boot = TRUE]
  <2>1. r.state = store.workers[w].state /\ r.provider = store.workers[w].provider
        /\ r.heartbeat = store.workers[w].heartbeat
    BY <1>0 DEF Worker
  <2>2. store' = [store EXCEPT !.workers[w] = r]
    BY <1>1 DEF Bootstrap, Commit
  <2> HIDE DEF r
  <2>3. QED BY <1>0, <2>1, <2>2, KeptFates
<1>2. ASSUME NEW w \in Workers, Heartbeat(w)
      PROVE  Fates(store, store')
  <2>1. PICK ready \in BOOLEAN, metrics \in Readings, acks \in SUBSET Pending(store, w),
             report \in Reports(store, w) :
          \E late \in SUBSET acks, nacks \in SUBSET Pending(store, w) :
            Commit(HeartbeatTx(store, w, ready, metrics, acks, late, nacks, report))
    BY <1>2 DEF Heartbeat
  <2>2. PICK late \in SUBSET acks, nacks \in SUBSET Pending(store, w) :
          store' = HeartbeatTx(store, w, ready, metrics, acks, late, nacks, report)
    BY <2>1 DEF Commit
  <2>3. /\ metrics \in Metrics /\ WorkerPhase(store, w) \notin Down /\ store.workers[w].boot
        /\ Spoke(w)
    BY <1>2, InputsAssumption DEF Heartbeat
  <2>4. Exists(store, w)
    BY <2>3 DEF Exists, Tidy
  <2>5. /\ \A v \in Workers \ {w} : store'.workers[v] = store.workers[v]
        /\ store'.workers[w].state \in Counted /\ store.workers[w].state \in Counted
    BY <1>0, <2>2, <2>3, <2>4, HeartbeatOnly
  <2>6. Alive(store.workers[w]) /\ Alive(store'.workers[w])
    BY <2>5, CountedAlive
  <2>7. QED BY <2>3, <2>5, <2>6, OnlyFates
<1>3. ASSUME NEW w \in Workers, HeartbeatAges(w)
      PROVE  Fates(store, store')
  <2> DEFINE age == IF store.workers[w].heartbeat = "fresh" THEN "stale" ELSE "gone"
             r == [store.workers[w] EXCEPT !.heartbeat = age]
  <2>1. r.state = store.workers[w].state /\ r.provider = store.workers[w].provider
    BY <1>0 DEF Worker
  <2>2. store' = [store EXCEPT !.workers[w] = r] /\ store.workers[w].heartbeat # "never"
    BY <1>3 DEF HeartbeatAges, Commit
  <2> HIDE DEF r
  <2>3. QED BY <1>0, <2>1, <2>2, KeptFates
<1>4. ASSUME NEW w \in Workers, LifetimeEnds(w)
      PROVE  Fates(store, store')
  <2> DEFINE r == [store.workers[w] EXCEPT !.ending = TRUE]
  <2>1. r.state = store.workers[w].state /\ r.provider = store.workers[w].provider
        /\ r.heartbeat = store.workers[w].heartbeat
    BY <1>0 DEF Worker
  <2>2. store' = [store EXCEPT !.workers[w] = r]
    BY <1>4 DEF LifetimeEnds, Commit
  <2> HIDE DEF r
  <2>3. QED BY <1>0, <2>1, <2>2, KeptFates
<1>5. QED BY <1>1, <1>2, <1>3, <1>4 DEF Agent, Time

\* What a process records of a provider call.
LEMMA ControllerFates ==
  ASSUME IInv, NEW c \in Controllers, Honest(c),
         \/ TickTx(c) \/ Pick(c) \/ PickNone(c) \/ Refused(c) \/ Crash(c)
         \/ StartBegin(c) \/ Post(c) \/ PostUnknown(c) \/ PostCreated(c) \/ PostRejected(c)
         \/ StartEnd(c) \/ ListCall(c) \/ ReconcileEnd(c) \/ GetCall(c) \/ PollEnd(c)
         \/ StopCheck(c) \/ StopBusy(c) \/ DeleteCall(c) \/ ConfirmCall(c) \/ StopEnd(c)
  PROVE  Fates(store, store')
<1> DEFINE w == ctl[c].worker
           reply == ctl[c].reply
<1>0. /\ Good(store) /\ Formed(ctl[c]) /\ (Leads(c) => Fits(store, ctl[c]))
      /\ reply \in Reply
  BY IInvUse DEF IInv, TypeOK, Control
<1>1. CASE store' = store
  BY <1>1, SteadyReflexive, SteadyFates
<1>2. CASE StartBegin(c)
  <2>1. /\ WorkerPhase(store, w) = "requested" /\ store' = SetPhase(store, {w}, "starting")
    BY <1>2 DEF StartBegin
  <2>2. "requested" \in Counted \ {"starting", "unknown"} /\ "starting" \in Counted
    BY DEF Counted, WorkerPhases
  <2>3. WorkersSteady(store, store')
    BY <1>0, <2>1, <2>2, SetPhaseSteady
  <2>4. QED BY <2>3, SteadyFates
<1>3. CASE StartEnd(c) /\ Leads(c)
  <2>1. At(c, "posted") /\ store' = Created(store, w, reply)
    BY <1>3 DEF StartEnd
  <2>2. w \in Workers /\ WorkerPhase(store, w) = "starting" /\ reply.status \in PostAnswers
    BY <1>0, <1>3, <2>1 DEF At, Formed, Fits
  <2>3. /\ Only(store, store', w)
        /\ store'.workers[w].state \in {"unknown", "failed", "launching", "stopping"}
        /\ store'.workers[w].state = "failed" => reply.status \in {"rejected", "misconfigured"}
    <3> HIDE DEF w, reply
    <3>1. QED BY <1>0, <2>1, <2>2, OnlyCreated
  <2>4. Alive(store.workers[w])
    BY <2>2 DEF Alive
  <2>5. cloud[w] \in Billable => Alive(store'.workers[w])
    BY <2>1, <2>3 DEF At, Honest, Alive
  <2>6. ctl[c].pc = "posted" /\ ctl[c].worker = w
    BY <2>1 DEF At
  <2> HIDE DEF w, reply
  <2>7. QED BY <2>2, <2>3, <2>4, <2>5, <2>6, OnlyFates DEF Only
<1>4. CASE ReconcileEnd(c) /\ store' # store
  <2>1. /\ At(c, "listed") /\ WorkerPhase(store, w) = "unknown" /\ store' = Adopt(store, w)
        /\ reply.status = "found"
    BY <1>4 DEF ReconcileEnd
  <2>2. w \in Workers /\ Spoke(w)
    BY <1>0, <2>1 DEF At, Formed, Honest
  <2>3. Only(store, store', w) /\ store'.workers[w].state = "launching"
    BY <1>0, <2>1, <2>2, OnlyLaunched
  <2>4. Alive(store.workers[w]) /\ Alive(store'.workers[w])
    BY <2>1, <2>3 DEF Alive
  <2> HIDE DEF w, reply
  <2>5. QED BY <2>2, <2>3, <2>4, OnlyFates DEF Only
<1>5. CASE PollEnd(c) /\ Leads(c)
  <2>1. PICK overdue \in BOOLEAN : At(c, "got") /\ store' = Poll(store, w, reply, overdue)
    BY <1>5 DEF PollEnd
  <2>2. w \in Workers /\ WorkerPhase(store, w) \in Polled /\ reply.status \in PollAnswers
        /\ reply.short \in BOOLEAN
    BY <1>0, <1>5, <2>1 DEF At, Formed, Fits, Reply
  <2>3. /\ Only(store, store', w)
        /\ store'.workers[w].state \in Polled \cup {"stopping", "stopped"}
        /\ store'.workers[w].state = "stopped" => reply.status \in {"stopped", "missing"}
    <3> HIDE DEF w, reply
    <3>1. QED BY <1>0, <2>1, <2>2, OnlyPoll
  <2>4. Alive(store.workers[w]) /\ store.workers[w].state \notin {"starting", "unknown"}
    BY <2>2 DEF Alive, Polled
  <2>5. cloud[w] \in Billable => Alive(store'.workers[w])
    BY <2>1, <2>3 DEF At, Honest, Alive, Polled, Billable
  <2> HIDE DEF w, reply
  <2>6. QED BY <2>2, <2>3, <2>4, <2>5, OnlyFates DEF Only
<1>6. CASE StopEnd(c) /\ store' # store
  <2>1. /\ At(c, "confirmed") /\ Leads(c) /\ store' = Close(store, {w}, "stopped")
        /\ reply.status \in {"stopped", "missing"}
    BY <1>6 DEF StopEnd, Stopped
  <2>2. w \in Workers /\ WorkerPhase(store, w) = "stopping"
    BY <1>0, <2>1 DEF At, Formed, Fits
  <2>3. Only(store, store', w)
    BY <1>0, <2>1, <2>2, OnlyClose
  <2>4. Alive(store.workers[w]) /\ cloud[w] \notin Billable
    BY <2>1, <2>2 DEF At, Honest, Alive, Billable
  <2> HIDE DEF w, reply
  <2>5. QED BY <2>2, <2>3, <2>4, OnlyFates DEF Only
<1>7. CASE TickTx(c)
  BY <1>0, <1>7, TickStays, StayFates
<1>8. store' = store \/ StartBegin(c) \/ (StartEnd(c) /\ Leads(c)) \/ ReconcileEnd(c)
      \/ (PollEnd(c) /\ Leads(c)) \/ StopEnd(c) \/ TickTx(c)
  BY DEF Pick, PickNone, Refused, Crash, Post, PostUnknown, PostCreated, PostRejected, StartEnd,
     ListCall, GetCall, PollEnd, StopCheck, StopBusy, DeleteCall, ConfirmCall
<1>9. QED BY <1>1, <1>2, <1>3, <1>4, <1>5, <1>6, <1>7, <1>8

LEMMA StepFates ==
  ASSUME LaunchInv, [Next]_vars
  PROVE  Fates(store, store')
<1>0. IInv /\ Tidy(store) /\ \A c \in Controllers : Honest(c)
  BY DEF LaunchInv, MovesInv
<1>1. CASE Controller
  BY <1>0, <1>1, ControllerFates DEF Controller
<1>2. CASE Provider \/ UNCHANGED vars
  <2>1. store'.workers = store.workers
    BY <1>2 DEF Provider, Land, Run, Halt, Machine, vars
  <2>2. QED BY <2>1, SteadyReflexive, SteadyFates
<1>3. QED BY <1>0, <1>1, <1>2, ClientFates, AgentFates DEF Next

-----------------------------------------------------------------------------
(* What a step does to the machines and to the processes.                  *)

\* A machine comes from a request that is being sent, and goes for good.
MachineStep(w) ==
    \/ cloud'[w] = cloud[w]
    \/ /\ cloud[w] = "none" /\ cloud'[w] = "inflight" /\ store' = store
       /\ \E c \in Controllers : /\ ctl[c].pc = "posting" /\ ctl[c].worker = w
                                 /\ ctl'[c].pc = "awaiting"
    \/ cloud[w] = "inflight" /\ cloud'[w] = "none"
    \/ cloud[w] \in Billable /\ cloud'[w] \in {"launching", "running", "stopped"}
    \/ cloud'[w] = "stopped" /\ WorkerPhase(store, w) \in Ending

\* What a process may know after a step.
Turn(c) ==
    LET k == ctl[c]
        l == ctl'[c]
    IN  \/ l = k
        \/ l.pc \in {"idle", "ticked", "picked", "deleting", "deleted"}
        \/ /\ StartBegin(c) /\ l.pc = "posting" /\ l.worker = k.worker
           /\ \A d \in Controllers \ {c} : ctl'[d] = ctl[d]
        \/ /\ k.pc \in {"posting", "awaiting"} /\ l.pc \in {"awaiting", "posted"}
           /\ l.worker = k.worker
           /\ l.pc = "posted" /\ l.reply.status \in {"rejected", "misconfigured"}
                => cloud'[l.worker] = "none"
        \/ /\ l.pc = "listed" /\ cloud' = cloud
           /\ l.reply.status = "found" => Spoke(l.worker)
        \/ /\ l.pc \in {"got", "confirmed"} /\ cloud' = cloud
           /\ l.reply.status \in {"stopped", "missing"} => cloud[l.worker] = "stopped"

LEMMA MachineSteps ==
  ASSUME LaunchInv, [Next]_vars, NEW w \in Workers
  PROVE  MachineStep(w)
<1>0. TypeOK /\ \A c \in Controllers : Formed(ctl[c]) /\ Sending(c) /\ Deletable(store, ctl[c])
  BY DEF LaunchInv, MovesInv, IInv
<1>1. CASE cloud' = cloud
  BY <1>1 DEF MachineStep
<1>2. ASSUME NEW c \in Controllers, Post(c) PROVE MachineStep(w)
  <2>1. /\ ctl[c].pc = "posting" /\ ctl[c].worker \in Workers /\ store' = store
        /\ cloud' = [cloud EXCEPT ![ctl[c].worker] = "inflight"]
    BY <1>0, <1>2 DEF Post, At, Formed
  <2>2. ctl'[c].pc = "awaiting"
    BY <1>0, <1>2 DEF Post, Goto, TypeOK, Control
  <2>3. cloud[ctl[c].worker] = "none"
    BY <1>0, <2>1 DEF Sending
  <2>4. CASE w = ctl[c].worker
    BY <1>0, <2>1, <2>2, <2>3, <2>4 DEF MachineStep, TypeOK
  <2>5. CASE w # ctl[c].worker
    BY <1>0, <2>1, <2>5 DEF MachineStep, TypeOK
  <2>6. QED BY <2>4, <2>5
<1>3. ASSUME NEW c \in Controllers, PostRejected(c) PROVE MachineStep(w)
  BY <1>0, <1>3 DEF PostRejected, MachineStep, TypeOK
<1>4. ASSUME NEW c \in Controllers, DeleteCall(c) PROVE MachineStep(w)
  <2>1. /\ ctl[c].pc = "deleting" /\ cloud' \in {cloud, [cloud EXCEPT ![ctl[c].worker] = "stopped"]}
    BY <1>4 DEF DeleteCall, At
  <2>2. WorkerPhase(store, ctl[c].worker) \in Ending
    BY <1>0, <2>1 DEF Deletable
  <2>3. QED BY <1>0, <2>1, <2>2 DEF MachineStep, TypeOK
<1>5. CASE Provider
  <2>1. PICK v \in Workers : Land(v) \/ Run(v) \/ Halt(v)
    BY <1>5 DEF Provider
  <2>2. QED BY <1>0, <2>1 DEF Land, Run, Halt, Machine, MachineStep, Billable, TypeOK
<1>6. CASE Controller
  <2>1. PICK c \in Controllers :
          \/ cloud' = cloud \/ Post(c) \/ PostRejected(c) \/ DeleteCall(c)
    BY <1>6 DEF Controller, TickTx, Pick, PickNone, Refused, Crash, StartBegin, PostUnknown,
       PostCreated, StartEnd, ListCall, ReconcileEnd, GetCall, PollEnd, StopCheck, StopBusy,
       ConfirmCall, StopEnd
  <2>2. QED BY <1>1, <1>2, <1>3, <1>4, <2>1
<1>7. CASE Client \/ Agent \/ Time \/ UNCHANGED vars
  <2>1. cloud' = cloud
    BY <1>7 DEF Client, Allocate, CancelByPlayer, Create, CreateWithUsers, Join, PostPlayers,
       Delete, Drain, RetryCreation, Agent, Bootstrap, Heartbeat, Time, HeartbeatAges,
       LifetimeEnds, Commit, vars
  <2>2. QED BY <1>1, <2>1
<1>8. QED BY <1>5, <1>6, <1>7 DEF Next

LEMMA Turns ==
  ASSUME TypeOK, \A d \in Controllers : Formed(ctl[d]), [Next]_vars, NEW c \in Controllers
  PROVE  Turn(c)
<1> DEFINE Waits(pc) == pc \in {"idle", "ticked", "picked", "deleting", "deleted"}
<1>1. CASE ctl' = ctl
  BY <1>1 DEF Turn
<1>2. ASSUME NEW d \in Controllers, d # c, \A e \in Controllers \ {d} : ctl'[e] = ctl[e]
      PROVE  Turn(c)
  BY <1>2 DEF Turn
<1>3. ASSUME NEW d \in Controllers, NEW pc \in Steps, Waits(pc), Goto(d, pc)
      PROVE  Turn(c)
  <2>1. Moved(d) /\ ctl'[d] = [ctl[d] EXCEPT !.pc = pc]
    BY <1>3, GotoMoves
  <2>2. ctl'[d].pc = pc
    BY <2>1 DEF TypeOK, Control
  <2>3. QED BY <1>2, <1>3, <2>1, <2>2 DEF Moved, Turn
<1>4. ASSUME NEW d \in Controllers, Return(d)
      PROVE  Turn(c)
  <2>1. Moved(d) /\ ctl'[d].pc = "idle"
    BY <1>4, ReturnMoves DEF Idle
  <2>2. QED BY <1>2, <2>1 DEF Moved, Turn
<1>5. ASSUME NEW d \in Controllers, NEW pc \in Steps, NEW status \in Statuses, NEW short \in BOOLEAN,
             Hear(d, pc, status, short)
      PROVE  /\ \A e \in Controllers \ {d} : ctl'[e] = ctl[e]
             /\ ctl'[d].pc = pc /\ ctl'[d].worker = ctl[d].worker /\ ctl'[d].reply.status = status
  BY <1>5, HearMoves DEF Moved
<1>6. ASSUME NEW d \in Controllers, Pick(d)
      PROVE  Turn(c)
  <2>1. ctl'[d].pc = "picked" /\ \A e \in Controllers \ {d} : ctl'[e] = ctl[e]
    BY <1>6 DEF Pick, TypeOK, Control
  <2>2. QED BY <1>2, <2>1 DEF Turn
<1>7. ASSUME NEW d \in Controllers, StartBegin(d)
      PROVE  Turn(c)
  <2>1. Moved(d) /\ ctl'[d] = [ctl[d] EXCEPT !.pc = "posting"]
    BY <1>7, GotoMoves DEF StartBegin, Steps
  <2>2. ctl'[d].pc = "posting" /\ ctl'[d].worker = ctl[d].worker
    BY <2>1 DEF TypeOK, Control
  <2>3. QED BY <1>2, <1>7, <2>1, <2>2 DEF Moved, Turn
<1>8. ASSUME NEW d \in Controllers, Post(d)
      PROVE  Turn(c)
  <2>1. Moved(d) /\ ctl'[d] = [ctl[d] EXCEPT !.pc = "awaiting"] /\ ctl[d].pc = "posting"
    BY <1>8, GotoMoves DEF Post, At, Steps
  <2>2. ctl'[d].pc = "awaiting" /\ ctl'[d].worker = ctl[d].worker
    BY <2>1 DEF TypeOK, Control
  <2>3. QED BY <1>2, <2>1, <2>2 DEF Moved, Turn
<1>9. ASSUME NEW d \in Controllers, PostUnknown(d) \/ PostCreated(d)
      PROVE  Turn(c)
  <2>1. PICK status \in {"unknown", "created"}, short \in BOOLEAN : Hear(d, "posted", status, short)
    BY <1>9, InputsAssumption DEF PostUnknown, PostCreated
  <2>2. ctl[d].pc = "awaiting"
    BY <1>9 DEF PostUnknown, PostCreated, At
  <2>3. /\ \A e \in Controllers \ {d} : ctl'[e] = ctl[e]
        /\ ctl'[d].pc = "posted" /\ ctl'[d].worker = ctl[d].worker /\ ctl'[d].reply.status = status
    BY <1>5, <2>1 DEF Steps, Statuses
  <2>4. QED BY <1>2, <2>2, <2>3 DEF Turn
<1>10. ASSUME NEW d \in Controllers, PostRejected(d)
       PROVE  Turn(c)
  <2>1. PICK status \in {"rejected", "misconfigured"} : Hear(d, "posted", status, FALSE)
    BY <1>10 DEF PostRejected
  <2>2. /\ ctl[d].pc = "awaiting" /\ cloud[ctl[d].worker] = "inflight"
        /\ cloud' = [cloud EXCEPT ![ctl[d].worker] = "none"]
    BY <1>10 DEF PostRejected, At
  <2>3. ctl[d].worker \in Workers => cloud'[ctl[d].worker] = "none"
    BY <2>2 DEF TypeOK
  <2>4. /\ \A e \in Controllers \ {d} : ctl'[e] = ctl[e]
        /\ ctl'[d].pc = "posted" /\ ctl'[d].worker = ctl[d].worker /\ ctl'[d].reply.status = status
    BY <1>5, <2>1 DEF Steps, Statuses
  <2>5. ctl[d].worker \in Workers
    BY <2>2 DEF Formed
  <2>6. QED BY <1>2, <2>2, <2>3, <2>4, <2>5 DEF Turn
<1>11. ASSUME NEW d \in Controllers, ListCall(d)
       PROVE  Turn(c)
  <2>1. PICK status \in {"error", "absent"} \cup (IF Spoke(ctl[d].worker) THEN {"found"} ELSE {}) :
          Hear(d, "listed", status, FALSE)
    BY <1>11 DEF ListCall
  <2>2. status \in Statuses /\ (status = "found" => Spoke(ctl[d].worker)) /\ cloud' = cloud
    BY <1>11, <2>1 DEF Statuses, ListCall
  <2>3. /\ \A e \in Controllers \ {d} : ctl'[e] = ctl[e]
        /\ ctl'[d].pc = "listed" /\ ctl'[d].worker = ctl[d].worker /\ ctl'[d].reply.status = status
    BY <1>5, <2>1, <2>2 DEF Steps
  <2>4. QED BY <1>2, <2>2, <2>3 DEF Turn
<1>12. ASSUME NEW d \in Controllers, NEW pc \in {"got", "confirmed"}, Get(d, pc), cloud' = cloud
       PROVE  Turn(c)
  <2>1. PICK status \in Answers(ctl[d].worker) \cup Misfortunes :
          \E short \in IF status \in {"error", "missing", "foreign"} THEN {FALSE} ELSE Terms :
             Hear(d, pc, status, short)
    BY <1>12 DEF Get
  <2>2. PICK short \in BOOLEAN : Hear(d, pc, status, short)
    BY <2>1, InputsAssumption
  <2>3. status \in Statuses /\ (status \in {"stopped", "missing"} => cloud[ctl[d].worker] = "stopped")
    BY <2>1 DEF Answers, Misfortunes, Statuses
  <2>4. /\ \A e \in Controllers \ {d} : ctl'[e] = ctl[e]
        /\ ctl'[d].pc = pc /\ ctl'[d].worker = ctl[d].worker /\ ctl'[d].reply.status = status
    BY <1>5, <2>2, <2>3 DEF Steps
  <2>5. QED BY <1>2, <1>12, <2>3, <2>4 DEF Turn
<1>13. CASE Controller
  <2>1. PICK d \in Controllers :
          \/ TickTx(d) \/ Pick(d) \/ PickNone(d) \/ Refused(d) \/ Crash(d)
          \/ StartBegin(d) \/ Post(d) \/ PostUnknown(d) \/ PostCreated(d) \/ PostRejected(d)
          \/ StartEnd(d)
          \/ ListCall(d) \/ ReconcileEnd(d)
          \/ GetCall(d) \/ PollEnd(d)
          \/ StopCheck(d) \/ StopBusy(d) \/ DeleteCall(d) \/ ConfirmCall(d) \/ StopEnd(d)
    BY <1>13 DEF Controller
  <2>2. CASE TickTx(d) \/ StopCheck(d)
    BY <1>3, <2>2 DEF TickTx, StopCheck, Steps
  <2>3. CASE PickNone(d) \/ Refused(d) \/ Crash(d) \/ StartEnd(d) \/ ReconcileEnd(d) \/ PollEnd(d)
             \/ StopBusy(d) \/ StopEnd(d)
    BY <1>4, <2>3 DEF PickNone, Refused, Crash, StartEnd, ReconcileEnd, PollEnd, StopBusy, StopEnd
  <2>4. CASE DeleteCall(d)
    BY <1>3, <1>4, <2>4 DEF DeleteCall, Steps
  <2>5. CASE GetCall(d) \/ ConfirmCall(d)
    BY <1>12, <2>5 DEF GetCall, ConfirmCall
  <2>6. QED BY <1>6, <1>7, <1>8, <1>9, <1>10, <1>11, <2>1, <2>2, <2>3, <2>4, <2>5
<1>14. CASE Client \/ Agent \/ Time
  <2>1. ctl' = ctl
    BY <1>14 DEF Client, Allocate, CancelByPlayer, Create, CreateWithUsers, Join, PostPlayers,
       Delete, Drain, RetryCreation, Agent, Bootstrap, Heartbeat, Time, HeartbeatAges,
       LifetimeEnds, Commit
  <2>2. QED BY <1>1, <2>1
<1>15. CASE Provider \/ UNCHANGED vars
  BY <1>1, <1>15 DEF Provider, Land, Run, Halt, Machine, vars
<1>16. QED BY <1>13, <1>14, <1>15 DEF Next

-----------------------------------------------------------------------------
(* Every step keeps the invariant.                                         *)

LEMMA LaunchUse ==
  ASSUME LaunchInv
  PROVE  /\ IInv /\ TypeOK /\ Tidy(store) /\ cloud \in [Workers -> Machines]
         /\ \A w \in Workers : Unasked(w) /\ Unheard(w) /\ Paid(w)
         /\ \A c \in Controllers : Sending(c) /\ Honest(c) /\ Formed(ctl[c])
  BY DEF LaunchInv, MovesInv, IInv, TypeOK

\* A machine that begins to cost money does so at the request that is sent.
LEMMA NewMachine ==
  ASSUME LaunchInv, [Next]_vars, NEW w \in Workers, cloud[w] \notin Billable, cloud'[w] \in Billable
  PROVE  /\ store' = store /\ cloud[w] = "none"
         /\ \E c \in Controllers : ctl[c].pc = "posting" /\ ctl[c].worker = w
                                   /\ ctl'[c].pc = "awaiting"
<1>1. MachineStep(w)
  BY MachineSteps
<1>2. QED BY <1>1 DEF MachineStep, Billable

\* A machine that spoke stays, and so does one that stopped.
LEMMA OldMachine ==
  ASSUME LaunchInv, [Next]_vars, NEW w \in Workers
  PROVE  /\ Spoke(w) => cloud'[w] \in {"launching", "running", "stopped"}
         /\ cloud[w] = "stopped" => cloud'[w] = "stopped"
<1>1. MachineStep(w)
  BY MachineSteps
<1>2. QED BY <1>1 DEF MachineStep, Billable, Spoke

\* No request of w comes under way but by the first step of start.
LEMMA Asks ==
  ASSUME LaunchInv, [Next]_vars, NEW w \in Workers, NEW c \in Controllers, Asking(ctl'[c], w)
  PROVE  \/ Asking(ctl[c], w)
         \/ /\ StartBegin(c) /\ WorkerPhase(store, w) = "requested"
            /\ WorkerPhase(store', w) = "starting"
<1>0. Good(store)
  BY LaunchUse, IInvUse
<1>1. Turn(c)
  BY LaunchUse, Turns
<1>2. CASE StartBegin(c) /\ ctl'[c].worker = ctl[c].worker
  <2>1. WorkerPhase(store, w) = "requested" /\ store' = SetPhase(store, {w}, "starting")
    BY <1>2 DEF StartBegin, Asking
  <2>2. QED BY <1>0, <1>2, <2>1, OnlySetPhase
<1>3. CASE ~(StartBegin(c) /\ ctl'[c].worker = ctl[c].worker)
  BY <1>1, <1>3 DEF Turn, Asking
<1>4. QED BY <1>2, <1>3

LEMMA UnaskedStep ==
  ASSUME LaunchInv, [Next]_vars, NEW w \in Workers,
         WorkerPhase(store', w) \in {"absent", "requested"}
  PROVE  cloud'[w] = "none" /\ \A c \in Controllers : ~Asking(ctl'[c], w)
<1>1. WorkerPhase(store, w) \in {"absent", "requested"}
  <2>1. \/ WorkerOnward(store.workers[w], store'.workers[w])
        \/ WorkerStopped(store.workers[w], store'.workers[w])
    BY LaunchUse, StepMoves DEF Moves, Lives, Added, WorkersOnward
  <2>2. QED BY <2>1 DEF WorkerOnward, WorkerStopped
<1>2. cloud[w] = "none" /\ \A c \in Controllers : ~Asking(ctl[c], w)
  BY <1>1, LaunchUse DEF Unasked
<1>3. cloud'[w] = "none"
  <2>1. MachineStep(w)
    BY MachineSteps
  <2>2. \A c \in Controllers : ~(ctl[c].pc = "posting" /\ ctl[c].worker = w)
    BY <1>2 DEF Asking
  <2>3. QED BY <1>1, <1>2, <2>1, <2>2 DEF MachineStep, Billable, Ending
<1>4. QED BY <1>2, <1>3, Asks

LEMMA UnheardStep ==
  ASSUME LaunchInv, [Next]_vars, NEW w \in Workers,
         cloud'[w] \notin {"launching", "running", "stopped"}
  PROVE  store'.workers[w].heartbeat = "never"
<1>1. ~Spoke(w)
  BY OldMachine
<1>2. store.workers[w].heartbeat = "never"
  BY <1>1, LaunchUse DEF Unheard
<1>3. Fate(store, store', w)
  BY StepFates DEF Fates
<1>4. QED BY <1>1, <1>2, <1>3 DEF Fate

LEMMA PaidStep ==
  ASSUME LaunchInv, [Next]_vars, NEW w \in Workers, cloud'[w] \in Billable
  PROVE  Alive(store'.workers[w])
<1>1. CASE cloud[w] \in Billable
  <2>1. Alive(store.workers[w])
    BY <1>1, LaunchUse DEF Paid
  <2>2. Fate(store, store', w)
    BY StepFates DEF Fates
  <2>3. QED BY <1>1, <2>1, <2>2 DEF Fate
<1>2. CASE cloud[w] \notin Billable
  <2>1. PICK c \in Controllers : store' = store /\ ctl[c].pc = "posting" /\ ctl[c].worker = w
    BY <1>2, NewMachine
  <2>2. WorkerPhase(store, w) \in {"starting", "unknown"}
    BY <2>1, LaunchUse DEF Sending
  <2>3. QED BY <2>1, <2>2 DEF Alive
<1>3. QED BY <1>1, <1>2

LEMMA SendingStep ==
  ASSUME LaunchInv, [Next]_vars, NEW c \in Controllers, ctl'[c].pc = "posting"
  PROVE  /\ cloud'[ctl'[c].worker] = "none"
         /\ WorkerPhase(store', ctl'[c].worker) \in {"starting", "unknown"}
         /\ \A d \in Controllers \ {c} : ~Asking(ctl'[d], ctl'[c].worker)
<1> DEFINE w == ctl[c].worker
<1>1. ctl'[c] = ctl[c] \/ (/\ StartBegin(c) /\ ctl'[c].worker = w
                           /\ \A d \in Controllers \ {c} : ctl'[d] = ctl[d])
  <2>1. Turn(c)
    BY LaunchUse, Turns
  <2>2. QED BY <2>1 DEF Turn
<1>2. CASE ctl'[c] = ctl[c]
  <2>1. /\ w \in Workers /\ cloud[w] = "none"
        /\ WorkerPhase(store, w) \in {"starting", "unknown"}
        /\ \A d \in Controllers \ {c} : ~Asking(ctl[d], w)
    BY <1>2, LaunchUse DEF Sending, Formed
  <2>2. cloud'[w] = "none"
    <3>1. MachineStep(w)
      BY <2>1, MachineSteps
    <3>2. \A d \in Controllers : ctl[d].pc = "posting" /\ ctl[d].worker = w => d = c
      BY <2>1 DEF Asking
    <3>3. QED BY <1>2, <2>1, <3>1, <3>2 DEF MachineStep, Billable, Ending
  <2>3. WorkerPhase(store', w) \in {"starting", "unknown"}
    <3>1. Fate(store, store', w)
      BY <2>1, StepFates DEF Fates
    <3>2. ~Spoke(w)
      BY <2>1 DEF Spoke
    <3>3. store.workers[w].heartbeat = "never"
      BY <2>1, <3>2, LaunchUse DEF Unheard
    <3>4. \A d \in Controllers : ctl[d].pc = "posted" => ctl[d].worker # w
      BY <1>2, <2>1 DEF Asking
    <3>5. QED BY <2>1, <3>1, <3>2, <3>3, <3>4 DEF Fate
  <2>4. \A d \in Controllers \ {c} : ~Asking(ctl'[d], w)
    BY <2>1, Asks
  <2>5. QED BY <1>2, <2>2, <2>3, <2>4
<1>3. CASE StartBegin(c) /\ ctl'[c].worker = w /\ \A d \in Controllers \ {c} : ctl'[d] = ctl[d]
  <2>1. ctl[c].pc = "picked" /\ WorkerPhase(store, w) = "requested" /\ cloud' = cloud
        /\ store' = SetPhase(store, {w}, "starting")
    BY <1>3 DEF StartBegin, Dispatch, At
  <2>2. w \in Workers
    BY <2>1, LaunchUse DEF Formed
  <2>3. cloud[w] = "none" /\ \A d \in Controllers : ~Asking(ctl[d], w)
    BY <2>1, <2>2, LaunchUse DEF Unasked
  <2>4. WorkerPhase(store', w) = "starting"
    <3>1. Good(store)
      BY LaunchUse, IInvUse
    <3> HIDE DEF w
    <3>2. SetPhase(store, {w}, "starting").workers[w].state = "starting"
      BY <2>2, <3>1, OnlySetPhase
    <3>3. QED BY <2>1, <3>2 DEF WorkerPhase
  <2>5. QED BY <1>3, <2>1, <2>3, <2>4
<1>4. QED BY <1>1, <1>2, <1>3

LEMMA HonestStep ==
  ASSUME LaunchInv, [Next]_vars, NEW c \in Controllers
  PROVE  Honest(c)'
<1> DEFINE k == ctl[c]
           l == ctl'[c]
<1>0. Turn(c) /\ Honest(c) /\ Formed(k) /\ TypeOK
  BY LaunchUse, Turns
<1>1. CASE l = k
  <2>1. CASE k.pc \in {"listed", "got", "confirmed"}
    <3>1. k.worker \in Workers
      BY <1>0, <2>1 DEF Formed
    <3>2. /\ Spoke(k.worker) => cloud'[k.worker] \in {"launching", "running", "stopped"}
          /\ cloud[k.worker] = "stopped" => cloud'[k.worker] = "stopped"
      BY <3>1, OldMachine
    <3>3. QED BY <1>0, <1>1, <2>1, <3>2 DEF Honest, Spoke
  <2>2. CASE k.pc = "posted" /\ k.reply.status \in {"rejected", "misconfigured"}
    <3>1. k.worker \in Workers /\ cloud[k.worker] \notin Billable
      BY <1>0, <2>2 DEF Formed, Honest
    <3>2. cloud'[k.worker] \notin Billable
      <4> SUFFICES ASSUME cloud'[k.worker] \in Billable PROVE FALSE
        OBVIOUS
      <4>1. PICK d \in Controllers : ctl[d].pc = "posting" /\ ctl[d].worker = k.worker
        BY <3>1, NewMachine
      <4>2. Sending(d) /\ d # c
        BY <2>2, <4>1, LaunchUse
      <4>3. QED BY <2>2, <4>1, <4>2 DEF Sending, Asking
    <3>3. QED BY <1>1, <2>2, <3>2 DEF Honest
  <2>3. CASE /\ k.pc \notin {"listed", "got", "confirmed"}
             /\ ~(k.pc = "posted" /\ k.reply.status \in {"rejected", "misconfigured"})
    BY <1>1, <2>3 DEF Honest
  <2>4. QED BY <2>1, <2>2, <2>3
<1>2. CASE l # k
  BY <1>0, <1>2 DEF Turn, Honest, Spoke, Billable
<1>3. QED BY <1>1, <1>2

LEMMA InitLaunch == Init => LaunchInv
<1> SUFFICES ASSUME Init PROVE LaunchInv
  OBVIOUS
<1>1. MovesInv
  BY InitMoves
<1>2. \A w \in Workers : store.workers[w] = NoWorker /\ cloud[w] = "none"
  BY DEF Init, New
<1>3. NoWorker.state = "absent" /\ NoWorker.heartbeat = "never"
  BY DEF NoWorker
<1>4. \A c \in Controllers : ctl[c].pc = "idle"
  BY DEF Init, Idle
<1>5. \A w \in Workers : Unasked(w) /\ Unheard(w) /\ Paid(w)
  BY <1>2, <1>3, <1>4 DEF Unasked, Unheard, Paid, Asking, Billable
<1>6. \A c \in Controllers : Sending(c) /\ Honest(c)
  BY <1>4 DEF Sending, Honest
<1>7. LiveCount(store) <= MaxInstances
  <2>1. Live(store) = {}
    BY <1>2, <1>3 DEF Live, Exists
  <2>2. LiveCount(store) = 0
    BY <2>1, FS_EmptySet DEF LiveCount
  <2>3. QED BY <2>2, LimitsAssumption
<1>8. QED BY <1>1, <1>5, <1>6, <1>7 DEF LaunchInv

LEMMA NextLaunch == LaunchInv /\ [Next]_vars => LaunchInv'
<1> SUFFICES ASSUME LaunchInv, [Next]_vars PROVE LaunchInv'
  OBVIOUS
<1>1. MovesInv'
  BY NextMoves DEF LaunchInv
<1>2. \A w \in Workers : Unasked(w)'
  BY UnaskedStep DEF Unasked, Asking
<1>3. \A w \in Workers : Unheard(w)'
  BY UnheardStep DEF Unheard, Spoke
<1>4. \A w \in Workers : Paid(w)'
  BY PaidStep DEF Paid
<1>5. \A c \in Controllers : Sending(c)'
  BY SendingStep DEF Sending, Asking
<1>6. \A c \in Controllers : Honest(c)'
  BY HonestStep
<1>7. (LiveCount(store) <= MaxInstances)'
  <2>1. Budget(store, store') /\ LiveCount(store) <= MaxInstances
    BY StepFates DEF Fates, LaunchInv
  <2>2. QED BY <2>1 DEF Budget
<1>8. QED BY <1>1, <1>2, <1>3, <1>4, <1>5, <1>6, <1>7 DEF LaunchInv

LEMMA LaunchInvariant == Spec => []LaunchInv
<1>1. QED BY InitLaunch, NextLaunch, PTL DEF Spec

\* The create request of a worker is sent at most once, by one process: none is about
\* to be sent while an earlier one may still be acted on, although a process that
\* lost the lease goes on to send the request it recorded.
THEOREM RequestsAreSentOnce == Spec => []StartOnce
<1>1. LaunchInv => StartOnce
  <2> SUFFICES ASSUME LaunchInv, NEW c \in Controllers, At(c, "posting")
               PROVE  /\ cloud[ctl[c].worker] = "none"
                      /\ WorkerPhase(store, ctl[c].worker) \in {"starting", "unknown"}
                      /\ \A d \in Controllers \ {c} :
                            ctl[d].worker = ctl[c].worker
                                => ctl[d].pc \notin {"posting", "awaiting", "posted"}
    BY DEF StartOnce
  <2>1. Sending(c)
    BY DEF LaunchInv
  <2>2. QED BY <2>1 DEF Sending, Asking, At
<1>2. QED BY <1>1, LaunchInvariant, PTL

\* Every machine that costs money, a create request still in flight included, is
\* one of a worker that liveCount counts, and those stay within MaxInstances.
THEOREM MachinesStayWithinTheLimit == Spec => []CostCeiling
<1>1. LaunchInv => CostCeiling
  <2> SUFFICES ASSUME LaunchInv PROVE CostCeiling
    OBVIOUS
  <2>1. \A w \in Workers : cloud[w] \in Billable => w \in Live(store)
    BY LiveFinite DEF LaunchInv, Paid
  <2>2. QED BY <2>1 DEF LaunchInv, CostCeiling
<1>2. QED BY <1>1, LaunchInvariant, PTL

-----------------------------------------------------------------------------
(* The commands of one room and of one worker.                             *)

OrderOf(s, a) ==
    \A w \in Workers :
        /\ PrepareCommand(w, a) \in s.commands
            <=> (Phase(s, a) = "preparing" /\ s.allocations[a].worker = w)
        /\ CancelCommand(w, a) \in s.commands
            <=> (Phase(s, a) = "cancelling" /\ s.allocations[a].worker = w)

\* No command concerns the room.
Muted(s, a) ==
    \A w \in Workers : PrepareCommand(w, a) \notin s.commands /\ CancelCommand(w, a) \notin s.commands

\* The phases of a worker that has begun to drain.
DrainPhases == ServingPhases \cup {"stopping", "lost", "stopped"}

\* The drain of a record, and whether its order is in the outbox.
DrainFits(p, ordered) ==
    /\ ordered <=> (p.draining /\ ~p.drainAck /\ p.state \notin Down)
    /\ p.drainAck => p.draining
    /\ p.draining => p.state \in DrainPhases

DrainOf(s, w) == DrainFits(s.workers[w], DrainCommand(w) \in s.commands)

Ordered(s) == /\ \A a \in Allocs : OrderOf(s, a)
              /\ \A w \in Workers : DrainOf(s, w)

\* A worker whose drain and its order stay as they are.
DrainKept(p, q) ==
    /\ q.draining = p.draining /\ q.drainAck = p.drainAck
    /\ \/ q.state = p.state
       \/ p.draining => (q.state \in DrainPhases /\ (q.state \in Down <=> p.state \in Down))

LEMMA CommandFields ==
  ASSUME NEW w, NEW a
  PROVE  /\ PrepareCommand(w, a).type = "prepare_room" /\ PrepareCommand(w, a).alloc = a
         /\ PrepareCommand(w, a).worker = w
         /\ CancelCommand(w, a).type = "cancel_room" /\ CancelCommand(w, a).alloc = a
         /\ CancelCommand(w, a).worker = w
         /\ DrainCommand(w).type = "drain" /\ DrainCommand(w).worker = w
BY DEF PrepareCommand, CancelCommand, DrainCommand

\* Which commands are left when those of some workers are taken out.
LEMMA CommandsWithout ==
  ASSUME NEW K, NEW D, NEW R, R = {k \in K : k.worker \notin D}, NEW w
  PROVE  /\ DrainCommand(w) \in R <=> (DrainCommand(w) \in K /\ w \notin D)
         /\ \A a : /\ PrepareCommand(w, a) \in R <=> (PrepareCommand(w, a) \in K /\ w \notin D)
                  /\ CancelCommand(w, a) \in R <=> (CancelCommand(w, a) \in K /\ w \notin D)
<1>1. \A a : PrepareCommand(w, a).worker = w /\ CancelCommand(w, a).worker = w /\ DrainCommand(w).worker = w
  BY CommandFields
<1>2. QED BY <1>1

\* Drain orders do not concern rooms.
LEMMA CommandsDrained ==
  ASSUME NEW K, NEW D, NEW w, NEW a
  PROVE  LET R == K \cup {DrainCommand(v) : v \in D} IN
         /\ PrepareCommand(w, a) \in R <=> PrepareCommand(w, a) \in K
         /\ CancelCommand(w, a) \in R <=> CancelCommand(w, a) \in K
         /\ DrainCommand(w) \in R <=> (DrainCommand(w) \in K \/ w \in D)
<1> DEFINE R == K \cup {DrainCommand(v) : v \in D}
<1>1. ASSUME NEW v
      PROVE  /\ DrainCommand(v) # PrepareCommand(w, a) /\ DrainCommand(v) # CancelCommand(w, a)
             /\ DrainCommand(v) = DrainCommand(w) => v = w
  <2>1. /\ PrepareCommand(w, a).type = "prepare_room" /\ CancelCommand(w, a).type = "cancel_room"
        /\ DrainCommand(v).type = "drain" /\ DrainCommand(v).worker = v /\ DrainCommand(w).worker = w
    BY CommandFields
  <2>2. QED BY <2>1
<1>2. PrepareCommand(w, a) \in R <=> PrepareCommand(w, a) \in K
  BY <1>1, Zenon
<1>3. CancelCommand(w, a) \in R <=> CancelCommand(w, a) \in K
  BY <1>1, Zenon
<1>4. DrainCommand(w) \in R <=> (DrainCommand(w) \in K \/ w \in D)
  BY <1>1, Zenon
<1>5. QED BY <1>2, <1>3, <1>4

\* A room that is being prepared or cancelled as before, if it is.
RoomKept(p, q) ==
    \A phase \in {"preparing", "cancelling"} :
        /\ q.state = phase <=> p.state = phase
        /\ q.state = phase => q.worker = p.worker

\* A record whose drain is kept fits the order it fitted.
LEMMA DrainKeptFits ==
  ASSUME NEW p, NEW q, NEW ordered, DrainFits(p, ordered), DrainKept(p, q)
  PROVE  DrainFits(q, ordered)
<1>1. q.draining => q.state \in DrainPhases
  BY DEF DrainFits, DrainKept
<1>2. q.drainAck => q.draining
  BY Zenon DEF DrainFits, DrainKept
<1>3. ordered <=> (q.draining /\ ~q.drainAck /\ q.state \notin Down)
  BY Zenon DEF DrainFits, DrainKept
<1>4. QED BY <1>1, <1>2, <1>3 DEF DrainFits

\* A room that is kept agrees with the same commands.
LEMMA RoomKeptOrder ==
  ASSUME NEW s, NEW t, t.commands = s.commands, NEW a \in Allocs,
         RoomKept(s.allocations[a], t.allocations[a]), OrderOf(s, a)
  PROVE  OrderOf(t, a)
<1>1. ASSUME NEW w, NEW phase \in {"preparing", "cancelling"}
      PROVE  (Phase(t, a) = phase /\ t.allocations[a].worker = w)
                <=> (Phase(s, a) = phase /\ s.allocations[a].worker = w)
  BY DEF RoomKept, Phase
<1>2. QED BY <1>1, Zenon DEF OrderOf

\* Bodies that write no commands.
LEMMA RoomsOrdered ==
  ASSUME NEW s, NEW t, Ordered(s), t.commands = s.commands,
         \A a \in Allocs : RoomKept(s.allocations[a], t.allocations[a]),
         \A w \in Workers : DrainKept(s.workers[w], t.workers[w])
  PROVE  Ordered(t)
<1>1. \A a \in Allocs : OrderOf(t, a)
  BY RoomKeptOrder DEF Ordered
<1>2. \A w \in Workers : DrainOf(t, w)
  BY DrainKeptFits DEF Ordered, DrainOf
<1>3. QED BY <1>1, <1>2 DEF Ordered

\* Bodies that write neither rooms nor commands.
LEMMA WorkersOrdered ==
  ASSUME NEW s, NEW t, Ordered(s), t.allocations = s.allocations, t.commands = s.commands,
         \A w \in Workers : DrainKept(s.workers[w], t.workers[w])
  PROVE  Ordered(t)
<1>1. \A a \in Allocs : RoomKept(s.allocations[a], t.allocations[a])
  BY DEF RoomKept
<1>2. QED BY <1>1, RoomsOrdered

LEMMA OneWorkerOrdered ==
  ASSUME NEW s, Good(s), Ordered(s), NEW w \in Workers, NEW r, DrainKept(s.workers[w], r)
  PROVE  Ordered([s EXCEPT !.workers[w] = r])
<1> DEFINE t == [s EXCEPT !.workers[w] = r]
<1>1. t.allocations = s.allocations /\ t.commands = s.commands
      /\ \A v \in Workers : t.workers[v] = IF v = w THEN r ELSE s.workers[v]
  BY DEF Good, State
<1>2. \A v \in Workers : DrainKept(s.workers[v], s.workers[v])
  BY DEF DrainKept
<1> HIDE DEF t
<1>3. \A v \in Workers : DrainKept(s.workers[v], t.workers[v])
  BY <1>1, <1>2
<1>4. Ordered(t)
  BY <1>1, <1>3, WorkersOrdered
<1>5. QED BY <1>4 DEF t

\* Workers that drain move only between phases in which they drain.
LEMMA SetPhaseOrdered ==
  ASSUME NEW s, Good(s), Ordered(s), NEW D, NEW phase,
         \A w \in D \cap Workers : s.workers[w].draining =>
            phase \in DrainPhases /\ (phase \in Down <=> WorkerPhase(s, w) \in Down)
  PROVE  Ordered(SetPhase(s, D, phase))
<1> DEFINE t == SetPhase(s, D, phase)
<1>1. t.allocations = s.allocations /\ t.commands = s.commands
  BY DEF SetPhase, Good, State
<1>2. ASSUME NEW w \in Workers PROVE DrainKept(s.workers[w], t.workers[w])
  <2>1. t.workers[w] = IF w \in D THEN [s.workers[w] EXCEPT !.state = phase] ELSE s.workers[w]
    BY DEF SetPhase, Good, State
  <2>2. s.workers[w] \in Worker
    BY DEF Good, State
  <2> HIDE DEF t
  <2>3. CASE w \in D
    <3>1. t.workers[w].state = phase /\ t.workers[w].draining = s.workers[w].draining
          /\ t.workers[w].drainAck = s.workers[w].drainAck
      BY <2>1, <2>2, <2>3 DEF Worker
    <3>2. QED BY <2>3, <3>1, Zenon DEF DrainKept, WorkerPhase
  <2>4. CASE w \notin D
    BY <2>1, <2>4 DEF Ordered, DrainOf, DrainFits, DrainKept
  <2>5. QED BY <2>3, <2>4
<1> HIDE DEF t
<1>3. QED BY <1>1, <1>2, WorkersOrdered DEF t

\* A worker that begins to drain gets the order.
LEMMA BeginDrainOrdered ==
  ASSUME NEW s, Good(s), Ordered(s), NEW D \in SUBSET Workers
  PROVE  Ordered(BeginDrain(s, D))
<1> DEFINE t == BeginDrain(s, D)
           new == {w \in D : ~s.workers[w].draining}
<1>1. t.allocations = s.allocations /\ t.commands = s.commands \cup {DrainCommand(w) : w \in new}
  BY DEF BeginDrain, Good, State
<1>2. \A a \in Allocs : OrderOf(t, a)
  <2> HIDE DEF t
  <2>1. ASSUME NEW a \in Allocs, NEW w \in Workers
        PROVE  /\ PrepareCommand(w, a) \in t.commands <=> PrepareCommand(w, a) \in s.commands
               /\ CancelCommand(w, a) \in t.commands <=> CancelCommand(w, a) \in s.commands
    <3> HIDE DEF new
    <3>1. QED BY <1>1, CommandsDrained
  <2>2. ASSUME NEW a \in Allocs PROVE OrderOf(t, a)
    <3>1. OrderOf(s, a)
      BY DEF Ordered
    <3>2. QED BY <1>1, <2>1, <3>1, Zenon DEF OrderOf, Phase
  <2>3. QED BY <2>2
<1>3. ASSUME NEW w \in Workers PROVE DrainOf(t, w)
  <2>1. t.workers[w] = IF w \in new
                       THEN [s.workers[w] EXCEPT !.draining = TRUE, !.state = "draining"]
                       ELSE s.workers[w]
    BY DEF BeginDrain, Good, State
  <2>2. s.workers[w] \in Worker /\ DrainFits(s.workers[w], DrainCommand(w) \in s.commands)
    BY DEF Good, State, Ordered, DrainOf
  <2>3. DrainCommand(w) \in t.commands <=> (DrainCommand(w) \in s.commands \/ w \in new)
    <3> HIDE DEF t, new
    <3>1. QED BY <1>1, CommandsDrained
  <2>4. CASE w \in new
    <3>1. ~s.workers[w].drainAck
      BY <2>2, <2>4 DEF DrainFits
    <3> HIDE DEF t
    <3>2. t.workers[w].state = "draining" /\ t.workers[w].draining = TRUE
          /\ t.workers[w].drainAck = s.workers[w].drainAck
      BY <2>1, <2>2, <2>4 DEF Worker
    <3>3. QED BY <2>3, <2>4, <3>1, <3>2 DEF DrainOf, DrainFits, DrainPhases, ServingPhases, Down
  <2>5. CASE w \notin new
    <3> HIDE DEF t, new
    <3>1. QED BY <2>1, <2>2, <2>3, <2>5 DEF DrainOf, DrainFits
  <2>6. QED BY <2>4, <2>5
<1> HIDE DEF t
<1>4. QED BY <1>2, <1>3 DEF Ordered, t

\* A worker that is given up has no orders, and none of its rooms is left.
LEMMA CloseOrdered ==
  ASSUME NEW s, Good(s), Ordered(s), NEW D \in SUBSET Workers, NEW phase \in {"stopped", "lost"}
  PROVE  Ordered(Close(s, D, phase))
<1> DEFINE t == Close(s, D, phase)
           failing == {a \in Allocs : InProgress(s, a) /\ s.allocations[a].worker \in D}
<1>1. /\ t.commands = {k \in s.commands : k.worker \notin D}
      /\ \A a \in Allocs : t.allocations[a] =
            IF a \in failing THEN [s.allocations[a] EXCEPT !.state = "failed", !.reason = "none",
                                                           !.sessions = NoSessions]
                             ELSE s.allocations[a]
  BY DEF Close, Finish, Leave, Good, State
<1>c. t.commands = {k \in s.commands : k.worker \notin D}
  BY <1>1
<1>2. ASSUME NEW a \in Allocs PROVE OrderOf(t, a)
  <2>1. s.allocations[a] \in Allocation /\ OrderOf(s, a)
    BY DEF Good, State, Ordered
  <2> HIDE DEF t
  <2>2. CASE a \in failing
    <3>1. t.allocations[a].state = "failed"
      BY <1>1, <2>1, <2>2 DEF Allocation
    <3>2. \A w \in Workers : w \notin D => s.allocations[a].worker # w
      BY <2>2
    <3>3. ASSUME NEW w \in Workers
          PROVE  PrepareCommand(w, a) \notin t.commands /\ CancelCommand(w, a) \notin t.commands
      <4>1. /\ PrepareCommand(w, a) \in t.commands => (PrepareCommand(w, a) \in s.commands /\ w \notin D)
            /\ CancelCommand(w, a) \in t.commands => (CancelCommand(w, a) \in s.commands /\ w \notin D)
        BY <1>c, CommandFields
      <4>2. QED BY <2>1, <3>2, <4>1, Zenon DEF OrderOf
    <3>4. QED BY <3>1, <3>3 DEF OrderOf, Phase
  <2>3. CASE a \notin failing
    <3>1. t.allocations[a] = s.allocations[a]
      BY <1>1, <2>3
    <3>2. \A w \in Workers : w \in D => ~(InProgress(s, a) /\ s.allocations[a].worker = w)
      BY <2>3
    <3> HIDE DEF failing
    <3>3. ASSUME NEW w \in Workers
          PROVE  /\ PrepareCommand(w, a) \in t.commands <=> PrepareCommand(w, a) \in s.commands
                 /\ CancelCommand(w, a) \in t.commands <=> CancelCommand(w, a) \in s.commands
      <4>1. /\ PrepareCommand(w, a) \in t.commands <=> (PrepareCommand(w, a) \in s.commands /\ w \notin D)
            /\ CancelCommand(w, a) \in t.commands <=> (CancelCommand(w, a) \in s.commands /\ w \notin D)
        BY <1>c, CommandFields
      <4>2. /\ PrepareCommand(w, a) \in s.commands => (InProgress(s, a) /\ s.allocations[a].worker = w)
            /\ CancelCommand(w, a) \in s.commands => (InProgress(s, a) /\ s.allocations[a].worker = w)
        BY <2>1 DEF OrderOf, Phase, InProgress, InProgressPhases, WaitingPhases
      <4>3. QED BY <3>2, <4>1, <4>2, Zenon
    <3>4. QED BY <2>1, <3>1, <3>3, Zenon DEF OrderOf, Phase
  <2>4. QED BY <2>2, <2>3
<1>3. ASSUME NEW w \in Workers PROVE DrainOf(t, w)
  <2>1. /\ w \in D => /\ t.workers[w].state = phase
                      /\ t.workers[w].draining = s.workers[w].draining
                      /\ t.workers[w].drainAck = s.workers[w].drainAck
        /\ w \notin D => t.workers[w] = s.workers[w]
    BY CloseWorkers DEF Down
  <2>2. DrainCommand(w) \in t.commands <=> (DrainCommand(w) \in s.commands /\ w \notin D)
    BY <1>c, CommandFields
  <2>3. DrainFits(s.workers[w], DrainCommand(w) \in s.commands)
    BY DEF Ordered, DrainOf
  <2> HIDE DEF t
  <2>4. CASE w \in D
    <3>1. t.workers[w].state \in Down /\ t.workers[w].state \in DrainPhases
      BY <2>1, <2>4 DEF Down, DrainPhases
    <3>2. t.workers[w].drainAck => t.workers[w].draining
      BY <2>1, <2>3, <2>4, Zenon DEF DrainFits
    <3>3. QED BY <2>2, <2>4, <3>1, <3>2 DEF DrainOf, DrainFits
  <2>5. CASE w \notin D
    BY <2>1, <2>2, <2>3, <2>5 DEF DrainOf, DrainFits
  <2>6. QED BY <2>4, <2>5
<1> HIDE DEF t
<1>4. QED BY <1>2, <1>3 DEF Ordered, t

\* Bodies on rooms that write neither workers nor commands.
LEMMA OnlyRoomsOrdered ==
  ASSUME NEW s, NEW t, Ordered(s), t.commands = s.commands, t.workers = s.workers,
         \A a \in Allocs : RoomKept(s.allocations[a], t.allocations[a])
  PROVE  Ordered(t)
<1>1. \A w \in Workers : DrainKept(s.workers[w], t.workers[w])
  BY DEF DrainKept
<1>2. QED BY <1>1, RoomsOrdered

\* Reserving, forgetting and creating concern rooms without orders.
LEMMA ReserveOrdered ==
  ASSUME NEW s, Good(s), Ordered(s), NEW D
  PROVE  Ordered(Reserve(s, D))
<1> DEFINE t == Reserve(s, D)
<1>1. t.commands = s.commands /\ t.workers = s.workers
  BY DEF Reserve, Good, State
<1>2. ASSUME NEW a \in Allocs PROVE RoomKept(s.allocations[a], t.allocations[a])
  <2> DEFINE seats == [u \in Users |-> IF u \in s.allocations[a].users THEN "reserved" ELSE "none"]
  <2>1. s.allocations[a] \in Allocation
    BY DEF Good, State
  <2>2. t.allocations[a] = IF a \in D /\ s.allocations[a].state = "prepared"
                           THEN [s.allocations[a] EXCEPT !.state = "assigned", !.sessions = seats]
                           ELSE s.allocations[a]
    BY DEF Reserve, Good, State
  <2> HIDE DEF t, seats
  <2>3. \/ t.allocations[a] = s.allocations[a]
        \/ t.allocations[a].state = "assigned" /\ s.allocations[a].state = "prepared"
    BY <2>1, <2>2 DEF Allocation
  <2>4. QED BY <2>3 DEF RoomKept
<1> HIDE DEF t
<1>3. Ordered(t)
  BY <1>1, <1>2, OnlyRoomsOrdered
<1>4. QED BY <1>3 DEF t

LEMMA PruneAllocationsOrdered ==
  ASSUME NEW s, Good(s), Ordered(s), NEW old \in SUBSET Finished(s)
  PROVE  Ordered(PruneAllocations(s, old))
<1> DEFINE t == PruneAllocations(s, old)
<1>1. t.commands = s.commands /\ t.workers = s.workers
  BY DEF PruneAllocations, Good, State
<1>2. \A a \in Allocs : t.allocations[a] = IF a \in old THEN Forgotten ELSE s.allocations[a]
  BY DEF PruneAllocations, Forgotten, Good, State
<1>3. \A a \in old : s.allocations[a].state \in TerminalPhases
  BY DEF Finished, Terminal
<1> HIDE DEF t
<1>4. \A a \in Allocs : RoomKept(s.allocations[a], t.allocations[a])
  BY <1>2, <1>3, ForgottenFields DEF RoomKept, TerminalPhases
<1>5. Ordered(t)
  BY <1>1, <1>4, OnlyRoomsOrdered
<1>6. QED BY <1>5 DEF t

LEMMA AddAllocationOrdered ==
  ASSUME NEW s, Good(s), Ordered(s), NEW a \in Allocs, Phase(s, a) = "absent",
         NEW users, NEW key, NEW preferred
  PROVE  Ordered(AddAllocation(s, a, users, key, preferred))
<1> DEFINE r == [NoAllocation EXCEPT !.state = "waiting_capacity", !.users = users,
                                     !.key = key, !.preferred = preferred]
           t == AddAllocation(s, a, users, key, preferred)
<1>1. t.commands = s.commands /\ t.workers = s.workers
      /\ \A b \in Allocs : t.allocations[b] = IF b = a THEN r ELSE s.allocations[b]
  BY DEF AddAllocation, Good, State
<1>2. r.state = "waiting_capacity"
  BY DEF NoAllocation
<1> HIDE DEF t, r
<1>3. \A b \in Allocs : RoomKept(s.allocations[b], t.allocations[b])
  BY <1>1, <1>2 DEF RoomKept
<1>4. Ordered(t)
  BY <1>1, <1>3, OnlyRoomsOrdered
<1>5. QED BY <1>4 DEF t

\* Cancelling withdraws the preparation of a bound room and orders its cleanup.
\* A room to be cancelled may have lost its commands already.
LEMMA CancelOrdered ==
  ASSUME NEW s, Good(s), NEW D \in SUBSET Allocs, NEW reason \in Reasons,
         \A w \in Workers : DrainOf(s, w),
         \A a \in Allocs : OrderOf(s, a) \/ (a \in D /\ Muted(s, a) /\ Phase(s, a) = "preparing")
  PROVE  Ordered(Cancel(s, D, reason))
<1> DEFINE going == Cancellable(s, D)
           bound == {a \in going : s.allocations[a].worker # None}
           phase == IF reason = "cancelled" THEN "cancelled" ELSE "expired"
           orders == {CancelCommand(s.allocations[a].worker, a) : a \in bound}
           t == Cancel(s, D, reason)
<1>1. /\ t.workers = s.workers
      /\ t.commands = {k \in s.commands : ~(k.type = "prepare_room" /\ k.alloc \in bound)} \cup orders
  BY DEF Cancel, Finish, Leave, Good, State
<1>2. ASSUME NEW a \in Allocs
      PROVE  /\ t.allocations[a].worker = s.allocations[a].worker
             /\ a \in bound => t.allocations[a].state = "cancelling"
             /\ a \in going \ bound => t.allocations[a].state = phase
             /\ a \notin going => t.allocations[a].state = s.allocations[a].state
  <2> DEFINE one == [s.allocations[a] EXCEPT !.state = phase, !.reason = "none", !.sessions = NoSessions]
             two == [s.allocations[a] EXCEPT !.state = "cancelling", !.reason = reason, !.sessions = NoSessions]
             ended == Finish(s, going \ bound, phase)
  <2>1. s.allocations[a] \in Allocation
    BY DEF Good, State
  <2>2. ended.allocations[a] = IF a \in going \ bound THEN one ELSE s.allocations[a]
    BY DEF Finish, Leave, Good, State
  <2>3. t.allocations[a] = IF a \in bound
                           THEN [ended.allocations[a] EXCEPT !.state = "cancelling",
                                     !.reason = reason, !.sessions = NoSessions]
                           ELSE ended.allocations[a]
    BY DEF Cancel, Leave, Finish, Good, State
  <2> HIDE DEF ended, t, going, bound, phase
  <2>4. t.allocations[a] = IF a \in bound THEN two ELSE IF a \in going \ bound THEN one ELSE s.allocations[a]
    BY <2>2, <2>3
  <2>5. /\ one.worker = s.allocations[a].worker /\ one.state = phase
        /\ two.worker = s.allocations[a].worker /\ two.state = "cancelling"
    BY <2>1 DEF Allocation
  <2>6. bound \subseteq going
    BY DEF bound
  <2> HIDE DEF one, two
  <2>7. QED BY <2>4, <2>5, <2>6
<1>3. phase \in {"cancelled", "expired"}
  OBVIOUS
<1>4. ASSUME NEW a \in Allocs, NEW w \in Workers
      PROVE  /\ CancelCommand(w, a) \in orders <=> (a \in bound /\ w = s.allocations[a].worker)
             /\ PrepareCommand(w, a) \notin orders
  <2> HIDE DEF bound
  <2>1. ASSUME NEW b \in bound
        PROVE  LET k == CancelCommand(s.allocations[b].worker, b) IN
               /\ k.type = "cancel_room" /\ k.alloc = b /\ k.worker = s.allocations[b].worker
    BY CommandFields
  <2>2. /\ CancelCommand(w, a).alloc = a /\ CancelCommand(w, a).worker = w
        /\ PrepareCommand(w, a).type = "prepare_room"
    BY CommandFields
  <2>3. QED BY <2>1, <2>2
<1>5. ASSUME NEW a \in Allocs, NEW w \in Workers
      PROVE  /\ PrepareCommand(w, a) \in t.commands <=> (PrepareCommand(w, a) \in s.commands /\ a \notin bound)
             /\ CancelCommand(w, a) \in t.commands
                  <=> (CancelCommand(w, a) \in s.commands \/ (a \in bound /\ w = s.allocations[a].worker))
  <2>1. /\ PrepareCommand(w, a).type = "prepare_room" /\ PrepareCommand(w, a).alloc = a
        /\ CancelCommand(w, a).type = "cancel_room"
    BY CommandFields
  <2> HIDE DEF bound, orders, t
  <2>2. QED BY <1>1, <1>4, <2>1
<1>6. \A a \in going : InProgress(s, a) /\ Phase(s, a) # "cancelling"
  BY DEF Cancellable
<1>7. \A a \in Allocs : Phase(s, a) = "preparing" /\ a \in D => a \in going
  BY DEF Cancellable, InProgressPhases, WaitingPhases
<1>8. \A a \in going \ bound : s.allocations[a].worker = None
  OBVIOUS
<1> HIDE DEF going, bound, phase, orders, t
<1>9. ASSUME NEW a \in Allocs PROVE OrderOf(t, a)
  <2>1. CASE a \in bound
    <3>1. ASSUME NEW w \in Workers PROVE CancelCommand(w, a) \notin s.commands
      BY <1>6, <2>1 DEF bound, OrderOf, Muted
    <3>2. t.allocations[a].state = "cancelling" /\ t.allocations[a].worker = s.allocations[a].worker
      BY <1>2, <2>1
    <3>3. QED BY <1>5, <2>1, <3>1, <3>2 DEF OrderOf
  <2>2. CASE a \in going \ bound
    <3>1. ASSUME NEW w \in Workers
          PROVE  PrepareCommand(w, a) \notin s.commands /\ CancelCommand(w, a) \notin s.commands
      BY <1>6, <1>8, <2>2, NoneAssumption DEF OrderOf, Muted
    <3>2. t.allocations[a].state \in {"cancelled", "expired"}
      BY <1>2, <1>3, <2>2
    <3>3. ASSUME NEW w \in Workers
          PROVE  PrepareCommand(w, a) \notin t.commands /\ CancelCommand(w, a) \notin t.commands
      BY <1>5, <2>2, <3>1
    <3>4. QED BY <3>2, <3>3 DEF OrderOf
  <2>3. CASE a \notin going
    <3>1. OrderOf(s, a) /\ a \notin bound
      BY <1>7, <2>3 DEF bound
    <3>2. t.allocations[a].state = s.allocations[a].state /\ t.allocations[a].worker = s.allocations[a].worker
      BY <1>2, <2>3
    <3>3. ASSUME NEW w \in Workers
          PROVE  /\ PrepareCommand(w, a) \in t.commands <=> PrepareCommand(w, a) \in s.commands
                 /\ CancelCommand(w, a) \in t.commands <=> CancelCommand(w, a) \in s.commands
      BY <1>5, <3>1
    <3>4. QED BY <3>1, <3>2, <3>3, Zenon DEF OrderOf
  <2>4. QED BY <2>1, <2>2, <2>3
<1>10. ASSUME NEW w \in Workers PROVE DrainOf(t, w)
  <2>1. DrainCommand(w) \in t.commands <=> DrainCommand(w) \in s.commands
    <3>1. /\ t.commands = {k \in s.commands : ~(k.type = "prepare_room" /\ k.alloc \in bound)} \cup orders
          /\ DrainCommand(w).type = "drain"
      BY <1>1, CommandFields
    <3>2. DrainCommand(w) \notin orders
      BY CommandFields DEF orders
    <3>3. QED BY <3>1, <3>2
  <2>2. QED BY <1>1, <2>1 DEF DrainOf, DrainFits
<1>11. Ordered(t)
  BY <1>9, <1>10 DEF Ordered
<1>12. QED BY <1>11 DEF t

\* A worker whose record goes has no rooms, so no order of a room goes with it.
LEMMA PruneWorkersOrdered ==
  ASSUME NEW s, Good(s), Ordered(s), NEW old \in SUBSET Retired(s)
  PROVE  Ordered(PruneWorkers(s, old))
<1> DEFINE t == PruneWorkers(s, old)
           r == [NoWorker EXCEPT !.state = "pruned"]
<1>1. /\ t.allocations = s.allocations
      /\ \A w \in Workers : t.workers[w] = IF w \in old THEN r ELSE s.workers[w]
  BY DEF PruneWorkers, Good, State
<1>2. t.commands = {k \in s.commands : k.worker \notin old}
  BY DEF PruneWorkers, Good, State
<1>3. r.state = "pruned" /\ r.draining = FALSE /\ r.drainAck = FALSE
  BY DEF NoWorker
<1>4. ASSUME NEW a \in Allocs, InProgress(s, a) PROVE s.allocations[a].worker \notin old
  BY <1>4 DEF Retired
<1> HIDE DEF t, r
<1>5. ASSUME NEW a \in Allocs PROVE OrderOf(t, a)
  <2>1. OrderOf(s, a)
    BY DEF Ordered
  <2>2. ASSUME NEW w \in Workers
        PROVE  /\ PrepareCommand(w, a) \in t.commands <=> PrepareCommand(w, a) \in s.commands
               /\ CancelCommand(w, a) \in t.commands <=> CancelCommand(w, a) \in s.commands
    <3>1. /\ PrepareCommand(w, a) \in t.commands <=> (PrepareCommand(w, a) \in s.commands /\ w \notin old)
          /\ CancelCommand(w, a) \in t.commands <=> (CancelCommand(w, a) \in s.commands /\ w \notin old)
      BY <1>2, CommandFields
    <3>2. /\ PrepareCommand(w, a) \in s.commands => w \notin old
          /\ CancelCommand(w, a) \in s.commands => w \notin old
      BY <1>4, <2>1 DEF OrderOf, InProgressPhases, WaitingPhases
    <3>3. QED BY <3>1, <3>2, Zenon
  <2>3. QED BY <1>1, <2>1, <2>2, Zenon DEF OrderOf, Phase
<1>6. ASSUME NEW w \in Workers PROVE DrainOf(t, w)
  <2>1. DrainCommand(w) \in t.commands <=> (DrainCommand(w) \in s.commands /\ w \notin old)
    BY <1>2, CommandFields
  <2>2. CASE w \in old
    BY <1>1, <1>3, <2>1, <2>2 DEF DrainOf, DrainFits
  <2>3. CASE w \notin old
    BY <1>1, <2>1, <2>3 DEF Ordered, DrainOf, DrainFits
  <2>4. QED BY <2>2, <2>3
<1>7. Ordered(t)
  BY <1>5, <1>6 DEF Ordered
<1>8. QED BY <1>7 DEF t

\* A new worker does not drain.
LEMMA AddWorkerOrdered ==
  ASSUME NEW s, Good(s), Ordered(s), NEW w \in Workers, WorkerPhase(s, w) = "absent", NEW n
  PROVE  Ordered(AddWorker(s, w, n))
<1> DEFINE r == [NoWorker EXCEPT !.state = "requested", !.maxRooms = n]
<1>1. r.draining = FALSE /\ r.drainAck = FALSE
  BY DEF NoWorker
<1>2. ~s.workers[w].draining /\ ~s.workers[w].drainAck
  BY DEF Ordered, DrainOf, DrainFits, DrainPhases, ServingPhases
<1>3. s.workers[w] \in Worker
  BY DEF Good, State
<1> HIDE DEF r
<1>4. DrainKept(s.workers[w], r)
  BY <1>1, <1>2, <1>3 DEF DrainKept, Worker
<1>5. QED BY <1>4, OneWorkerOrdered DEF AddWorker, r

\* Placing a room sends its preparation to its worker.
LEMMA PlaceOrdered ==
  ASSUME NEW s, Good(s), Ordered(s), NEW f \in Placements(s)
  PROVE  Ordered(Place(s, f))
<1> DEFINE placed == {a \in DOMAIN f : f[a] # None}
           orders == {PrepareCommand(f[a], a) : a \in placed}
           t == Place(s, f)
<1>1. f \in [Waiting(s) -> Workers \cup {None}]
  BY DEF Placements
<1>2. placed \subseteq Allocs /\ \A a \in placed : Phase(s, a) = "waiting_capacity" /\ f[a] \in Workers
  BY <1>1 DEF Waiting
<1>3. t.commands = s.commands \cup orders
  BY DEF Place, Good, State
<1>4. ASSUME NEW a \in Allocs
      PROVE  /\ a \in placed => t.allocations[a].state = "preparing" /\ t.allocations[a].worker = f[a]
             /\ a \notin placed => t.allocations[a] = s.allocations[a]
  <2>1. t.allocations[a] = IF a \in placed
                           THEN [s.allocations[a] EXCEPT !.state = "preparing", !.worker = f[a]]
                           ELSE s.allocations[a]
    BY DEF Place, Good, State
  <2>2. s.allocations[a] \in Allocation
    BY DEF Good, State
  <2> HIDE DEF t, placed
  <2>3. QED BY <2>1, <2>2 DEF Allocation
<1>5. ASSUME NEW w \in Workers PROVE DrainKept(s.workers[w], t.workers[w])
  <2>1. t.workers[w] \in {s.workers[w], [s.workers[w] EXCEPT !.idle = FALSE]}
    BY DEF Place, Good, State
  <2>2. s.workers[w] \in Worker
    BY DEF Good, State
  <2> HIDE DEF t
  <2>3. /\ t.workers[w].draining = s.workers[w].draining
        /\ t.workers[w].drainAck = s.workers[w].drainAck /\ t.workers[w].state = s.workers[w].state
    BY <2>1, <2>2 DEF Worker
  <2>4. QED BY <2>3 DEF DrainKept
<1>6. ASSUME NEW w
      PROVE  /\ DrainCommand(w) \notin orders
             /\ \A a : CancelCommand(w, a) \notin orders
             /\ \A a : PrepareCommand(w, a) \in orders <=> (a \in placed /\ f[a] = w)
  <2> HIDE DEF placed
  <2>1. ASSUME NEW b
        PROVE  LET k == PrepareCommand(f[b], b) IN
               k.type = "prepare_room" /\ k.alloc = b /\ k.worker = f[b]
    BY CommandFields
  <2>2. \A a : /\ PrepareCommand(w, a).alloc = a /\ PrepareCommand(w, a).worker = w
              /\ CancelCommand(w, a).type = "cancel_room" /\ DrainCommand(w).type = "drain"
    BY CommandFields
  <2>3. QED BY <2>1, <2>2
<1> HIDE DEF t, orders, placed
<1>7. ASSUME NEW a \in Allocs PROVE OrderOf(t, a)
  <2>1. OrderOf(s, a)
    BY DEF Ordered
  <2>2. CASE a \in placed
    <3>1. ASSUME NEW w \in Workers
          PROVE  PrepareCommand(w, a) \notin s.commands /\ CancelCommand(w, a) \notin s.commands
      BY <1>2, <2>1, <2>2 DEF OrderOf
    <3>2. QED BY <1>3, <1>4, <1>6, <2>2, <3>1 DEF OrderOf
  <2>3. CASE a \notin placed
    <3>1. ASSUME NEW w \in Workers
          PROVE  /\ PrepareCommand(w, a) \in t.commands <=> PrepareCommand(w, a) \in s.commands
                 /\ CancelCommand(w, a) \in t.commands <=> CancelCommand(w, a) \in s.commands
      BY <1>3, <1>6, <2>3
    <3>2. t.allocations[a] = s.allocations[a]
      BY <1>4, <2>3
    <3>3. QED BY <2>1, <3>1, <3>2, Zenon DEF OrderOf, Phase
  <2>4. QED BY <2>2, <2>3
<1>8. ASSUME NEW w \in Workers PROVE DrainOf(t, w)
  <2>1. DrainCommand(w) \in t.commands <=> DrainCommand(w) \in s.commands
    BY <1>3, <1>6
  <2>2. DrainFits(t.workers[w], DrainCommand(w) \in s.commands)
    BY <1>5, DrainKeptFits DEF Ordered, DrainOf
  <2>3. QED BY <2>1, <2>2 DEF DrainOf, DrainFits
<1>9. Ordered(t)
  BY <1>7, <1>8 DEF Ordered
<1>10. QED BY <1>9 DEF t

LEMMA ScaleOutOrdered ==
  ASSUME NEW s, Good(s), Ordered(s), NEW t \in ScaleOut(s)
  PROVE  Ordered(t)
BY AddWorkerOrdered DEF ScaleOut

\* Idle workers get the order to drain; drained ones are to be stopped.
LEMMA ScaleInOrdered ==
  ASSUME NEW s, Good(s), Ordered(s), NEW surplus \in DrainChoices(s)
  PROVE  Ordered(ScaleIn(s, surplus))
<1> DEFINE W == [w \in Workers |->
                    IF w \in Serving(s) THEN [s.workers[w] EXCEPT !.idle = Rooms(s, w) = {}]
                                        ELSE s.workers[w]]
           clocked == [s EXCEPT !.workers = W]
           drained == BeginDrain(clocked, surplus)
           leaving == {w \in Workers : WorkerPhase(s, w) = "draining" /\ Drained(s, w)}
<1>1. ASSUME NEW w \in Workers
      PROVE  W[w] \in Worker /\ W[w].state = s.workers[w].state /\ DrainKept(s.workers[w], W[w])
  <2>1. s.workers[w] \in Worker
    BY DEF Good, State
  <2>2. CASE w \in Serving(s)
    <3> DEFINE empty == Rooms(s, w) = {}
    <3>1. W[w] = [s.workers[w] EXCEPT !.idle = empty] /\ empty \in BOOLEAN
      BY <2>2
    <3> HIDE DEF W, empty
    <3>2. /\ W[w] \in Worker /\ W[w].state = s.workers[w].state
          /\ W[w].draining = s.workers[w].draining /\ W[w].drainAck = s.workers[w].drainAck
      BY <2>1, <3>1 DEF Worker
    <3>3. QED BY <3>2 DEF DrainKept
  <2>3. CASE w \notin Serving(s)
    BY <2>1, <2>3 DEF DrainKept
  <2>4. QED BY <2>2, <2>3
<1>2. /\ clocked.allocations = s.allocations /\ clocked.commands = s.commands
      /\ \A w \in Workers : clocked.workers[w] = W[w]
  BY DEF Good, State
<1>3. Good(clocked)
  <2>1. W \in [Workers -> Worker]
    BY <1>1
  <2> HIDE DEF W
  <2>2. QED BY <1>1, <2>1 DEF Good, State, RoomsServed, Allocation
<1> HIDE DEF W, clocked
<1>4. Ordered(clocked)
  BY <1>1, <1>2, WorkersOrdered
<1>5. surplus \in SUBSET Workers
  BY DEF DrainChoices, Surplus, Serving
<1>6. Good(drained) /\ Ordered(drained)
  BY <1>3, <1>4, <1>5, BeginDrainGood, BeginDrainOrdered
<1>7. \A w \in leaving \cap Workers : WorkerPhase(drained, w) = "draining"
  <2>1. \A w \in Workers : WorkerPhase(drained, w) \in {WorkerPhase(clocked, w), "draining"}
    BY <1>3 DEF BeginDrain, Good, State, Worker
  <2>2. QED BY <1>1, <1>2, <2>1
<1> HIDE DEF drained, leaving
<1>8. Ordered(SetPhase(drained, leaving, "stopping"))
  BY <1>6, <1>7, SetPhaseOrdered DEF DrainPhases, Down
<1>9. QED BY <1>8 DEF ScaleIn, drained, clocked, W, leaving

\* A worker that drains is not starting, so its create request is not given up.
LEMMA AgeWorkersOrdered ==
  ASSUME NEW s, Good(s), Ordered(s), NEW interrupted \in SUBSET Starting(s)
  PROVE  Ordered(AgeWorkers(s, interrupted))
<1> DEFINE ending  == {w \in Workers : WorkerPhase(s, w) = "ready" /\ s.workers[w].ending}
           drained == BeginDrain(s, ending)
           silent  == {w \in Workers : /\ WorkerPhase(drained, w) = "ready"
                                       /\ s.workers[w].heartbeat # "fresh"}
           gone    == {w \in Workers : /\ Exists(s, w) /\ WorkerPhase(s, w) \notin Down
                                       /\ s.workers[w].heartbeat = "gone"}
           marked  == SetPhase(drained, interrupted, "unknown")
           quiet   == SetPhase(marked, silent, "suspect")
<1>1. Good(drained) /\ Ordered(drained)
  BY BeginDrainGood, BeginDrainOrdered
<1>2. \A w \in interrupted : w \in Workers /\ WorkerPhase(drained, w) = "starting"
  BY DEF Starting, BeginDrain, Good, State
<1>3. Good(marked) /\ Ordered(marked)
  <2> HIDE DEF drained
  <2>1. \A w \in interrupted \cap Workers : Rooms(drained, w) = {}
    BY <1>1, <1>2, NoRooms DEF ServingPhases
  <2>2. \A w \in interrupted \cap Workers : ~drained.workers[w].draining
    BY <1>1, <1>2 DEF Ordered, DrainOf, DrainFits, DrainPhases, ServingPhases
  <2>3. QED BY <1>1, <2>1, <2>2, SetPhaseGood, SetPhaseOrdered DEF WorkerPhases
<1>4. \A w \in silent : WorkerPhase(marked, w) \in {"ready", "unknown"}
  <2> HIDE DEF drained
  <2>1. QED BY <1>1 DEF SetPhase, Good, State, Worker
<1>5. Good(quiet) /\ Ordered(quiet)
  <2> HIDE DEF marked, silent
  <2>1. Good(quiet)
    BY <1>3, SetPhaseGood DEF WorkerPhases, ServingPhases
  <2>2. Ordered(quiet)
    BY <1>3, <1>4, SetPhaseOrdered DEF DrainPhases, ServingPhases, Down
  <2>3. QED BY <2>1, <2>2
<1> HIDE DEF drained, marked, quiet, silent
<1>6. Ordered(Lost(quiet, gone))
  BY <1>5, CloseOrdered DEF Lost
<1>7. QED BY <1>6 DEF AgeWorkers, quiet, marked, silent, drained

\* The lease transaction of a tick.
LEMMA TickOrdered ==
  ASSUME NEW c \in Controllers, Good(store), Ordered(store), TickTx(c)
  PROVE  Ordered(store')
<1>1. PICK aged, expired, pruned, trimmed, assigned, placed, scaled, last :
        TickChain(c, aged, expired, pruned, trimmed, assigned, placed, scaled, last)
  BY TickPhases
<1>2. Ordered(aged)
  BY <1>1, AgeWorkersOrdered DEF TickChain
<1>3. Ordered(expired)
  <2>1. PICK overdue \in SUBSET Expirable(aged) : expired = ExpireAllocations(aged, overdue)
    BY <1>1 DEF TickChain
  <2>2. Orphans(aged) \cup overdue \in SUBSET Allocs
    BY DEF Orphans, Expirable
  <2>3. Good(aged)
    BY <1>1 DEF TickChain
  <2>4. QED BY <1>2, <2>1, <2>2, <2>3, CancelOrdered DEF ExpireAllocations, Ordered, Reasons
<1>4. Ordered(pruned)
  BY <1>1, <1>3, PruneAllocationsOrdered DEF TickChain
<1>5. Ordered(trimmed)
  BY <1>1, <1>4, PruneWorkersOrdered DEF TickChain
<1>6. Ordered(assigned)
  BY <1>1, <1>5, ReserveOrdered DEF TickChain, AssignPrepared
<1>7. Ordered(placed)
  BY <1>1, <1>6, PlaceOrdered DEF TickChain
<1>8. Ordered(scaled)
  BY <1>1, <1>7, ScaleOutOrdered DEF TickChain
<1>9. Ordered(last) /\ Good(last)
  BY <1>1, <1>8, ScaleInOrdered DEF TickChain
<1>10. /\ store'.allocations = last.allocations /\ store'.workers = last.workers
       /\ store'.commands = last.commands
  BY <1>1 DEF TickChain, Good, State
<1>11. QED BY <1>9, <1>10, OnlyRoomsOrdered DEF RoomKept

-----------------------------------------------------------------------------
(* The commands and the transaction of an agent's heartbeat.               *)

LEMMA ObserveOrdered ==
  ASSUME NEW s, Good(s), Ordered(s), NEW w \in Workers, WorkerPhase(s, w) \notin Down,
         NEW ready \in BOOLEAN, NEW metrics \in Metrics
  PROVE  Ordered(Observe(s, w, ready, metrics))
<1> DEFINE p == s.workers[w]
           serving == p.host /\ ready /\ p.state \notin Unmoved
           phase == IF ~serving THEN p.state ELSE IF p.draining THEN "draining" ELSE "ready"
           r == [p EXCEPT !.heartbeat = "fresh", !.ready = ready, !.metrics = metrics,
                          !.state = phase]
<1>1. p \in Worker
  BY DEF Good, State
<1>2. phase = p.state \/ (p.draining => phase = "draining")
  OBVIOUS
<1>3. /\ r.state = phase /\ r.draining = p.draining /\ r.drainAck = p.drainAck
  <2> HIDE DEF p, phase
  <2>1. QED BY <1>1 DEF Worker
<1>4. Observe(s, w, ready, metrics) = [s EXCEPT !.workers[w] = r]
  BY DEF Observe
<1>5. p.state \notin Down
  OBVIOUS
<1> HIDE DEF p, phase, r
<1>6. DrainKept(p, r)
  BY <1>2, <1>3, <1>5 DEF DrainKept, DrainPhases, ServingPhases, Down
<1>7. QED BY <1>4, <1>6, OneWorkerOrdered DEF p

\* A room that leaves for a phase without orders may have lost its commands already.
LEMMA LeaveOrder ==
  ASSUME NEW s, Good(s), NEW D, NEW phase, phase \notin {"preparing", "cancelling"},
         NEW reason, NEW a \in Allocs,
         a \in D => Muted(s, a), a \notin D => OrderOf(s, a)
  PROVE  OrderOf(Leave(s, D, phase, reason), a)
<1> DEFINE t == Leave(s, D, phase, reason)
<1>1. t.commands = s.commands
  BY DEF Leave, Good, State
<1>2. t.allocations[a] = IF a \in D THEN [s.allocations[a] EXCEPT !.state = phase,
                                              !.reason = reason, !.sessions = NoSessions]
                                     ELSE s.allocations[a]
  BY DEF Leave, Good, State
<1>3. s.allocations[a] \in Allocation
  BY DEF Good, State
<1> HIDE DEF t
<1>4. CASE a \in D
  <2>1. t.allocations[a].state = phase
    BY <1>2, <1>3, <1>4 DEF Allocation
  <2>2. QED BY <1>1, <1>4, <2>1 DEF OrderOf, Muted, t
<1>5. CASE a \notin D
  <2>1. t.allocations[a] = s.allocations[a]
    BY <1>2, <1>5
  <2>2. OrderOf(t, a)
    BY <1>1, <1>5, <2>1, Zenon DEF OrderOf, Phase
  <2>3. QED BY <2>2 DEF t
<1>6. QED BY <1>4, <1>5

\* What Leave does not touch.
LEMMA LeaveFields ==
  ASSUME NEW s, Good(s), NEW D, NEW phase, NEW reason
  PROVE  LET t == Leave(s, D, phase, reason) IN
         /\ t.commands = s.commands /\ t.workers = s.workers
         /\ \A a \in Allocs : a \notin D => t.allocations[a] = s.allocations[a]
BY DEF Leave, Good, State

\* While the results are processed: the commands of the rooms of R are gone, and
\* these rooms are as they were before.
Answered(s, u, R) ==
    /\ \A w \in Workers : DrainOf(u, w)
    /\ \A a \in Allocs \cap R : Muted(u, a) /\ u.allocations[a] = s.allocations[a]
    /\ \A a \in Allocs \ R : OrderOf(u, a)

LEMMA AnsweredLeave ==
  ASSUME NEW s, NEW u, Good(u), NEW R, Answered(s, u, R), NEW D, D \subseteq R,
         NEW phase, phase \notin {"preparing", "cancelling"}, NEW reason
  PROVE  Answered(s, Leave(u, D, phase, reason), R \ D)
<1> DEFINE t == Leave(u, D, phase, reason)
<1>1. /\ t.commands = u.commands /\ t.workers = u.workers
      /\ \A a \in Allocs : a \notin D => t.allocations[a] = u.allocations[a]
  BY LeaveFields
<1>2. ASSUME NEW a \in Allocs, a \notin R \ D PROVE OrderOf(t, a)
  <2>1. (a \in D => Muted(u, a)) /\ (a \notin D => OrderOf(u, a))
    BY <1>2 DEF Answered
  <2>2. QED BY <2>1, LeaveOrder
<1> HIDE DEF t
<1>3. ASSUME NEW a \in Allocs, a \in R \ D PROVE Muted(t, a) /\ t.allocations[a] = s.allocations[a]
  <2>1. Muted(u, a) /\ u.allocations[a] = s.allocations[a] /\ a \notin D
    BY <1>3 DEF Answered
  <2>2. QED BY <1>1, <2>1 DEF Muted
<1>4. \A w \in Workers : DrainOf(t, w)
  BY <1>1 DEF Answered, DrainOf
<1>5. Answered(s, t, R \ D)
  BY <1>2, <1>3, <1>4 DEF Answered
<1>6. QED BY <1>5 DEF t

LEMMA AnsweredReserve ==
  ASSUME NEW s, NEW u, Good(u), NEW R, Answered(s, u, R), NEW D,
         \A a \in R \cap Allocs : Phase(s, a) # "prepared"
  PROVE  Answered(s, Reserve(u, D), R)
<1> DEFINE t == Reserve(u, D)
<1>1. /\ t.commands = u.commands /\ t.workers = u.workers
      /\ \A a \in Allocs : Phase(u, a) # "prepared" => t.allocations[a] = u.allocations[a]
  BY DEF Reserve, Good, State
<1>2. ASSUME NEW a \in Allocs PROVE RoomKept(u.allocations[a], t.allocations[a])
  <2> DEFINE seats == [x \in Users |-> IF x \in u.allocations[a].users THEN "reserved" ELSE "none"]
  <2>1. u.allocations[a] \in Allocation
    BY DEF Good, State
  <2>2. t.allocations[a] = IF a \in D /\ u.allocations[a].state = "prepared"
                           THEN [u.allocations[a] EXCEPT !.state = "assigned", !.sessions = seats]
                           ELSE u.allocations[a]
    BY DEF Reserve, Good, State
  <2> HIDE DEF t, seats
  <2>3. \/ t.allocations[a] = u.allocations[a]
        \/ t.allocations[a].state = "assigned" /\ u.allocations[a].state = "prepared"
    BY <2>1, <2>2 DEF Allocation
  <2>4. QED BY <2>3 DEF RoomKept
<1> HIDE DEF t
<1>3. ASSUME NEW a \in Allocs, a \notin R PROVE OrderOf(t, a)
  BY <1>1, <1>2, <1>3, RoomKeptOrder DEF Answered
<1>4. ASSUME NEW a \in Allocs, a \in R PROVE Muted(t, a) /\ t.allocations[a] = s.allocations[a]
  <2>1. Muted(u, a) /\ u.allocations[a] = s.allocations[a]
    BY <1>4 DEF Answered
  <2>2. Phase(u, a) # "prepared"
    BY <1>4, <2>1
  <2>3. QED BY <1>1, <2>1, <2>2 DEF Muted
<1>5. \A w \in Workers : DrainOf(t, w)
  BY <1>1 DEF Answered, DrainOf
<1>6. Answered(s, t, R)
  BY <1>3, <1>4, <1>5 DEF Answered
<1>7. QED BY <1>6 DEF t

\* The results are taken from the outbox: the rooms they are about have no orders left.
LEMMA AnsweredDone ==
  ASSUME NEW s, Good(s), Ordered(s), NEW w \in Workers, NEW acks \in SUBSET Pending(s, w),
         NEW nacks \in SUBSET {k \in Pending(s, w) : k.type = "prepare_room"},
         NEW done,
         done = [s EXCEPT !.commands = s.commands \ (acks \cup nacks),
                          !.workers[w] = [s.workers[w] EXCEPT
                                !.drainAck = s.workers[w].drainAck \/ DrainCommand(w) \in acks]]
  PROVE  Answered(s, done, RoomsOf(s, acks, "prepare_room", "preparing")
                            \cup RoomsOf(s, nacks, "prepare_room", "preparing")
                            \cup RoomsOf(s, acks, "cancel_room", "cancelling"))
<1> DEFINE answered == RoomsOf(s, acks, "prepare_room", "preparing")
           nacked   == RoomsOf(s, nacks, "prepare_room", "preparing")
           cleaned  == RoomsOf(s, acks, "cancel_room", "cancelling")
           ack      == s.workers[w].drainAck \/ DrainCommand(w) \in acks
           r        == [s.workers[w] EXCEPT !.drainAck = ack]
           R        == answered \cup nacked \cup cleaned
<1>1. /\ done.allocations = s.allocations
      /\ \A v \in Workers : done.workers[v] = IF v = w THEN r ELSE s.workers[v]
  BY DEF Good, State
<1>2. done.commands = s.commands \ (acks \cup nacks)
  BY DEF Good, State
<1>3. /\ acks \subseteq s.commands /\ \A k \in acks : k.worker = w
      /\ nacks \subseteq s.commands /\ \A k \in nacks : k.worker = w /\ k.type = "prepare_room"
      /\ s.commands \subseteq Command
  BY DEF Pending, Good, State
<1>4. ASSUME NEW k \in Command
      PROVE  /\ k.type = "prepare_room" => k = PrepareCommand(k.worker, k.alloc)
             /\ k.type = "cancel_room" => k = CancelCommand(k.worker, k.alloc)
  BY DEF Command, PrepareCommand, CancelCommand
<1>5. ASSUME NEW a \in Allocs
      PROVE  /\ a \in answered \cup nacked =>
                    /\ Phase(s, a) = "preparing" /\ s.allocations[a].worker = w
                    /\ PrepareCommand(w, a) \in acks \cup nacks
             /\ a \in cleaned =>
                    /\ Phase(s, a) = "cancelling" /\ s.allocations[a].worker = w
                    /\ CancelCommand(w, a) \in acks \cup nacks
  <2>1. OrderOf(s, a)
    BY DEF Ordered
  <2>2. CASE a \in answered \cup nacked
    <3>1. Phase(s, a) = "preparing" /\ \E k \in acks \cup nacks : k.type = "prepare_room" /\ k.alloc = a
      BY <2>2 DEF RoomsOf
    <3>2. PrepareCommand(w, a) \in acks \cup nacks /\ PrepareCommand(w, a) \in s.commands
      BY <1>3, <1>4, <3>1
    <3>3. a \notin cleaned
      BY <3>1 DEF RoomsOf
    <3>4. QED BY <2>1, <3>1, <3>2, <3>3 DEF OrderOf
  <2>3. CASE a \in cleaned
    <3>1. Phase(s, a) = "cancelling" /\ \E k \in acks : k.type = "cancel_room" /\ k.alloc = a
      BY <2>3 DEF RoomsOf
    <3>2. CancelCommand(w, a) \in acks \cup nacks /\ CancelCommand(w, a) \in s.commands
      BY <1>3, <1>4, <3>1
    <3>3. a \notin answered \cup nacked
      BY <3>1 DEF RoomsOf
    <3>4. QED BY <2>1, <3>1, <3>2, <3>3 DEF OrderOf
  <2>4. QED BY <2>2, <2>3
<1>6. ASSUME NEW a \in Allocs, NEW v \in Workers
      PROVE  /\ PrepareCommand(v, a) \in acks \cup nacks => a \in answered \cup nacked
             /\ CancelCommand(v, a) \in acks \cup nacks => a \in cleaned
  <2>1. OrderOf(s, a)
    BY DEF Ordered
  <2>2. /\ PrepareCommand(v, a).type = "prepare_room" /\ PrepareCommand(v, a).alloc = a
        /\ CancelCommand(v, a).type = "cancel_room" /\ CancelCommand(v, a).alloc = a
    BY CommandFields
  <2>3. /\ PrepareCommand(v, a) \in acks \cup nacks => Phase(s, a) = "preparing"
        /\ CancelCommand(v, a) \in acks \cup nacks
              => Phase(s, a) = "cancelling" /\ CancelCommand(v, a) \in acks
    BY <1>3, <2>1, <2>2 DEF OrderOf
  <2>4. QED BY <2>2, <2>3 DEF RoomsOf
<1> HIDE DEF answered, nacked, cleaned
<1>7. ASSUME NEW a \in Allocs, a \in R PROVE Muted(done, a)
  <2>1. OrderOf(s, a)
    BY DEF Ordered
  <2>2. QED BY <1>2, <1>5, <1>7, <2>1 DEF Muted, OrderOf
<1>8. ASSUME NEW a \in Allocs, a \notin R PROVE OrderOf(done, a)
  <2>1. OrderOf(s, a)
    BY DEF Ordered
  <2>2. ASSUME NEW v \in Workers
        PROVE  /\ PrepareCommand(v, a) \in done.commands <=> PrepareCommand(v, a) \in s.commands
               /\ CancelCommand(v, a) \in done.commands <=> CancelCommand(v, a) \in s.commands
    BY <1>2, <1>6, <1>8
  <2>3. QED BY <1>1, <2>1, <2>2, Zenon DEF OrderOf, Phase
<1>9. ASSUME NEW v \in Workers PROVE DrainOf(done, v)
  <2>1. DrainFits(s.workers[v], DrainCommand(v) \in s.commands)
    BY DEF Ordered, DrainOf
  <2>2. DrainCommand(v).worker = v /\ DrainCommand(v).type = "drain"
    BY CommandFields
  <2>3. DrainCommand(v) \in done.commands <=> (DrainCommand(v) \in s.commands /\ DrainCommand(v) \notin acks)
    BY <1>2, <1>3, <2>2
  <2>4. CASE v = w
    <3>1. s.workers[w] \in Worker
      BY DEF Good, State
    <3>2. ack \in BOOLEAN
      OBVIOUS
    <3> HIDE DEF ack
    <3>3. r.draining = s.workers[w].draining /\ r.state = s.workers[w].state /\ r.drainAck = ack
      BY <3>1, <3>2 DEF Worker
    <3>4. ack <=> (s.workers[w].drainAck \/ DrainCommand(w) \in acks)
      BY DEF ack
    <3>5. done.workers[v] = r
      BY <1>1, <2>4
    <3> HIDE DEF r
    <3>6. DrainCommand(w) \in acks => DrainCommand(w) \in s.commands
      BY <1>3
    <3>7. DrainFits(r, DrainCommand(w) \in done.commands)
      <4>1. (DrainCommand(w) \in done.commands) <=> (r.draining /\ ~r.drainAck /\ r.state \notin Down)
        BY <2>1, <2>3, <2>4, <3>3, <3>4, Zenon DEF DrainFits
      <4>2. r.drainAck => r.draining
        BY <2>1, <2>4, <3>3, <3>4, <3>6, Zenon DEF DrainFits
      <4>3. r.draining => r.state \in DrainPhases
        BY <2>1, <2>4, <3>3, Zenon DEF DrainFits
      <4>4. QED BY <4>1, <4>2, <4>3 DEF DrainFits
    <3>8. QED BY <2>4, <3>5, <3>7 DEF DrainOf
  <2>5. CASE v # w
    <3>1. DrainCommand(v) \notin acks
      BY <1>3, <2>2, <2>5
    <3>2. QED BY <1>1, <2>1, <2>3, <2>5, <3>1 DEF DrainOf, DrainFits
  <2>6. QED BY <2>4, <2>5
<1>10. Answered(s, done, R)
  BY <1>1, <1>7, <1>8, <1>9 DEF Answered
<1>11. QED BY <1>10 DEF answered, nacked, cleaned

LEMMA AcknowledgeOrdered ==
  ASSUME NEW s, Good(s), Ordered(s), NEW w \in Workers, NEW acks \in SUBSET Pending(s, w),
         NEW late, NEW nacks \in SUBSET {k \in Pending(s, w) : k.type = "prepare_room"}
  PROVE  Ordered(Acknowledge(s, w, acks, late, nacks))
<1>1. PICK opened, done, prepared, assigned, freed, released :
        AckChain(s, w, acks, late, nacks, opened, done, prepared, assigned, freed, released)
  BY AcknowledgeSteps
<1> DEFINE answered == RoomsOf(s, acks, "prepare_room", "preparing")
           refused  == RefusedRooms(s, w, acks, late)
           nacked   == RoomsOf(s, nacks, "prepare_room", "preparing")
           cleaned  == RoomsOf(s, acks, "cancel_room", "cancelling")
           byPlayer == {a \in cleaned : s.allocations[a].reason = "cancelled"}
<1>2. Good(done) /\ Good(prepared) /\ Good(assigned) /\ Good(freed) /\ Good(released)
  BY <1>1 DEF AckChain
<1>3. /\ opened = answered \ refused
      /\ prepared = Leave(done, opened, "prepared", "none")
      /\ assigned \in {Reserve(prepared, opened), prepared}
      /\ freed = Leave(assigned, byPlayer, "cancelled", "none")
      /\ released = Leave(freed, cleaned \ byPlayer, "expired", "none")
      /\ Acknowledge(s, w, acks, late, nacks) = Cancel(released, refused \cup nacked, "other")
  BY <1>1 DEF AckChain, Finish
<1>4. Answered(s, done, answered \cup nacked \cup cleaned)
  BY <1>1, AnsweredDone DEF AckChain
<1>5. /\ \A a \in answered \cup nacked \cup refused : a \in Allocs /\ Phase(s, a) = "preparing"
      /\ \A a \in cleaned : a \in Allocs /\ Phase(s, a) = "cancelling"
  BY DEF RoomsOf, RefusedRooms
<1> HIDE DEF answered, refused, nacked, cleaned
<1>6. Answered(s, prepared, (answered \cup nacked \cup cleaned) \ opened)
  BY <1>2, <1>3, <1>4, AnsweredLeave
<1>7. Answered(s, assigned, (answered \cup nacked \cup cleaned) \ opened)
  <2>1. \A a \in (answered \cup nacked \cup cleaned) \ opened : Phase(s, a) # "prepared"
    BY <1>5
  <2>2. Answered(s, Reserve(prepared, opened), (answered \cup nacked \cup cleaned) \ opened)
    BY <1>2, <1>6, <2>1, AnsweredReserve
  <2>3. QED BY <1>3, <1>6, <2>2
<1>8. byPlayer \subseteq cleaned /\ cleaned \cap opened = {}
  BY <1>3, <1>5
<1> HIDE DEF byPlayer
<1>9. Answered(s, freed, ((answered \cup nacked \cup cleaned) \ opened) \ byPlayer)
  BY <1>2, <1>3, <1>7, <1>8, AnsweredLeave
<1>10. cleaned \ byPlayer \subseteq ((answered \cup nacked \cup cleaned) \ opened) \ byPlayer
  BY <1>8
<1>11. Answered(s, released, (((answered \cup nacked \cup cleaned) \ opened) \ byPlayer)
                                \ (cleaned \ byPlayer))
  BY <1>2, <1>3, <1>9, <1>10, AnsweredLeave
<1>12. (((answered \cup nacked \cup cleaned) \ opened) \ byPlayer) \ (cleaned \ byPlayer)
           \subseteq refused \cup nacked
  BY <1>3
<1>13. /\ \A v \in Workers : DrainOf(released, v)
       /\ \A a \in Allocs : \/ OrderOf(released, a)
                           \/ /\ a \in refused \cup nacked /\ Muted(released, a)
                              /\ Phase(released, a) = "preparing"
  <2> DEFINE R == (((answered \cup nacked \cup cleaned) \ opened) \ byPlayer) \ (cleaned \ byPlayer)
  <2>1. Answered(s, released, R) /\ R \subseteq refused \cup nacked
    BY <1>11, <1>12
  <2> HIDE DEF R
  <2>2. \A v \in Workers : DrainOf(released, v)
    BY <2>1 DEF Answered
  <2>3. ASSUME NEW a \in Allocs
        PROVE  \/ OrderOf(released, a)
               \/ /\ a \in refused \cup nacked /\ Muted(released, a)
                  /\ Phase(released, a) = "preparing"
    <3>1. CASE a \in R
      <4>1. Muted(released, a) /\ released.allocations[a] = s.allocations[a]
        BY <2>1, <3>1 DEF Answered
      <4>2. a \in refused \cup nacked
        BY <2>1, <3>1
      <4>3. QED BY <1>5, <4>1, <4>2
    <3>2. CASE a \notin R
      BY <2>1, <3>2 DEF Answered
    <3>3. QED BY <3>1, <3>2
  <2>4. QED BY <2>2, <2>3
<1>14. refused \cup nacked \in SUBSET Allocs
  BY <1>5
<1>15. Ordered(Cancel(released, refused \cup nacked, "other"))
  BY <1>2, <1>13, <1>14, CancelOrdered DEF Reasons
<1>16. QED BY <1>3, <1>15

\* The rooms that a report changes have no orders.
LEMMA ReportOrdered ==
  ASSUME NEW s, Good(s), Ordered(s), NEW w \in Workers, NEW report
  PROVE  Ordered(ReportRooms(s, w, report))
<1>1. PICK seen, over : ReportChain(s, w, report, seen, over)
  BY ReportSteps
<1>2. Ordered(seen)
  <2>1. ASSUME NEW a \in Allocs PROVE RoomKept(s.allocations[a], seen.allocations[a])
    <3>1. Untouched(s.allocations[a], seen.allocations[a])
      BY <1>1 DEF ReportChain
    <3>2. QED BY <3>1 DEF Untouched, RoomKept
  <2>2. ASSUME NEW v \in Workers PROVE DrainKept(s.workers[v], seen.workers[v])
    <3>1. PICK b \in BOOLEAN :
            seen.workers = [s.workers EXCEPT ![w] = [s.workers[w] EXCEPT !.players = b]]
      BY <1>1 DEF ReportChain
    <3>2. seen.workers[v] \in {s.workers[v], [s.workers[v] EXCEPT !.players = b]}
      BY <3>1 DEF Good, State
    <3>3. s.workers[v] \in Worker
      BY DEF Good, State
    <3>4. /\ seen.workers[v].draining = s.workers[v].draining
          /\ seen.workers[v].drainAck = s.workers[v].drainAck
          /\ seen.workers[v].state = s.workers[v].state
      BY <3>2, <3>3 DEF Worker
    <3>5. QED BY <3>4 DEF DrainKept
  <2>3. seen.commands = s.commands
    BY <1>1 DEF ReportChain
  <2>4. QED BY <2>1, <2>2, <2>3, RoomsOrdered
<1> DEFINE t == Leave(seen, over, "completed", "none")
<1>3. ReportRooms(s, w, report) = t /\ Good(seen)
  BY <1>1 DEF ReportChain, Finish
<1>4. /\ t.commands = seen.commands /\ t.workers = seen.workers
      /\ \A a \in Allocs : a \notin over => t.allocations[a] = seen.allocations[a]
  BY <1>3, LeaveFields
<1>5. ASSUME NEW a \in Allocs PROVE RoomKept(seen.allocations[a], t.allocations[a])
  <2>1. CASE a \in over
    <3>1. seen.allocations[a].state \in {"assigned", "active"}
      BY <1>1, <2>1 DEF ReportChain
    <3>2. t.allocations[a].state = "completed"
      <4>1. seen.allocations[a] \in Allocation
        BY <1>3 DEF Good, State
      <4>2. t.allocations[a] = [seen.allocations[a] EXCEPT !.state = "completed", !.reason = "none",
                                                           !.sessions = NoSessions]
        BY <1>3, <2>1 DEF Leave, Good, State
      <4>3. QED BY <4>1, <4>2 DEF Allocation
    <3>3. QED BY <3>1, <3>2 DEF RoomKept
  <2>2. CASE a \notin over
    BY <1>4, <2>2 DEF RoomKept
  <2>3. QED BY <2>1, <2>2
<1> HIDE DEF t
<1>6. QED BY <1>2, <1>3, <1>4, <1>5, OnlyRoomsOrdered

LEMMA HeartbeatOrdered ==
  ASSUME NEW s, Good(s), Ordered(s), NEW w \in Workers, WorkerPhase(s, w) \notin Down,
         NEW ready \in BOOLEAN, NEW metrics \in Metrics, NEW acks \in SUBSET Pending(s, w),
         NEW late, NEW nacks \in SUBSET {k \in Pending(s, w) : k.type = "prepare_room"}, NEW report
  PROVE  Ordered(HeartbeatTx(s, w, ready, metrics, acks, late, nacks, report))
<1> DEFINE observed == Observe(s, w, ready, metrics)
           answered == Acknowledge(observed, w, acks, late, nacks)
<1>1. Good(observed) /\ Ordered(observed)
  BY ObserveGood, ObserveOrdered
<1>2. Pending(observed, w) = Pending(s, w)
  BY DEF Pending, Observe, Good, State
<1> HIDE DEF observed
<1>3. Good(answered) /\ Ordered(answered)
  BY <1>1, <1>2, AcknowledgeGood, AcknowledgeOrdered
<1> HIDE DEF answered
<1>4. Ordered(ReportRooms(answered, w, report))
  BY <1>3, ReportOrdered
<1>5. QED BY <1>4 DEF HeartbeatTx, answered, observed

-----------------------------------------------------------------------------
(* The commands and the provider's answers.                                *)

\* A worker in a phase before its first drain.
LEMMA NotDraining ==
  ASSUME NEW s, Ordered(s), NEW w \in Workers, WorkerPhase(s, w) \notin DrainPhases
  PROVE  ~s.workers[w].draining
BY DEF Ordered, DrainOf, DrainFits

LEMMA LifetimeOrdered ==
  ASSUME NEW s, Good(s), Ordered(s), NEW w \in Workers, NEW short \in BOOLEAN
  PROVE  Ordered(Lifetime(s, w, short))
<1> DEFINE p == s.workers[w]
           phase == IF p.state \in {"launching", "bootstrapping"} THEN "stopping" ELSE p.state
           r == [p EXCEPT !.state = phase]
           u == [s EXCEPT !.workers[w] = r]
           t == Lifetime(s, w, short)
<1>1. CASE ~short
  BY <1>1 DEF Lifetime
<1>2. CASE short
  <2>1. p \in Worker
    BY DEF Good, State
  <2>2. /\ t.allocations = u.allocations /\ t.commands = u.commands /\ t.workers = u.workers
    BY <1>2 DEF Lifetime, Good, State
  <2>3. p.state \in {"launching", "bootstrapping"} => ~p.draining
    BY NotDraining DEF DrainPhases, ServingPhases
  <2>4. r.state = phase /\ r.draining = p.draining /\ r.drainAck = p.drainAck
    <3> HIDE DEF p, phase
    <3>1. QED BY <2>1 DEF Worker
  <2>5. DrainKept(p, r)
    <3> HIDE DEF p, r
    <3>1. QED BY <2>3, <2>4 DEF DrainKept
  <2> HIDE DEF p, r
  <2>6. Ordered(u)
    BY <2>5, OneWorkerOrdered DEF p
  <2> HIDE DEF u, t
  <2>7. Ordered(t)
    BY <2>2, <2>6, OnlyRoomsOrdered DEF RoomKept
  <2>8. QED BY <2>7 DEF t
<1>3. QED BY <1>1, <1>2

LEMMA ServeOrdered ==
  ASSUME NEW s, Good(s), Ordered(s), NEW w \in Workers, WorkerPhase(s, w) \in Polled \ {"lost"}
  PROVE  Ordered(Serve(s, w))
<1> DEFINE worker == s.workers[w]
           phase == IF worker.ready /\ worker.boot /\ worker.heartbeat = "fresh"
                    THEN IF worker.draining THEN "draining" ELSE "ready"
                    ELSE IF worker.state \in {"launching", "bootstrapping"} THEN "bootstrapping"
                    ELSE IF worker.draining THEN worker.state ELSE "suspect"
           r == [worker EXCEPT !.host = TRUE, !.state = phase]
<1>1. worker.state \in {"launching", "bootstrapping"} => ~worker.draining
  BY NotDraining DEF DrainPhases, ServingPhases
<1>2. worker.draining => phase \in {"draining", worker.state}
  BY <1>1
<1>3. r.state = phase /\ r.draining = worker.draining /\ r.drainAck = worker.drainAck
  <2>1. worker \in Worker
    BY DEF Good, State
  <2> HIDE DEF worker, phase
  <2>2. QED BY <2>1 DEF Worker
<1>4. Serve(s, w) = [s EXCEPT !.workers[w] = r]
  BY DEF Serve
<1>5. worker.state \notin Down
  BY DEF Polled, Down
<1> HIDE DEF worker, phase, r
<1>6. DrainKept(worker, r)
  BY <1>2, <1>3, <1>5 DEF DrainKept, DrainPhases, ServingPhases, Down
<1>7. QED BY <1>4, <1>6, OneWorkerOrdered DEF worker

LEMMA PollOrdered ==
  ASSUME NEW s, Good(s), Ordered(s), NEW w \in Workers, WorkerPhase(s, w) \in Polled,
         NEW reply, reply.short \in BOOLEAN, reply.status \in PollAnswers, NEW overdue \in BOOLEAN
  PROVE  Ordered(Poll(s, w, reply, overdue))
<1> DEFINE t == Lifetime(s, w, reply.short)
           u == Poll(s, w, reply, overdue)
<1>1. Good(t) /\ Ordered(t) /\ (WorkerPhase(t, w) = "stopping" \/ t.workers = s.workers)
  BY LifetimeGood, LifetimeOnward, LifetimeOrdered
<1>2. \/ u = s \/ u = t
      \/ u = Close(s, {w}, "stopped") \/ u = Close(s, {w}, "lost") \/ u = Close(t, {w}, "stopped")
      \/ WorkerPhase(t, w) \in {"launching", "bootstrapping"} /\ u = SetPhase(t, {w}, "stopping")
      \/ WorkerPhase(t, w) \notin {"stopping", "lost"} /\ u = Serve(t, w)
  <2> HIDE DEF t
  <2>1. QED BY DEF Poll, PollAnswers, Stopped, Lost, t
<1> HIDE DEF t, u
<1>3. /\ Ordered(Close(s, {w}, "stopped")) /\ Ordered(Close(s, {w}, "lost"))
      /\ Ordered(Close(t, {w}, "stopped"))
  BY <1>1, CloseOrdered
<1>4. ASSUME WorkerPhase(t, w) \in {"launching", "bootstrapping"}
      PROVE  Ordered(SetPhase(t, {w}, "stopping"))
  <2>1. ~t.workers[w].draining
    BY <1>1, <1>4, NotDraining DEF DrainPhases, ServingPhases
  <2>2. QED BY <1>1, <2>1, SetPhaseOrdered
<1>5. ASSUME WorkerPhase(t, w) \notin {"stopping", "lost"}
      PROVE  Ordered(Serve(t, w))
  BY <1>1, <1>5, ServeOrdered
<1>6. QED BY <1>1, <1>2, <1>3, <1>4, <1>5 DEF u

\* A worker taken over or created starts to launch; it has no drain to keep.
LEMMA LaunchOrdered ==
  ASSUME NEW s, Good(s), Ordered(s), NEW w \in Workers, WorkerPhase(s, w) \in {"starting", "unknown"}
  PROVE  /\ Ordered([s EXCEPT !.workers[w] = [s.workers[w] EXCEPT !.provider = TRUE, !.state = "launching"]])
         /\ Ordered(SetPhase(s, {w}, "unknown")) /\ Ordered(SetPhase(s, {w}, "failed"))
<1> DEFINE r == [s.workers[w] EXCEPT !.provider = TRUE, !.state = "launching"]
<1>1. ~s.workers[w].draining
  BY NotDraining DEF DrainPhases, ServingPhases
<1>2. s.workers[w] \in Worker
  BY DEF Good, State
<1>3. r.draining = s.workers[w].draining /\ r.drainAck = s.workers[w].drainAck
  BY <1>2 DEF Worker
<1> HIDE DEF r
<1>4. DrainKept(s.workers[w], r)
  BY <1>1, <1>3 DEF DrainKept
<1>5. Ordered([s EXCEPT !.workers[w] = r])
  BY <1>4, OneWorkerOrdered
<1>6. QED BY <1>1, <1>5, SetPhaseOrdered DEF r

LEMMA CreatedOrdered ==
  ASSUME NEW s, Good(s), Ordered(s), NEW w \in Workers, WorkerPhase(s, w) = "starting",
         NEW reply, reply.short \in BOOLEAN, reply.status \in PostAnswers
  PROVE  Ordered(Created(s, w, reply))
<1>1. CASE reply.status \in {"unknown", "rejected"}
  BY <1>1, LaunchOrdered DEF Created
<1>2. CASE reply.status = "misconfigured"
  <2> DEFINE u == SetPhase(s, {w}, "failed")
             t == [u EXCEPT !.blocked = TRUE]
  <2>1. Created(s, w, reply) = t
    BY <1>2 DEF Created
  <2>2. t.allocations = u.allocations /\ t.workers = u.workers /\ t.commands = u.commands
    BY DEF SetPhase, Good, State
  <2>3. Ordered(u)
    BY LaunchOrdered
  <2> HIDE DEF u, t
  <2>4. QED BY <2>1, <2>2, <2>3, OnlyRoomsOrdered DEF RoomKept
<1>3. CASE reply.status = "created"
  <2> DEFINE r == [s.workers[w] EXCEPT !.provider = TRUE, !.state = "launching"]
             t == [s EXCEPT !.workers[w] = r]
  <2>1. r \in Worker
    <3>1. s.workers[w] \in Worker
      BY DEF Good, State
    <3>2. QED BY <3>1 DEF Worker, WorkerPhases
  <2>2. Created(s, w, reply) = Lifetime(t, w, reply.short)
    BY <1>3 DEF Created, Good, State
  <2>3. Ordered(t)
    BY LaunchOrdered
  <2> HIDE DEF r
  <2>4. Good(t)
    BY <2>1, NoRooms, WorkerChanged DEF ServingPhases
  <2> HIDE DEF t
  <2>5. QED BY <2>2, <2>3, <2>4, LifetimeOrdered
<1>4. QED BY <1>1, <1>2, <1>3 DEF PostAnswers

-----------------------------------------------------------------------------
(* The commands: every step.                                               *)

\* Records that change in none of the fields of the drain.
LEMMA FieldOrdered ==
  ASSUME NEW s, Good(s), Ordered(s), NEW w \in Workers, NEW r, r.state = WorkerPhase(s, w),
         r.draining = s.workers[w].draining, r.drainAck = s.workers[w].drainAck
  PROVE  Ordered([s EXCEPT !.workers[w] = r])
<1>1. DrainKept(s.workers[w], r)
  BY DEF DrainKept
<1>2. QED BY <1>1, OneWorkerOrdered

LEMMA ClientOrdered ==
  ASSUME IInv, Ordered(store), Client
  PROVE  Ordered(store')
<1>0. Good(store) /\ \A w \in Workers : store.workers[w] \in Worker
  BY IInvUse DEF Good, State
<1>1. ASSUME NEW users \in Pairs, NEW key \in Keys, Allocate(users, key)
      PROVE  Ordered(store')
  BY <1>0, <1>1, AddAllocationOrdered DEF Allocate, Commit, NextSlot
<1>2. ASSUME NEW a \in Allocs, CancelByPlayer(a)
      PROVE  Ordered(store')
  <2>1. store' = Cancel(store, {a}, "cancelled") /\ {a} \in SUBSET Allocs
    BY <1>2 DEF CancelByPlayer, Commit
  <2>2. QED BY <1>0, <2>1, CancelOrdered DEF Ordered, Reasons
<1>3. ASSUME NEW a \in Allocs, Join(a)
      PROVE  Ordered(store')
  BY <1>0, <1>3, ReserveOrdered DEF Join, Commit
<1>4. ASSUME NEW w \in Workers, NEW n \in Capacities, Create(w, n)
      PROVE  Ordered(store')
  BY <1>0, <1>4, AddWorkerOrdered DEF Create, Commit
<1>5. ASSUME NEW w \in Workers, NEW n \in Capacities, NEW users \in Pairs, CreateWithUsers(w, n, users)
      PROVE  Ordered(store')
  <2> DEFINE t == AddWorker(store, w, n)
  <2>1. Good(t) /\ Ordered(t) /\ t.allocations = store.allocations
    BY <1>0, <1>5, AddWorkerGood, AddWorkerOrdered, InputsAssumption DEF CreateWithUsers, AddWorker, Good, State
  <2>2. \E a \in Allocs : NextSlot(store, a) /\ store' = AddAllocation(t, a, users, w, w)
    BY <1>5 DEF CreateWithUsers, Commit
  <2> HIDE DEF t
  <2>3. QED BY <2>1, <2>2, AddAllocationOrdered DEF NextSlot
<1>6. ASSUME NEW w \in Workers, Delete(w) \/ Drain(w)
      PROVE  Ordered(store')
  <2>1. store' = BeginDrain(store, {w}) /\ {w} \in SUBSET Workers
    BY <1>6 DEF Delete, Drain, Commit
  <2>2. QED BY <1>0, <2>1, BeginDrainOrdered
<1>7. ASSUME NEW w \in Workers, NEW some \in Posted, PostPlayers(w, some)
      PROVE  Ordered(store')
  <2> DEFINE r == [store.workers[w] EXCEPT !.players = some]
  <2>1. /\ r.state = store.workers[w].state /\ r.draining = store.workers[w].draining
        /\ r.drainAck = store.workers[w].drainAck
    BY <1>0 DEF Worker
  <2>2. store' = [store EXCEPT !.workers[w] = r]
    BY <1>7 DEF PostPlayers, Commit
  <2> HIDE DEF r
  <2>3. QED BY <1>0, <2>1, <2>2, FieldOrdered
<1>8. ASSUME RetryCreation
      PROVE  Ordered(store')
  <2>1. /\ store'.allocations = store.allocations /\ store'.workers = store.workers
        /\ store'.commands = store.commands
    BY <1>0, <1>8 DEF RetryCreation, Commit, Good, State
  <2>2. QED BY <2>1, OnlyRoomsOrdered DEF RoomKept
<1>9. QED BY <1>1, <1>2, <1>3, <1>4, <1>5, <1>6, <1>7, <1>8 DEF Client

LEMMA AgentOrdered ==
  ASSUME IInv, Ordered(store), Agent \/ Time
  PROVE  Ordered(store')
<1>0. Good(store) /\ \A w \in Workers : store.workers[w] \in Worker
  BY IInvUse DEF Good, State
<1>1. ASSUME NEW w \in Workers, Bootstrap(w)
      PROVE  Ordered(store')
  <2> DEFINE r == [store.workers[w] EXCEPT !.boot = TRUE]
  <2>1. /\ r.state = store.workers[w].state /\ r.draining = store.workers[w].draining
        /\ r.drainAck = store.workers[w].drainAck
    BY <1>0 DEF Worker
  <2>2. store' = [store EXCEPT !.workers[w] = r]
    BY <1>1 DEF Bootstrap, Commit
  <2> HIDE DEF r
  <2>3. QED BY <1>0, <2>1, <2>2, FieldOrdered
<1>2. ASSUME NEW w \in Workers, Heartbeat(w)
      PROVE  Ordered(store')
  <2> DEFINE prepares == {k \in Pending(store, w) : k.type = "prepare_room"}
  <2>1. PICK ready \in BOOLEAN, metrics \in Readings, acks \in SUBSET Pending(store, w),
             report \in Reports(store, w) :
          \E late \in SUBSET acks, nacks \in SUBSET prepares :
            store' = HeartbeatTx(store, w, ready, metrics, acks, late, nacks, report)
    BY <1>2 DEF Heartbeat, Commit
  <2>2. PICK late \in SUBSET acks, nacks \in SUBSET prepares :
          store' = HeartbeatTx(store, w, ready, metrics, acks, late, nacks, report)
    BY <2>1
  <2>3. metrics \in Metrics /\ WorkerPhase(store, w) \notin Down
    BY <1>2, InputsAssumption DEF Heartbeat
  <2>4. QED BY <1>0, <2>2, <2>3, HeartbeatOrdered
<1>3. ASSUME NEW w \in Workers, NEW age, store' = [store EXCEPT !.workers[w].heartbeat = age]
      PROVE  Ordered(store')
  <2> DEFINE r == [store.workers[w] EXCEPT !.heartbeat = age]
  <2>1. /\ r.state = store.workers[w].state /\ r.draining = store.workers[w].draining
        /\ r.drainAck = store.workers[w].drainAck
    BY <1>0 DEF Worker
  <2>2. store' = [store EXCEPT !.workers[w] = r]
    BY <1>3
  <2> HIDE DEF r
  <2>3. QED BY <1>0, <2>1, <2>2, FieldOrdered
<1>4. ASSUME NEW w \in Workers, LifetimeEnds(w)
      PROVE  Ordered(store')
  <2> DEFINE r == [store.workers[w] EXCEPT !.ending = TRUE]
  <2>1. /\ r.state = store.workers[w].state /\ r.draining = store.workers[w].draining
        /\ r.drainAck = store.workers[w].drainAck
    BY <1>0 DEF Worker
  <2>2. store' = [store EXCEPT !.workers[w] = r]
    BY <1>4 DEF LifetimeEnds, Commit
  <2> HIDE DEF r
  <2>3. QED BY <1>0, <2>1, <2>2, FieldOrdered
<1>5. ASSUME NEW w \in Workers, HeartbeatAges(w)
      PROVE  Ordered(store')
  BY <1>3, <1>5 DEF HeartbeatAges, Commit
<1>6. QED BY <1>1, <1>2, <1>4, <1>5 DEF Agent, Time

LEMMA ControllerOrdered ==
  ASSUME IInv, Ordered(store), NEW c \in Controllers,
         \/ TickTx(c) \/ Pick(c) \/ PickNone(c) \/ Refused(c) \/ Crash(c)
         \/ StartBegin(c) \/ Post(c) \/ PostUnknown(c) \/ PostCreated(c) \/ PostRejected(c)
         \/ StartEnd(c) \/ ListCall(c) \/ ReconcileEnd(c) \/ GetCall(c) \/ PollEnd(c)
         \/ StopCheck(c) \/ StopBusy(c) \/ DeleteCall(c) \/ ConfirmCall(c) \/ StopEnd(c)
  PROVE  Ordered(store')
<1> DEFINE w == ctl[c].worker
           reply == ctl[c].reply
<1>0. /\ Good(store) /\ Formed(ctl[c]) /\ (Leads(c) => Fits(store, ctl[c]))
      /\ reply \in Reply
  BY IInvUse DEF IInv, TypeOK, Control
<1>1. CASE store' = store
  BY <1>1
<1>2. CASE StartBegin(c)
  <2>1. /\ WorkerPhase(store, w) = "requested" /\ store' = SetPhase(store, {w}, "starting")
    BY <1>2 DEF StartBegin
  <2>2. \A v \in {w} \cap Workers : ~store.workers[v].draining
    BY <2>1, NotDraining DEF DrainPhases, ServingPhases
  <2> HIDE DEF w
  <2>3. QED BY <1>0, <2>1, <2>2, SetPhaseOrdered
<1>3. CASE StartEnd(c) /\ Leads(c)
  <2>1. At(c, "posted") /\ store' = Created(store, w, reply)
    BY <1>3 DEF StartEnd
  <2>2. w \in Workers /\ WorkerPhase(store, w) = "starting" /\ reply.status \in PostAnswers
        /\ reply.short \in BOOLEAN
    BY <1>0, <1>3, <2>1 DEF At, Formed, Fits, Reply
  <2> HIDE DEF w, reply
  <2>3. QED BY <1>0, <2>1, <2>2, CreatedOrdered
<1>4. CASE ReconcileEnd(c) /\ store' # store
  <2>1. /\ At(c, "listed") /\ WorkerPhase(store, w) = "unknown" /\ store' = Adopt(store, w)
    BY <1>4 DEF ReconcileEnd
  <2>2. w \in Workers
    BY <1>0, <2>1 DEF At, Formed
  <2>3. store' = [store EXCEPT !.workers[w] = [store.workers[w] EXCEPT !.provider = TRUE, !.state = "launching"]]
    BY <1>0, <2>1 DEF Adopt, Good, State
  <2> HIDE DEF w
  <2>4. Ordered([store EXCEPT !.workers[w] = [store.workers[w] EXCEPT !.provider = TRUE, !.state = "launching"]])
    BY <1>0, <2>1, <2>2, LaunchOrdered
  <2>5. QED BY <2>3, <2>4
<1>5. CASE PollEnd(c) /\ Leads(c)
  <2>1. At(c, "got") /\ \E overdue \in BOOLEAN : store' = Poll(store, w, reply, overdue)
    BY <1>5 DEF PollEnd
  <2>2. w \in Workers /\ WorkerPhase(store, w) \in Polled /\ reply.status \in PollAnswers
        /\ reply.short \in BOOLEAN
    BY <1>0, <1>5, <2>1 DEF At, Formed, Fits, Reply
  <2> HIDE DEF w, reply
  <2>3. QED BY <1>0, <2>1, <2>2, PollOrdered
<1>6. CASE StopEnd(c) /\ store' # store
  <2>1. /\ At(c, "confirmed") /\ Leads(c) /\ store' = Close(store, {w}, "stopped")
    BY <1>6 DEF StopEnd, Stopped
  <2>2. {w} \in SUBSET Workers
    BY <1>0, <2>1 DEF At, Formed
  <2> HIDE DEF w
  <2>3. QED BY <1>0, <2>1, <2>2, CloseOrdered
<1>7. CASE TickTx(c)
  BY <1>0, <1>7, TickOrdered
<1>8. \/ store' = store \/ StartBegin(c) \/ (StartEnd(c) /\ Leads(c)) \/ ReconcileEnd(c)
      \/ (PollEnd(c) /\ Leads(c)) \/ StopEnd(c) \/ TickTx(c)
  BY DEF Pick, PickNone, Refused, Crash, Post, PostUnknown, PostCreated, PostRejected, StartEnd,
     ListCall, GetCall, PollEnd, StopCheck, StopBusy, DeleteCall, ConfirmCall
<1>9. QED BY <1>1, <1>2, <1>3, <1>4, <1>5, <1>6, <1>7, <1>8

LEMMA OrderedStep ==
  ASSUME IInv, Ordered(store), [Next]_vars
  PROVE  Ordered(store')
<1>1. CASE Client
  BY <1>1, ClientOrdered
<1>2. CASE Agent \/ Time
  BY <1>2, AgentOrdered
<1>3. CASE Controller
  BY <1>3, ControllerOrdered DEF Controller
<1>4. CASE Provider \/ UNCHANGED vars
  BY <1>4 DEF Provider, Land, Run, Halt, Machine, vars
<1>5. QED BY <1>1, <1>2, <1>3, <1>4 DEF Next

LEMMA InitOrdered == Init => Ordered(store)
<1> SUFFICES ASSUME Init PROVE Ordered(New)
  BY DEF Init
<1>1. \A a \in Allocs : OrderOf(New, a)
  BY DEF New, OrderOf, NoAllocation
<1>2. \A w \in Workers : DrainOf(New, w)
  BY DEF New, DrainOf, DrainFits, NoWorker
<1>3. QED BY <1>1, <1>2 DEF Ordered

\* The outbox and the rooms never disagree: a preparation is deliverable exactly
\* while its room is being prepared, a cleanup while its room is being cancelled,
\* and a drain order from the moment the worker drains until it is acknowledged
\* or the worker is given up (cancel, stopped, lost and results in
\* pkg/fleetmanager write rooms, workers and commands in one transaction).
THEOREM OrdersFollowRooms == Spec => []OutboxMatchesRooms
<1>1. Ordered(store) => OutboxMatchesRooms
  BY Zenon DEF Ordered, OrderOf, DrainOf, DrainFits, OutboxMatchesRooms, Phase, WorkerPhase
<1>2. IInv /\ Ordered(store) /\ [Next]_vars => Ordered(store)'
  BY OrderedStep
<1>3. QED BY <1>1, <1>2, InitOrdered, Invariant, PTL DEF Spec

-----------------------------------------------------------------------------
(* The rooms of a worker.                                                  *)

Within(s) == \A w \in Workers : Occupied(s, w) <= s.workers[w].maxRooms

LEMMA RoomsFinite ==
  ASSUME NEW s, NEW w
  PROVE  IsFiniteSet(Rooms(s, w)) /\ Occupied(s, w) \in Nat
<1>1. IsFiniteSet(Allocs)
  BY FS_Interval, SlotsAssumption DEF Allocs
<1>2. Rooms(s, w) \in SUBSET Allocs
  BY DEF Rooms
<1>3. QED BY <1>1, <1>2, FS_Subset, FS_CardinalityType DEF Occupied

\* A body that gives no worker a room keeps the workers within their limits.
LEMMA FewerRooms ==
  ASSUME NEW s, Good(s), NEW t, Good(t), Within(s),
         \A w \in Workers : Rooms(t, w) \subseteq Rooms(s, w),
         \A w \in Workers : \/ t.workers[w].maxRooms = s.workers[w].maxRooms
                             \/ WorkerPhase(s, w) = "absent" \/ WorkerPhase(t, w) = "pruned"
  PROVE  Within(t)
<1> SUFFICES ASSUME NEW w \in Workers PROVE Occupied(t, w) <= t.workers[w].maxRooms
  BY DEF Within
<1>1. t.workers[w].maxRooms \in Nat /\ s.workers[w].maxRooms \in Nat
  BY LimitsAssumption DEF Good, State, Worker
<1>2. CASE Rooms(t, w) = {}
  BY <1>1, <1>2, FS_EmptySet DEF Occupied
<1>3. CASE Rooms(t, w) # {}
  <2>1. WorkerPhase(s, w) # "absent" /\ WorkerPhase(t, w) # "pruned"
    BY <1>3, NoRooms DEF ServingPhases
  <2>2. Occupied(t, w) <= Occupied(s, w)
    BY RoomsFinite, FS_Subset DEF Occupied
  <2>3. Occupied(t, w) \in Nat /\ Occupied(s, w) \in Nat
    BY RoomsFinite
  <2>4. Occupied(s, w) <= s.workers[w].maxRooms
    BY DEF Within
  <2>5. QED BY <1>1, <2>1, <2>2, <2>3, <2>4
<1>4. QED BY <1>2, <1>3

\* Rooms that move on without being placed leave no worker with more of them.
LEMMA UnplacedRooms ==
  ASSUME NEW s, NEW t, RoomsOnward(s, t), Unplaced(s, t), NEW w \in Workers
  PROVE  Rooms(t, w) \subseteq Rooms(s, w)
<1>1. ASSUME NEW a \in Allocs, InProgress(t, a)
      PROVE  InProgress(s, a) /\ t.allocations[a].worker = s.allocations[a].worker
  BY <1>1, RoomWas DEF RoomsOnward, Unplaced
<1>2. QED BY <1>1 DEF Rooms

\* The same of whole bodies, whose workers keep their limit or stop being used.
LEMMA MoveWithin ==
  ASSUME NEW s, Good(s), NEW t, Good(t), Within(s), RoomsOnward(s, t), Unplaced(s, t),
         \A w \in Workers : \/ WorkerOnward(s.workers[w], t.workers[w])
                             \/ WorkerStopped(s.workers[w], t.workers[w])
  PROVE  Within(t)
<1>1. \A w \in Workers : Rooms(t, w) \subseteq Rooms(s, w)
  BY UnplacedRooms
<1>2. \A w \in Workers : \/ t.workers[w].maxRooms = s.workers[w].maxRooms
                          \/ WorkerPhase(s, w) = "absent" \/ WorkerPhase(t, w) = "pruned"
  BY DEF WorkerOnward, WorkerStopped
<1>3. QED BY <1>1, <1>2, FewerRooms

LEMMA OnwardWithin ==
  ASSUME NEW s, Good(s), NEW t, Good(t), Within(s), Onward(s, t)
  PROVE  Within(t)
  BY MoveWithin DEF Onward, RoomsMove, WorkersOnward

\* A finite set of numbers has a largest one.
LEMMA LargestNumber ==
  ASSUME NEW n \in Nat, NEW S \in SUBSET (1 .. n), S # {}
  PROVE  \E m \in S : \A x \in S : x <= m
<1> DEFINE T == {n - x : x \in S}
<1>1. T \subseteq Nat /\ T # {}
  OBVIOUS
<1>2. PICK y \in T : \A z \in T : ~(<<z, y>> \in OpToRel(<, Nat))
  <2> HIDE DEF T
  <2>1. QED BY <1>1, WFMin, NatLessThanWellFounded, Zenon
<1>3. PICK m \in S : y = n - m
  OBVIOUS
<1>4. ASSUME NEW x \in S PROVE x <= m
  <2>1. n - x \in T /\ n - x \in Nat /\ y \in Nat
    BY <1>1
  <2>2. ~(n - x < y)
    BY <1>2, <2>1 DEF OpToRel
  <2>3. QED BY <1>3, <2>2
<1>5. QED BY <1>4

\* Of some waiting requests one is the last to be placed.
LEMMA LastPlaced ==
  ASSUME NEW s, NEW S \in SUBSET Allocs, S # {}
  PROVE  \E m \in S : \A b \in S \ {m} : Before(s, b, m)
<1> DEFINE Q == {a \in S : s.allocations[a].preferred = None}
<1>1. S \in SUBSET (1 .. AllocSlots) /\ AllocSlots \in Nat
  BY SlotsAssumption DEF Allocs
<1>2. CASE Q # {}
  <2>1. PICK m \in Q : \A x \in Q : x <= m
    BY <1>1, <1>2, LargestNumber
  <2>2. ASSUME NEW b \in S \ {m} PROVE Before(s, b, m)
    <3>1. m \in Nat /\ b \in Nat /\ s.allocations[m].preferred = None
      BY <1>1
    <3>2. CASE b \in Q
      <4>1. b < m
        BY <2>1, <3>1, <3>2
      <4>2. QED BY <3>1, <3>2, <4>1 DEF Before
    <3>3. CASE b \notin Q
      BY <3>1, <3>3 DEF Before
    <3>4. QED BY <3>2, <3>3
  <2>3. QED BY <2>2
<1>3. CASE Q = {}
  <2>1. PICK m \in S : \A x \in S : x <= m
    BY <1>1, LargestNumber
  <2>2. ASSUME NEW b \in S \ {m} PROVE Before(s, b, m)
    <3>1. m \in Nat /\ b \in Nat
      BY <1>1
    <3>2. \A x \in S : s.allocations[x].preferred # None
      BY <1>3
    <3>3. b < m
      BY <2>1, <3>1
    <3>4. s.allocations[m].preferred # None /\ s.allocations[b].preferred # None
      BY <3>2
    <3>5. QED BY <3>3, <3>4, Zenon DEF Before
  <2>3. QED BY <2>2
<1>4. QED BY <1>2, <1>3

\* The last request placed on a worker found a free room there, the requests
\* placed before it counted.
LEMMA PlaceWithin ==
  ASSUME NEW s, Good(s), Tidy(s), Within(s), NEW f \in Placements(s)
  PROVE  Within(Place(s, f))
<1> DEFINE t == Place(s, f)
           On(w) == {a \in Waiting(s) : f[a] = w}
           Earlier(a, w) == {b \in Waiting(s) : Before(s, b, a) /\ f[b] = w}
           Load(a, w) == Occupied(s, w) + Cardinality(Earlier(a, w))
<1>1. f \in [Waiting(s) -> Workers \cup {None}] /\ Waiting(s) \subseteq Allocs
  BY DEF Placements, Waiting
<1>2. ASSUME NEW a \in Waiting(s), f[a] # None
      PROVE  Load(a, f[a]) < s.workers[f[a]].maxRooms
  BY <1>2 DEF Placements
<1>3. ASSUME NEW w \in Workers
      PROVE  /\ Rooms(t, w) = Rooms(s, w) \cup On(w)
             /\ t.workers[w].maxRooms = s.workers[w].maxRooms
  <2>1. ASSUME NEW a \in Allocs
        PROVE  /\ a \in Waiting(s) /\ f[a] # None =>
                     t.allocations[a].state = "preparing" /\ t.allocations[a].worker = f[a]
               /\ ~(a \in Waiting(s) /\ f[a] # None) => t.allocations[a] = s.allocations[a]
    <3>1. t.allocations[a] = IF a \in Waiting(s) /\ f[a] # None
                             THEN [s.allocations[a] EXCEPT !.state = "preparing", !.worker = f[a]]
                             ELSE s.allocations[a]
      BY <1>1 DEF Place, Good, State
    <3>2. s.allocations[a] \in Allocation
      BY DEF Good, State
    <3> HIDE DEF t
    <3>3. QED BY <3>1, <3>2 DEF Allocation
  <2>2. \A a \in Waiting(s) : s.allocations[a].worker = None /\ s.allocations[a].state = "waiting_capacity"
    BY DEF Waiting, Tidy
  <2>3. t.workers[w] \in {s.workers[w], [s.workers[w] EXCEPT !.idle = FALSE]}
    BY DEF Place, Good, State
  <2>4. s.workers[w] \in Worker
    BY DEF Good, State
  <2> HIDE DEF t
  <2>5. t.workers[w].maxRooms = s.workers[w].maxRooms
    BY <2>3, <2>4 DEF Worker
  <2>6. ASSUME NEW a \in Allocs PROVE a \in Rooms(t, w) <=> a \in Rooms(s, w) \cup On(w)
    <3>1. CASE a \in Waiting(s) /\ f[a] # None
      BY <2>1, <2>2, <3>1, NoneAssumption DEF Rooms, InProgressPhases, WaitingPhases
    <3>2. CASE ~(a \in Waiting(s) /\ f[a] # None)
      <4>1. a \notin On(w)
        BY <3>2, NoneAssumption
      <4>2. t.allocations[a] = s.allocations[a]
        BY <2>1, <3>2
      <4> HIDE DEF On
      <4>3. QED BY <4>1, <4>2 DEF Rooms
    <3>3. QED BY <3>1, <3>2
  <2>7. Rooms(t, w) \subseteq Allocs /\ Rooms(s, w) \subseteq Allocs /\ On(w) \subseteq Allocs
    BY <1>1 DEF Rooms
  <2> HIDE DEF On
  <2>8. QED BY <2>5, <2>6, <2>7
<1>4. ASSUME NEW w \in Workers PROVE Occupied(t, w) <= t.workers[w].maxRooms
  <2>1. s.workers[w].maxRooms \in Nat /\ Occupied(s, w) \in Nat
    BY RoomsFinite, LimitsAssumption DEF Good, State, Worker
  <2>2. CASE On(w) = {}
    <3> HIDE DEF t, On
    <3>1. Occupied(t, w) = Occupied(s, w)
      BY <1>3, <2>2 DEF Occupied
    <3>2. QED BY <1>3, <3>1 DEF Within
  <2>3. CASE On(w) # {}
    <3>1. On(w) \in SUBSET Allocs
      BY <1>1
    <3>2. PICK m \in On(w) : \A b \in On(w) \ {m} : Before(s, b, m)
      <4> HIDE DEF On
      <4>1. QED BY <2>3, <3>1, LastPlaced
    <3>3. f[m] = w /\ m \in Waiting(s) /\ w # None
      BY <3>2, NoneAssumption
    <3>4. Load(m, w) < s.workers[w].maxRooms
      BY <1>2, <3>3
    <3>5. On(w) \ {m} \subseteq Earlier(m, w) /\ Earlier(m, w) \subseteq Allocs
      BY <1>1, <3>2
    <3>6. IsFiniteSet(Allocs)
      BY FS_Interval, SlotsAssumption DEF Allocs
    <3> HIDE DEF t, On, Earlier
    <3>7. /\ IsFiniteSet(On(w)) /\ Cardinality(On(w)) \in Nat
          /\ IsFiniteSet(Earlier(m, w)) /\ Cardinality(Earlier(m, w)) \in Nat
      BY <3>1, <3>5, <3>6, FS_Subset, FS_CardinalityType
    <3>8. Cardinality(On(w)) - 1 <= Cardinality(Earlier(m, w))
      <4>1. Cardinality(On(w) \ {m}) = Cardinality(On(w)) - 1
        BY <3>2, <3>7, FS_RemoveElement
      <4>2. Cardinality(On(w) \ {m}) <= Cardinality(Earlier(m, w))
        BY <3>5, <3>7, FS_Subset
      <4>3. QED BY <4>1, <4>2
    <3>9. Occupied(t, w) <= Occupied(s, w) + Cardinality(On(w))
      <4>1. IsFiniteSet(Rooms(s, w)) /\ IsFiniteSet(Rooms(s, w) \cap On(w))
        BY RoomsFinite, <3>7, FS_Subset
      <4>2. Cardinality(Rooms(s, w) \cap On(w)) \in Nat
        BY <4>1, FS_CardinalityType
      <4>3. Cardinality(Rooms(s, w) \cup On(w))
              = Cardinality(Rooms(s, w)) + Cardinality(On(w)) - Cardinality(Rooms(s, w) \cap On(w))
        BY <3>7, <4>1, FS_Union
      <4>4. Occupied(t, w) = Cardinality(Rooms(s, w) \cup On(w))
        BY <1>3 DEF Occupied
      <4>5. Occupied(s, w) = Cardinality(Rooms(s, w))
        BY DEF Occupied
      <4>6. QED BY <2>1, <3>7, <4>2, <4>3, <4>4, <4>5
    <3>10. Occupied(t, w) \in Nat
      BY RoomsFinite
    <3>11. QED BY <1>3, <2>1, <3>4, <3>7, <3>8, <3>9, <3>10
  <2>4. QED BY <2>2, <2>3
<1> HIDE DEF t
<1>5. QED BY <1>4 DEF Within, t

\* The lease transaction: only placing gives a worker rooms.
LEMMA TickWithin ==
  ASSUME NEW c \in Controllers, Good(store), Tidy(store), Within(store), TickTx(c)
  PROVE  Within(store')
<1>1. PICK aged, expired, pruned, trimmed, assigned, placed, scaled, last :
        TickChain(c, aged, expired, pruned, trimmed, assigned, placed, scaled, last)
  BY TickPhases
<1>2. /\ Good(aged) /\ Good(expired) /\ Good(pruned) /\ Good(trimmed) /\ Good(assigned)
      /\ Good(placed) /\ Good(scaled) /\ Good(last)
  BY <1>1 DEF TickChain
<1>3. RoomsOnward(store, aged) /\ WorkersOnward(store, aged) /\ Unplaced(store, aged)
  BY <1>1, AgeWorkersMoves DEF TickChain
<1>4. Within(aged) /\ Tidy(aged)
  BY <1>2, <1>3, MoveWithin, TidyOnward DEF WorkersOnward
<1>5. Onward(aged, assigned)
  <2>1. Onward(aged, expired)
    <3>1. PICK overdue \in SUBSET Expirable(aged) : expired = ExpireAllocations(aged, overdue)
      BY <1>1 DEF TickChain
    <3>2. Orphans(aged) \cup overdue \in SUBSET Allocs
      BY DEF Orphans, Expirable
    <3>3. RoomsMove(aged, expired) /\ expired.workers = aged.workers
      BY <1>2, <3>1, <3>2, CancelMoves DEF ExpireAllocations, Reasons
    <3>4. QED BY <3>3, OnwardReflexive DEF Onward
  <2>2. Onward(expired, pruned)
    BY <1>1, PruneAllocationsMoves, OnwardReflexive DEF TickChain, Onward
  <2>3. Onward(pruned, trimmed)
    BY <1>1, PruneWorkersOnward DEF TickChain
  <2>4. Onward(trimmed, assigned)
    BY <1>1, ReserveMoves, OnwardReflexive DEF TickChain, AssignPrepared, Onward
  <2>5. QED BY <2>1, <2>2, <2>3, <2>4, OnwardTransitive
<1>6. Within(assigned) /\ Tidy(assigned)
  BY <1>2, <1>4, <1>5, OnwardWithin, TidyOnward DEF Onward, RoomsMove
<1>7. Within(placed)
  BY <1>1, <1>2, <1>6, PlaceWithin DEF TickChain
<1>8. Onward(placed, scaled) /\ Onward(scaled, last)
  BY <1>1, ScaleOutOnward, ScaleInOnward DEF TickChain
<1>9. Within(last)
  BY <1>2, <1>7, <1>8, OnwardWithin
<1>10. store'.allocations = last.allocations /\ store'.workers = last.workers
  BY <1>1 DEF TickChain, Good, State
<1>11. QED BY <1>9, <1>10 DEF Within, Occupied, Rooms

\* A new allocation has no worker yet.
LEMMA AddedWithin ==
  ASSUME NEW s, Good(s), NEW t, Good(t), Within(s), Added(s, t)
  PROVE  Within(t)
<1>1. PICK a \in Allocs : /\ t.allocations[a].worker = None
                          /\ \A b \in Allocs \ {a} : t.allocations[b] = s.allocations[b]
  BY AddedRooms
<1>2. \A w \in Workers : Rooms(t, w) \subseteq Rooms(s, w)
  BY <1>1, NoneAssumption DEF Rooms
<1>3. \A w \in Workers : \/ t.workers[w].maxRooms = s.workers[w].maxRooms
                          \/ WorkerPhase(s, w) = "absent" \/ WorkerPhase(t, w) = "pruned"
  BY DEF Added, WorkersOnward, WorkerOnward
<1>4. QED BY <1>2, <1>3, FewerRooms

LEMMA WithinStep ==
  ASSUME MovesInv, Within(store), [Next]_vars
  PROVE  Within(store')
<1>1. IInv /\ Tidy(store) /\ Good(store) /\ Good(store')
  <2>1. IInv /\ IInv' /\ Tidy(store)
    BY NextMoves DEF MovesInv
  <2>2. QED BY <2>1, IInvUse DEF IInv, TypeOK, Good
<1>2. CASE Lives(store, store') /\ Unplaced(store, store')
  BY <1>1, <1>2, MoveWithin DEF Lives
<1>3. CASE Added(store, store')
  BY <1>1, <1>3, AddedWithin
<1>4. ASSUME NEW c \in Controllers, TickTx(c) PROVE Within(store')
  BY <1>1, <1>4, TickWithin
<1>5. QED BY <1>1, <1>2, <1>3, <1>4, StepMoves DEF Moves

LEMMA InitWithin == Init => Within(store)
<1> SUFFICES ASSUME Init PROVE Within(store)
  OBVIOUS
<1>1. Good(store) /\ \A a \in Allocs : Phase(store, a) = "absent"
  BY NewGood DEF Init, New, NoAllocation
<1>2. \A w \in Workers : Rooms(store, w) = {}
  BY <1>1 DEF Rooms, InProgressPhases, WaitingPhases
<1>3. ASSUME NEW w \in Workers
      PROVE  Occupied(store, w) = 0 /\ store.workers[w].maxRooms \in Nat
  <2>1. Occupied(store, w) = 0
    BY <1>2, FS_EmptySet DEF Occupied
  <2>2. store.workers[w] \in Worker
    BY <1>1 DEF Good, State
  <2>3. store.workers[w].maxRooms \in Nat
    BY <2>2, LimitsAssumption DEF Worker
  <2>4. QED BY <2>1, <2>3
<1>4. QED BY <1>3 DEF Within

\* No worker is given more rooms than it was created for, however many requests a
\* tick places at once and whatever happens to the rooms it counted.
THEOREM WorkersKeepTheirLimit == Spec => []CapacityNeverExceeded
<1>1. Within(store) <=> CapacityNeverExceeded
  BY DEF Within, CapacityNeverExceeded
<1>2. MovesInv /\ Within(store) /\ [Next]_vars => Within(store)'
  BY WithinStep DEF Within
<1>3. QED BY <1>1, <1>2, InitWithin, MovesInvariant, PTL DEF Spec

=============================================================================
