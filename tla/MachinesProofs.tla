--------------------------- MODULE MachinesProofs ---------------------------
(***************************************************************************)
(* No machine is started twice, forgotten or overlooked, for any number of *)
(* workers, machines and lost calls, any size of a page and whatever the   *)
(* provider's order of a list.                                             *)
(***************************************************************************)
EXTENDS Machines, FiniteSetTheorems, TLAPS

Statuses == {"launching", "running", "stopped"}
Machine == [owner : Workers \cup {Other}, status : Statuses]
Phases == {"requested", "starting", "unknown", "launching", "stopping", "lost", "stopped", "failed"}
WorkerRecord == [phase : Phases, id : Nat, review : BOOLEAN]
Reply == [status : {0, 200, 201, 429, 503}, id : Nat, is : Statuses \cup {"none"},
          servers : SUBSET Nat, more : BOOLEAN]
ProviderCall ==
    [op : {"start", "list", "get", "delete", "confirm"}, worker : Workers,
     step : {"asked", "answered", "listed"}, reply : {<<>>} \cup Reply, offset : Nat,
     found : SUBSET (Nat \X Nat), was : SUBSET Nat, gone : SUBSET Nat]

TypeOK == /\ machines \in Seq(Machine)
          /\ worker \in [Workers -> WorkerRecord]
          /\ call \in ProviderCall \cup {NoCall}
          /\ late \subseteq Workers

Without(w) == \A i \in Ids : machines[i].owner # w
Asking(w) == call # NoCall /\ call.op = "start" /\ call.step = "asked" /\ call.worker = w
Holds(w, i) == i \in Ids /\ machines[i].owner = w

\* A worker has either no machine and at most one request for one on its way,
\* or no such request; what it names is its own, and it is given up only when
\* neither is left.
Sane(w) ==
    /\ w \in late => ~Asking(w)
    /\ w \in late \/ Asking(w) => Without(w)
    /\ worker[w].phase = "requested" => w \notin late /\ ~Asking(w) /\ Without(w)
    /\ worker[w].phase \in {"launching", "stopping"} => worker[w].id # 0
    /\ worker[w].id # 0 => Holds(w, worker[w].id)
    /\ worker[w].phase \in {"failed", "stopped"} =>
          w \notin late /\ ~Asking(w) /\ \A i \in Ids : machines[i].owner = w => ~Up(i)
    /\ ~worker[w].review

\* What an answer says is still true of a machine that is there or stopped.
Truthful(w, reply) ==
    /\ call.op = "start" =>
          /\ reply.status \in {201, 429, 503} /\ w \notin late
          /\ reply.status = 201 => Holds(w, reply.id)
          /\ reply.status = 429 => Without(w)
    /\ call.op \in {"get", "confirm"} /\ reply.is = "stopped" =>
          machines[worker[w].id].status = "stopped"

CallSound ==
    call # NoCall =>
        /\ call.op = "start" => worker[call.worker].phase = "starting"
        /\ call.op = "list" => worker[call.worker].phase = "unknown"
        /\ call.op = "get" => worker[call.worker].phase \in {"launching", "lost"}
        /\ call.op \in {"get", "delete", "confirm"} => worker[call.worker].id # 0
        /\ call.op \in {"delete", "confirm"} => worker[call.worker].phase = "stopping"
        /\ call.step = "listed" => call.op = "list"
        /\ call.step = "answered" => call.reply \in Reply /\ Truthful(call.worker, call.reply)

Gone == {i \in Ids : ~Up(i)}

\* A list shows machines that exist, each once.
ListSound ==
    call # NoCall =>
        /\ Seen(call.found) \subseteq Ids
        /\ \A r, q \in call.found : r[1] = q[1] => r = q
        /\ call.step = "answered" /\ call.op = "list" => call.reply.servers \subseteq Ids
        /\ call.was \subseteq Ids \ call.gone
        /\ call.gone \subseteq Gone

\* While no machine stops, a machine that was up when the list began can only
\* move to a later place, so those on the pages read so far have been seen.
ListCovers ==
    (call # NoCall /\ call.op = "list" /\ Gone = call.gone) =>
        /\ call.step = "asked" =>
              \A i \in call.was : Cardinality(Before(i)) < call.offset => i \in Seen(call.found)
        /\ call.step = "answered" /\ call.reply.status = 200 =>
              \A i \in call.was :
                  (~call.reply.more \/ Cardinality(Before(i)) < call.offset + PageSize)
                      => i \in Seen(call.found) \cup call.reply.servers
        /\ call.step = "listed" => call.was \subseteq Seen(call.found)

Inv == TypeOK /\ OneMachine /\ (\A w \in Workers : Sane(w)) /\ CallSound /\ ListSound /\ ListCovers

-----------------------------------------------------------------------------
(* What a step does to the machines.                                       *)

\* One was added, or the status of one was changed for good.
Added(o) == /\ Len(machines') = Len(machines) + 1
            /\ \A i \in Ids : machines'[i] = machines[i]
            /\ machines'[Len(machines) + 1] = [owner |-> o, status |-> "launching"]
Onward == /\ Ids \subseteq Ids'
          /\ \A i \in Ids : /\ machines'[i].owner = machines[i].owner
                            /\ ~Up(i) => machines'[i].status = "stopped"
NoNew(w) == \A i \in Ids' \ Ids : machines'[i].owner # w

LEMMA MachineFacts ==
  ASSUME TypeOK
  PROVE  /\ Len(machines) \in Nat /\ Ids \subseteq Nat
         /\ \A i \in Ids : machines[i] \in Machine
BY DEF TypeOK, Ids

LEMMA AppendAdds ==
  ASSUME TypeOK, NEW o \in Workers \cup {Other},
         machines' = Append(machines, [owner |-> o, status |-> "launching"])
  PROVE  /\ machines' \in Seq(Machine) /\ Added(o) /\ Onward
         /\ Ids' = Ids \cup {Len(machines) + 1} /\ Len(machines) + 1 \notin Ids
         /\ \A w : w # o => NoNew(w)
         /\ Gone' = Gone
<1> DEFINE m == [owner |-> o, status |-> "launching"]
<1>1. m \in Machine /\ m.owner = o /\ m.status = "launching"
  BY DEF Machine, Statuses
<1>2. machines \in Seq(Machine) /\ Len(machines) \in Nat
  BY DEF TypeOK
<1> HIDE DEF m
<1>3. machines' = Append(machines, m)
  BY DEF m
<1>4. /\ machines' \in Seq(Machine) /\ Len(machines') = Len(machines) + 1
      /\ \A i \in 1 .. Len(machines) : machines'[i] = machines[i]
      /\ machines'[Len(machines) + 1] = m
  BY <1>1, <1>2, <1>3
<1>5. Added(o)
  BY <1>4 DEF Added, Ids, m
<1>6. Ids' = Ids \cup {Len(machines) + 1} /\ Len(machines) + 1 \notin Ids
  BY <1>2, <1>4 DEF Ids
<1>7. Onward
  <2>1. \A i \in Ids : machines[i].status \in Statuses
    BY MachineFacts DEF Machine
  <2>2. QED BY <1>4, <1>6, <2>1 DEF Onward, Ids, Up
<1>8. \A w : w # o => NoNew(w)
  BY <1>1, <1>4, <1>6 DEF NoNew
<1>9. Gone' = Gone
  <2>1. \A i \in Ids : Up(i)' <=> Up(i)
    BY <1>4 DEF Up, Ids
  <2>2. PICK n \in Nat : n = Len(machines) + 1
    BY <1>2
  <2>3. Up(n)' /\ Ids' = Ids \cup {n}
    BY <1>1, <1>4, <1>6, <2>2 DEF Up
  <2>4. QED BY <2>1, <2>3 DEF Gone
<1>10. QED BY <1>4, <1>5, <1>6, <1>7, <1>8, <1>9

LEMMA StatusChanges ==
  ASSUME TypeOK, NEW i \in Ids, NEW s \in Statuses, Up(i) \/ s = "stopped",
         machines' = [machines EXCEPT ![i].status = s]
  PROVE  /\ machines' \in Seq(Machine) /\ Ids' = Ids /\ Onward
         /\ machines'[i].status = s
         /\ \A w : NoNew(w)
<1>1. machines \in Seq(Machine) /\ Len(machines) \in Nat /\ machines[i] \in Machine /\ i \in 1 .. Len(machines)
  BY MachineFacts DEF TypeOK, Ids
<1> DEFINE m == [machines[i] EXCEPT !.status = s]
<1>2. m \in Machine /\ m.status = s /\ m.owner = machines[i].owner
  BY <1>1 DEF Machine
<1>3. machines' = [machines EXCEPT ![i] = m]
  BY <1>1
<1> HIDE DEF m
<1>4. /\ machines' \in Seq(Machine) /\ Len(machines') = Len(machines)
      /\ \A j \in 1 .. Len(machines) : machines'[j] = IF j = i THEN m ELSE machines[j]
  BY <1>1, <1>2, <1>3
<1>5. Ids' = Ids
  BY <1>4 DEF Ids
<1>6. \A j \in Ids : machines'[j] = IF j = i THEN m ELSE machines[j]
  BY <1>4 DEF Ids
<1>7. Onward
  <2> SUFFICES ASSUME NEW j \in Ids
               PROVE  /\ machines'[j].owner = machines[j].owner
                      /\ ~Up(j) => machines'[j].status = "stopped"
    BY <1>5 DEF Onward
  <2>1. CASE j = i
    BY <1>2, <1>6, <2>1 DEF Up
  <2>2. CASE j # i
    BY <1>6, <2>2 DEF Up
  <2>3. QED BY <2>1, <2>2
<1>8. QED BY <1>2, <1>4, <1>5, <1>6, <1>7 DEF NoNew

LEMMA SameMachines ==
  ASSUME machines' = machines
  PROVE  Ids' = Ids /\ Onward /\ Gone' = Gone /\ \A w : NoNew(w)
BY DEF Ids, Onward, Gone, Up, NoNew

-----------------------------------------------------------------------------
(* The parts of the invariant that a step leaves alone.                    *)

LEMMA OneStays ==
  ASSUME TypeOK, OneMachine, Onward, \A w \in Workers : NoNew(w)
  PROVE  OneMachine'
<1> SUFFICES ASSUME NEW i \in Ids', NEW j \in Ids', machines'[i].owner = machines'[j].owner,
                    machines'[i].owner \in Workers
             PROVE  i = j
  BY DEF OneMachine
<1>1. i \in Ids /\ j \in Ids
  BY DEF NoNew
<1>2. machines[i].owner = machines[j].owner /\ machines[i].owner \in Workers
  BY <1>1 DEF Onward
<1>3. QED BY <1>1, <1>2 DEF OneMachine

LEMMA OneMore ==
  ASSUME TypeOK, OneMachine, Onward, NEW o, Without(o),
         Ids' = Ids \cup {Len(machines) + 1}, Added(o)
  PROVE  OneMachine'
<1> SUFFICES ASSUME NEW i \in Ids', NEW j \in Ids', machines'[i].owner = machines'[j].owner,
                    machines'[i].owner \in Workers
             PROVE  i = j
  BY DEF OneMachine
<1>1. \A k \in Ids : machines'[k].owner = machines[k].owner /\ machines'[k].owner # o
  BY DEF Onward, Without
<1>2. machines'[Len(machines) + 1].owner = o
  BY DEF Added
<1>3. CASE i \in Ids /\ j \in Ids
  BY <1>1, <1>3 DEF OneMachine
<1>4. QED BY <1>1, <1>2, <1>3

\* A worker that gets no machine and of which no request is born stays as it is.
LEMMA SaneStays ==
  ASSUME TypeOK, NEW w \in Workers, Sane(w), Onward, NoNew(w), worker'[w] = worker[w],
         w \in late' \/ Asking(w)' => w \in late \/ Asking(w), w \in late' => ~Asking(w)'
  PROVE  Sane(w)'
<1>1. Without(w) => Without(w)'
  BY DEF Without, Onward, NoNew
<1>2. Holds(w, worker[w].id) => Holds(w, worker[w].id)'
  BY DEF Holds, Onward
<1>3. (\A i \in Ids : machines[i].owner = w => ~Up(i)) => (\A i \in Ids' : machines'[i].owner = w => ~Up(i)')
  BY DEF Onward, NoNew, Up
<1>4. QED BY <1>1, <1>2, <1>3 DEF Sane

\* The request of a worker is acted on.
LEMMA SaneServed ==
  ASSUME TypeOK, NEW w \in Workers, Sane(w), w \in late \/ Asking(w), Onward, worker' = worker,
         w \notin late', ~Asking(w)'
  PROVE  Sane(w)'
<1>1. /\ Without(w) /\ worker[w].id = 0
      /\ worker[w].phase \notin {"requested", "failed", "stopped", "launching", "stopping"}
  BY DEF Sane, Without, Holds
<1>2. QED BY <1>1 DEF Sane

LEMMA CallStays ==
  ASSUME TypeOK, CallSound, Onward, call' = call, late' \subseteq late,
         \A w \in Workers : Sane(w), worker' = worker,
         call # NoCall => call.op # "start" \/ \A i \in Ids' \ Ids : machines'[i].owner # call.worker
  PROVE  CallSound'
<1> SUFFICES ASSUME call # NoCall
             PROVE  CallSound'
  BY DEF CallSound
<1> DEFINE w == call.worker
<1>1. call \in ProviderCall /\ w \in Workers
  BY DEF TypeOK, ProviderCall
<1>2. /\ call.op = "start" => worker[w].phase = "starting"
      /\ call.op = "list" => worker[w].phase = "unknown"
      /\ call.op = "get" => worker[w].phase \in {"launching", "lost"}
      /\ call.op \in {"get", "delete", "confirm"} => worker[w].id # 0
      /\ call.op \in {"delete", "confirm"} => worker[w].phase = "stopping"
      /\ call.step = "listed" => call.op = "list"
  BY DEF CallSound
<1>3. /\ call.op = "start" => worker'[w].phase = "starting"
      /\ call.op = "list" => worker'[w].phase = "unknown"
      /\ call.op = "get" => worker'[w].phase \in {"launching", "lost"}
      /\ call.op \in {"get", "delete", "confirm"} => worker'[w].id # 0
      /\ call.op \in {"delete", "confirm"} => worker'[w].phase = "stopping"
      /\ call.step = "listed" => call.op = "list"
  BY <1>2
<1>4. ASSUME call.step = "answered"
      PROVE  call.reply \in Reply /\ Truthful(w, call.reply)'
  <2>1. call.reply \in Reply /\ Truthful(w, call.reply)
    BY <1>4 DEF CallSound
  <2>2. call.op = "start" => /\ call.reply.status \in {201, 429, 503} /\ w \notin late'
                             /\ call.reply.status = 201 => Holds(w, call.reply.id)'
                             /\ call.reply.status = 429 => Without(w)'
    BY <2>1 DEF Truthful, Holds, Without, Onward
  <2>3. ASSUME call.op \in {"get", "confirm"}, call.reply.is = "stopped"
        PROVE  machines'[worker'[w].id].status = "stopped"
    <3>1. machines[worker[w].id].status = "stopped"
      BY <2>1, <2>3 DEF Truthful
    <3>2. worker[w].id # 0
      BY <1>2, <2>3
    <3>3. worker[w].id \in Ids
      BY <1>1, <3>2 DEF Sane, Holds
    <3>4. QED BY <3>1, <3>3 DEF Onward, Up
  <2>4. QED BY <2>1, <2>2, <2>3 DEF Truthful
<1>5. QED BY <1>3, <1>4 DEF CallSound

\* What comes before a machine in a list.
LEMMA BeforeFinite ==
  ASSUME TypeOK, NEW i
  PROVE  IsFiniteSet(Before(i)) /\ IsFiniteSet(Listed) /\ Cardinality(Before(i)) \in Nat /\ Cardinality(Listed) \in Nat
<1>1. IsFiniteSet(Ids)
  BY MachineFacts, FS_Interval DEF Ids
<1>2. IsFiniteSet(Listed)
  BY <1>1, FS_Subset DEF Listed
<1>3. IsFiniteSet(Before(i))
  BY <1>2, FS_Subset DEF Before
<1>4. QED BY <1>2, <1>3, FS_CardinalityType

LEMMA BeforeFiniteNext ==
  ASSUME TypeOK', NEW i
  PROVE  /\ IsFiniteSet(Before(i)') /\ Cardinality(Before(i))' \in Nat
<1>1. IsFiniteSet(Ids')
  <2>1. Len(machines') \in Nat
    BY DEF TypeOK
  <2>2. QED BY <2>1, FS_Interval DEF Ids
<1>2. IsFiniteSet(Before(i)')
  BY <1>1, FS_Subset DEF Before, Listed
<1>3. QED BY <1>2, FS_CardinalityType

LEMMA BeforeGrows ==
  ASSUME TypeOK, TypeOK', Onward, Gone' = Gone, order' = order, NEW i
  PROVE  Cardinality(Before(i)) <= Cardinality(Before(i))'
<1>1. Listed \subseteq Listed'
  BY DEF Listed, Gone, Onward
<1>2. Before(i) \subseteq Before(i)'
  BY <1>1 DEF Before
<1>3. IsFiniteSet(Before(i)')
  BY BeforeFiniteNext
<1>4. QED BY <1>2, <1>3, FS_Subset

LEMMA GoneGrows ==
  ASSUME Onward
  PROVE  Gone \subseteq Gone'
BY DEF Onward, Gone, Up

LEMMA ListSoundStays ==
  ASSUME ListSound, Onward, call' = call
  PROVE  ListSound'
<1>1. Gone \subseteq Gone' /\ Ids \subseteq Ids'
  BY GoneGrows DEF Onward
<1>2. QED BY <1>1 DEF ListSound

LEMMA ListCoversStays ==
  ASSUME TypeOK, TypeOK', ListSound, ListCovers, Onward, call' = call, order' = order
  PROVE  ListCovers'
<1> SUFFICES ASSUME call # NoCall, call.op = "list", Gone' = call.gone
             PROVE  ListCovers'
  BY DEF ListCovers
<1>1. Gone = call.gone
  BY GoneGrows DEF ListSound
<1>2. call \in ProviderCall /\ call.offset \in Nat
  BY DEF TypeOK, ProviderCall
<1>3. \A i \in call.was : /\ Cardinality(Before(i)) <= Cardinality(Before(i))'
                          /\ Cardinality(Before(i)) \in Nat /\ Cardinality(Before(i))' \in Nat
  BY <1>1, BeforeGrows, BeforeFinite, BeforeFiniteNext
<1>4. PageSize \in Nat
  BY PagesAssumption
<1>5. call.step = "asked" =>
          \A i \in call.was : Cardinality(Before(i))' < call.offset => i \in Seen(call.found)
  BY <1>1, <1>2, <1>3 DEF ListCovers
<1>6. call.step = "answered" /\ call.reply.status = 200 =>
          \A i \in call.was :
              (~call.reply.more \/ Cardinality(Before(i))' < call.offset + PageSize)
                  => i \in Seen(call.found) \cup call.reply.servers
  BY <1>1, <1>2, <1>3, <1>4 DEF ListCovers
<1>7. call.step = "listed" => call.was \subseteq Seen(call.found)
  BY <1>1 DEF ListCovers
<1>8. QED BY <1>5, <1>6, <1>7 DEF ListCovers

\* Without a call, or with one that is not a list, nothing is claimed of lists.
LEMMA NoListing ==
  ASSUME call' = NoCall \/ (call' \in ProviderCall /\ call'.op # "list" /\ call'.found = {} /\ call'.was = {} /\ call'.gone = {})
  PROVE  ListSound' /\ ListCovers'
BY DEF ListSound, ListCovers, Seen

-----------------------------------------------------------------------------
(* What goes on beside the call.                                           *)

LEMMA InvUse ==
  ASSUME Inv
  PROVE  TypeOK /\ OneMachine /\ (\A w \in Workers : Sane(w)) /\ CallSound /\ ListSound /\ ListCovers
BY DEF Inv

LEMMA OtherFacts == Other \notin Workers /\ PageSize \in Nat
BY PagesAssumption

LEMMA AdvanceStep ==
  ASSUME Inv, NEW i, Advance(i)
  PROVE  Inv'
<1>1. TypeOK /\ i \in Ids /\ Up(i) /\ UNCHANGED <<order, worker, call, late>>
  BY InvUse DEF Advance
<1>2. PICK s \in Statuses : machines' = [machines EXCEPT ![i].status = s]
  BY DEF Advance, Statuses
<1>3. machines' \in Seq(Machine) /\ Ids' = Ids /\ Onward /\ \A w : NoNew(w)
  BY <1>1, <1>2, StatusChanges
<1>4. TypeOK'
  BY <1>1, <1>3 DEF TypeOK
<1>5. OneMachine'
  BY <1>1, <1>3, InvUse, OneStays
<1>6. \A w \in Workers : Sane(w)'
  <2> SUFFICES ASSUME NEW w \in Workers PROVE Sane(w)'
    OBVIOUS
  <2>1. Sane(w) /\ (Asking(w)' <=> Asking(w))
    BY <1>1, InvUse DEF Asking
  <2>2. w \in late' => ~Asking(w)'
    BY <1>1, <2>1 DEF Sane
  <2>3. QED BY <1>1, <1>3, <2>1, <2>2, SaneStays
<1>7. CallSound'
  BY <1>1, <1>3, InvUse, CallStays
<1>8. ListSound' /\ ListCovers'
  BY <1>1, <1>3, <1>4, InvUse, ListSoundStays, ListCoversStays
<1>9. QED BY <1>4, <1>5, <1>6, <1>7, <1>8 DEF Inv

LEMMA ControlStep ==
  ASSUME Inv, UNCHANGED <<machines, order, worker, call, late>>
  PROVE  Inv'
<1>1. Onward /\ (\A w : NoNew(w)) /\ TypeOK /\ TypeOK'
  BY InvUse, SameMachines DEF TypeOK
<1>2. OneMachine'
  BY <1>1, InvUse, OneStays
<1>3. \A w \in Workers : Sane(w)'
  <2> SUFFICES ASSUME NEW w \in Workers PROVE Sane(w)'
    OBVIOUS
  <2>1. Sane(w) /\ (Asking(w)' <=> Asking(w))
    BY InvUse DEF Asking
  <2>2. w \in late' => ~Asking(w)'
    BY <2>1 DEF Sane
  <2>3. QED BY <1>1, <2>1, <2>2, SaneStays
<1>4. CallSound'
  BY <1>1, InvUse, SameMachines, CallStays
<1>5. ListSound' /\ ListCovers'
  BY <1>1, InvUse, ListSoundStays, ListCoversStays
<1>6. QED BY <1>1, <1>2, <1>3, <1>4, <1>5 DEF Inv

LEMMA OtherStartStep ==
  ASSUME Inv, OtherStart
  PROVE  Inv'
<1>1. /\ TypeOK /\ UNCHANGED <<order, worker, call, late>> /\ Other \in Workers \cup {Other}
      /\ machines' = Append(machines, [owner |-> Other, status |-> "launching"])
  BY InvUse DEF OtherStart
<1>2. machines' \in Seq(Machine) /\ Onward
  BY <1>1, AppendAdds
<1>3. \A w \in Workers : NoNew(w)
  BY <1>1, AppendAdds, OtherFacts
<1>4. TypeOK'
  BY <1>1, <1>2 DEF TypeOK
<1>5. OneMachine'
  BY <1>1, <1>2, <1>3, InvUse, OneStays
<1>6. \A w \in Workers : Sane(w)'
  <2> SUFFICES ASSUME NEW w \in Workers PROVE Sane(w)'
    OBVIOUS
  <2>1. Sane(w) /\ (Asking(w)' <=> Asking(w))
    BY <1>1, InvUse DEF Asking
  <2>2. w \in late' => ~Asking(w)'
    BY <1>1, <2>1 DEF Sane
  <2>3. QED BY <1>1, <1>2, <1>3, <2>1, <2>2, SaneStays
<1>7. call # NoCall => \A i \in Ids' \ Ids : machines'[i].owner # call.worker
  BY <1>1, <1>3 DEF TypeOK, ProviderCall, NoNew
<1>8. CallSound'
  BY <1>1, <1>2, <1>7, InvUse, CallStays
<1>9. ListSound' /\ ListCovers'
  BY <1>1, <1>2, <1>4, InvUse, ListSoundStays, ListCoversStays
<1>10. QED BY <1>4, <1>5, <1>6, <1>8, <1>9 DEF Inv

\* The server does what a POST asks for, or is at a limit.
LEMMA StartServed ==
  ASSUME TypeOK, NEW w \in Workers, NEW done, done = ServeHTTP("start", w, 0)
  PROVE  \/ done.machines = machines /\ done.reply = Answer(429)
         \/ /\ done.machines = Append(machines, [owner |-> w, status |-> "launching"])
            /\ \/ done.reply = Answer(503)
               \/ done.reply = [Answer(201) EXCEPT !.id = Len(Append(machines, [owner |-> w, status |-> "launching"]))]
<1>1. CASE faults.limited > 0
  BY <1>1 DEF ServeHTTP, Limit, Effect
<1>2. CASE ~(faults.limited > 0)
  <2>1. done = Start(w)
    BY <1>2 DEF ServeHTTP
  <2>2. QED BY <2>1 DEF Start, Effect
<1>3. QED BY <1>1, <1>2

LEMMA ServeLateStep ==
  ASSUME Inv, NEW w \in Workers, ServeLate(w)
  PROVE  Inv'
<1>1. /\ TypeOK /\ UNCHANGED <<order, worker, call>> /\ w \in late /\ late' = late \ {w}
      /\ \A v \in Workers : Asking(v)' <=> Asking(v)
  BY InvUse DEF ServeLate, Asking
<1>2. ~Asking(w) /\ Without(w)
  BY <1>1, InvUse DEF Sane
<1>3. \/ machines' = machines
      \/ machines' = Append(machines, [owner |-> w, status |-> "launching"])
  BY <1>1, StartServed DEF ServeLate
<1>4. machines' \in Seq(Machine) /\ Onward /\ \A v \in Workers \ {w} : NoNew(v)
  BY <1>1, <1>3, AppendAdds, SameMachines DEF TypeOK
<1>5. TypeOK'
  BY <1>1, <1>4 DEF TypeOK
<1>6. OneMachine'
  <2>1. CASE machines' = machines
    BY <1>1, <2>1, InvUse, SameMachines, OneStays
  <2>2. CASE machines' = Append(machines, [owner |-> w, status |-> "launching"])
    BY <1>1, <1>2, <2>2, InvUse, AppendAdds, OneMore
  <2>3. QED BY <1>3, <2>1, <2>2
<1>7. \A v \in Workers \ {w} : Sane(v)'
  <2> SUFFICES ASSUME NEW v \in Workers \ {w} PROVE Sane(v)'
    OBVIOUS
  <2>1. Sane(v) /\ (Asking(v)' <=> Asking(v))
    BY <1>1, InvUse
  <2>2. v \in late' => ~Asking(v)'
    BY <1>1, <2>1 DEF Sane
  <2>3. QED BY <1>1, <1>4, <2>1, <2>2, SaneStays
<1>8. Sane(w)'
  BY <1>1, <1>2, <1>4, InvUse, SaneServed
<1>9. CallSound'
  <2>1. ASSUME call # NoCall, call.op = "start"
        PROVE  call.worker # w
    <3>1. call \in ProviderCall
      BY <1>1, <2>1 DEF TypeOK
    <3>2. call.worker = w => call.step = "answered"
      BY <1>2, <2>1, <3>1, InvUse DEF Asking, CallSound, ProviderCall
    <3>3. call.step = "answered" => call.worker \notin late
      BY <2>1, InvUse DEF CallSound, Truthful
    <3>4. QED BY <1>1, <3>2, <3>3
  <2>2. ASSUME call # NoCall, call.op = "start"
        PROVE  \A i \in Ids' \ Ids : machines'[i].owner # call.worker
    BY <1>1, <1>4, <2>1, <2>2 DEF TypeOK, ProviderCall, NoNew
  <2>3. QED BY <1>1, <1>4, <2>2, InvUse, CallStays
<1>10. ListSound' /\ ListCovers'
  BY <1>1, <1>4, <1>5, InvUse, ListSoundStays, ListCoversStays
<1>11. QED BY <1>5, <1>6, <1>7, <1>8, <1>9, <1>10 DEF Inv

-----------------------------------------------------------------------------
(* The call begins and ends.                                               *)

\* Without a call nothing is claimed of calls; the machines are as they were.
LEMMA CallOver ==
  ASSUME Inv, machines' = machines, call' = NoCall, TypeOK', \A w \in Workers : Sane(w)'
  PROVE  Inv'
<1>1. OneMachine'
  BY InvUse, SameMachines, OneStays
<1>2. CallSound' /\ ListSound' /\ ListCovers'
  BY DEF CallSound, ListSound, ListCovers
<1>3. QED BY <1>1, <1>2 DEF Inv

LEMMA CallBegins ==
  ASSUME NEW w \in Workers, NEW op \in {"start", "list", "get", "delete", "confirm"},
         NEW k, k = Call(op, w)
  PROVE  /\ k \in ProviderCall /\ k # NoCall
         /\ k.op = op /\ k.worker = w /\ k.step = "asked" /\ k.offset = 0
         /\ k.found = {} /\ k.was = {} /\ k.gone = {}
BY DEF Call, ProviderCall, NoCall

LEMMA StartBeginStep ==
  ASSUME Inv, NEW w \in Workers, StartBegin(w)
  PROVE  Inv'
<1>1. /\ TypeOK /\ UNCHANGED <<machines, order, late>> /\ worker[w].phase = "requested"
      /\ worker' = [worker EXCEPT ![w].phase = "starting"] /\ call = NoCall /\ call' = Call("start", w)
  BY InvUse DEF StartBegin, Ask
<1>2. /\ worker' \in [Workers -> WorkerRecord]
      /\ worker'[w].phase = "starting" /\ worker'[w].review = worker[w].review
      /\ worker'[w].id = worker[w].id
      /\ \A v \in Workers \ {w} : worker'[v] = worker[v]
  <2>1. worker[w] \in WorkerRecord
    BY <1>1 DEF TypeOK
  <2>2. [worker[w] EXCEPT !.phase = "starting"] \in WorkerRecord
    BY <2>1 DEF WorkerRecord, Phases
  <2>3. worker' = [worker EXCEPT ![w] = [worker[w] EXCEPT !.phase = "starting"]]
    BY <1>1
  <2>4. QED BY <1>1, <2>1, <2>2, <2>3 DEF TypeOK, WorkerRecord
<1>3. /\ call' \in ProviderCall /\ call' # NoCall /\ call'.op = "start" /\ call'.worker = w
      /\ call'.step = "asked" /\ call'.found = {} /\ call'.was = {} /\ call'.gone = {}
  BY <1>1, CallBegins
<1>4. TypeOK'
  BY <1>1, <1>2, <1>3 DEF TypeOK
<1>5. OneMachine'
  BY <1>1, InvUse, SameMachines, OneStays
<1>6. \A v \in Workers : Sane(v)'
  <2> SUFFICES ASSUME NEW v \in Workers PROVE Sane(v)'
    OBVIOUS
  <2>1. Sane(v) /\ (Asking(v)' <=> v = w)
    BY <1>3, InvUse DEF Asking
  <2>2. CASE v # w
    BY <1>1, <1>2, <2>1, <2>2, SameMachines, SaneStays
  <2>3. CASE v = w
    <3>1. w \notin late' /\ Without(w)' /\ ~worker'[w].review /\ worker'[w].id = 0
      BY <1>1, <1>2, <2>1, <2>3 DEF Sane, Without, Holds, Ids
    <3>2. QED BY <1>2, <2>3, <3>1 DEF Sane
  <2>4. QED BY <2>2, <2>3
<1>7. CallSound'
  BY <1>2, <1>3 DEF CallSound
<1>8. ListSound' /\ ListCovers'
  BY <1>3, NoListing
<1>9. QED BY <1>4, <1>5, <1>6, <1>7, <1>8 DEF Inv

\* A call that asks for no machine begins.
LEMMA OtherBeginStep ==
  ASSUME Inv, NEW w \in Workers, ListBegin(w) \/ GetBegin(w) \/ StopBegin(w)
  PROVE  Inv'
<1>1. TypeOK /\ UNCHANGED <<machines, order, late, worker>> /\ call = NoCall
  BY InvUse DEF ListBegin, GetBegin, StopBegin, Ask
<1>2. Gone \subseteq Nat /\ Listed \subseteq Nat /\ Gone \subseteq Ids /\ Listed \subseteq Ids \ Gone
  BY <1>1, MachineFacts DEF Gone, Listed
<1>3. Gone' = Gone /\ Ids' = Ids
  BY <1>1, SameMachines
<1>4. /\ call' \in ProviderCall /\ call' # NoCall /\ call'.op # "start" /\ call'.worker = w
      /\ call'.step = "asked" /\ call'.offset = 0 /\ call'.found = {}
      /\ call'.was \subseteq Ids \ call'.gone /\ call'.gone \subseteq Gone
      /\ call'.op = "list" => worker[w].phase = "unknown"
      /\ call'.op = "get" => worker[w].phase \in {"launching", "lost"}
      /\ call'.op \in {"get", "delete", "confirm"} => worker[w].id # 0
      /\ call'.op \in {"delete", "confirm"} => worker[w].phase = "stopping"
  <2>1. CASE ListBegin(w)
    <3>1. call' = [Call("list", w) EXCEPT !.was = Listed, !.gone = Gone] /\ worker[w].phase = "unknown"
      BY <2>1 DEF ListBegin, Ask, Listed, Gone
    <3>2. /\ call' \in ProviderCall /\ call' # NoCall /\ call'.op = "list" /\ call'.worker = w
          /\ call'.step = "asked" /\ call'.offset = 0 /\ call'.found = {}
          /\ call'.was = Listed /\ call'.gone = Gone
      <4>1. Listed \in SUBSET Nat /\ Gone \in SUBSET Nat
        BY <1>2
      <4>2. QED BY <3>1, <4>1 DEF Call, ProviderCall, NoCall
    <3>3. QED BY <1>2, <3>1, <3>2
  <2>2. CASE GetBegin(w)
    <3>1. call' = Call("get", w) /\ worker[w].phase \in {"launching", "lost"} /\ worker[w].id # 0
      BY <2>2, InvUse DEF GetBegin, Ask, Sane
    <3>2. /\ call' \in ProviderCall /\ call' # NoCall /\ call'.op = "get" /\ call'.worker = w
          /\ call'.step = "asked" /\ call'.offset = 0 /\ call'.found = {}
          /\ call'.was = {} /\ call'.gone = {}
      BY <3>1, CallBegins
    <3>3. QED BY <3>1, <3>2
  <2>3. CASE StopBegin(w)
    <3>1. call' = Call("delete", w) /\ worker[w].phase = "stopping" /\ worker[w].id # 0
      BY <2>3, InvUse DEF StopBegin, Ask, Sane
    <3>2. /\ call' \in ProviderCall /\ call' # NoCall /\ call'.op = "delete" /\ call'.worker = w
          /\ call'.step = "asked" /\ call'.offset = 0 /\ call'.found = {}
          /\ call'.was = {} /\ call'.gone = {}
      BY <3>1, CallBegins
    <3>3. QED BY <3>1, <3>2
  <2>4. QED BY <2>1, <2>2, <2>3
<1>5. TypeOK'
  BY <1>1, <1>4 DEF TypeOK
<1>6. OneMachine'
  BY <1>1, InvUse, SameMachines, OneStays
<1>7. \A v \in Workers : Sane(v)'
  <2> SUFFICES ASSUME NEW v \in Workers PROVE Sane(v)'
    OBVIOUS
  <2>1. Sane(v) /\ ~Asking(v)'
    BY <1>4, InvUse DEF Asking
  <2>2. QED BY <1>1, <2>1, SameMachines, SaneStays
<1>8. CallSound'
  BY <1>1, <1>4 DEF CallSound
<1>9. ListSound'
  BY <1>3, <1>4 DEF ListSound, Seen
<1>10. ListCovers'
  <2>1. \A i : Cardinality(Before(i))' \in Nat
    BY <1>5, BeforeFiniteNext
  <2>2. \A i : ~(Cardinality(Before(i))' < 0)
    BY <2>1
  <2>3. QED BY <1>4, <2>2 DEF ListCovers
<1>11. QED BY <1>5, <1>6, <1>7, <1>8, <1>9, <1>10 DEF Inv

\* What the tick makes of a worker: its machine stays its own, and a phase that
\* would ask for a machine, or give one up, is not entered.
LEMMA AgedFacts ==
  ASSUME NEW w \in Workers, worker[w] \in WorkerRecord, Sane(w)
  PROVE  /\ Aged(w) \in WorkerRecord /\ Aged(w).id = worker[w].id /\ ~Aged(w).review
         /\ \/ Aged(w) = worker[w]
            \/ Aged(w).phase \in {"lost", "unknown"}
            \/ Aged(w).phase = "stopping" /\ worker[w].phase = "launching"
<1> DEFINE r == worker[w]
<1>1. r \in WorkerRecord /\ ~r.review /\ Aged(w) \in {r, [r EXCEPT !.phase = "unknown"],
          [r EXCEPT !.phase = "stopping"], [r EXCEPT !.phase = "lost", !.review = FALSE]}
  BY DEF Aged, Sane
<1>2. CASE Aged(w) = r
  BY <1>1, <1>2
<1>3. CASE Aged(w) # r
  <2>1. \/ Aged(w) = [r EXCEPT !.phase = "unknown"]
        \/ Aged(w) = [r EXCEPT !.phase = "lost", !.review = FALSE]
        \/ r.phase = "launching" /\ Aged(w) = [r EXCEPT !.phase = "stopping"]
    BY <1>3 DEF Aged
  <2> HIDE DEF r
  <2>2. /\ Aged(w) \in WorkerRecord /\ Aged(w).id = r.id /\ ~Aged(w).review
        /\ \/ Aged(w).phase \in {"lost", "unknown"}
           \/ Aged(w).phase = "stopping" /\ r.phase = "launching"
    BY <1>1, <2>1 DEF WorkerRecord, Phases
  <2>3. QED BY <2>2 DEF r
<1>4. QED BY <1>2, <1>3

LEMMA TickStep ==
  ASSUME Inv, Tick
  PROVE  Inv'
<1>1. /\ TypeOK /\ UNCHANGED <<machines, order, call, late>> /\ call = NoCall
      /\ worker' = [w \in Workers |-> Aged(w)]
  BY InvUse DEF Tick
<1>2. \A w \in Workers :
          /\ Aged(w) \in WorkerRecord /\ Aged(w).id = worker[w].id /\ ~Aged(w).review
          /\ \/ Aged(w) = worker[w]
             \/ Aged(w).phase \in {"lost", "unknown"}
             \/ Aged(w).phase = "stopping" /\ worker[w].phase = "launching"
  BY <1>1, InvUse, AgedFacts DEF TypeOK
<1>3. TypeOK'
  BY <1>1, <1>2 DEF TypeOK
<1>4. \A w \in Workers : Sane(w)'
  <2> SUFFICES ASSUME NEW w \in Workers PROVE Sane(w)'
    OBVIOUS
  <2>1. Sane(w) /\ ~Asking(w)' /\ ~Asking(w) /\ worker'[w] = Aged(w)
    BY <1>1, InvUse DEF Asking
  <2>2. CASE Aged(w) = worker[w]
    BY <1>1, <2>1, <2>2, SameMachines, SaneStays
  <2>3. CASE \/ Aged(w).phase \in {"lost", "unknown"}
             \/ Aged(w).phase = "stopping" /\ worker[w].phase = "launching"
    <3>1. (w \in late' => Without(w)') /\ Ids' = Ids /\ machines' = machines
      BY <1>1, <2>1 DEF Sane, Without, Ids
    <3>2. worker'[w].id = worker[w].id /\ ~worker'[w].review
      BY <1>2, <2>1
    <3>3. /\ worker'[w].phase \notin {"requested", "failed", "stopped"}
          /\ worker'[w].phase \in {"launching", "stopping"} => worker'[w].id # 0
      BY <2>1, <2>3, <3>2 DEF Sane
    <3>4. worker'[w].id # 0 => Holds(w, worker[w].id)'
      BY <2>1, <3>1, <3>2 DEF Sane, Holds
    <3>5. QED BY <2>1, <3>1, <3>2, <3>3, <3>4 DEF Sane
  <2>4. QED BY <1>2, <2>2, <2>3
<1>5. QED BY <1>1, <1>3, <1>4, CallOver

\* A POST that is given up while it is on its way goes on alone.
LEMMA OutliveFacts ==
  ASSUME Inv, call # NoCall, Outlive
  PROVE  /\ late' \subseteq Workers /\ call.worker \in Workers
         /\ late' \ late \subseteq {call.worker}
         /\ \A v \in Workers : v \in late' => v \in late \/ Asking(v)
BY InvUse DEF TypeOK, ProviderCall, Outlive, Asking

\* The call ends and nothing is made of it.
LEMMA CallDropped ==
  ASSUME Inv, call # NoCall, UNCHANGED <<machines, worker>>, call' = NoCall,
         late' \subseteq Workers, \A v \in Workers : v \in late' => v \in late \/ Asking(v)
  PROVE  Inv'
<1>1. TypeOK'
  BY InvUse DEF TypeOK
<1>2. \A v \in Workers : Sane(v)'
  <2> SUFFICES ASSUME NEW v \in Workers PROVE Sane(v)'
    OBVIOUS
  <2>1. Sane(v) /\ ~Asking(v)'
    BY InvUse DEF Asking
  <2>2. QED BY <2>1, InvUse, SameMachines, SaneStays
<1>3. QED BY <1>1, <1>2, CallOver

LEMMA CrashStep ==
  ASSUME Inv, Crash
  PROVE  Inv'
BY OutliveFacts, CallDropped DEF Crash

\* The call ends and its worker moves to a state that is right for it.
LEMMA CallMoves ==
  ASSUME Inv, call # NoCall, machines' = machines, call' = NoCall,
         late' \subseteq Workers, \A v \in Workers : v \in late' => v \in late \/ Asking(v),
         NEW phase \in {"unknown", "launching", "stopping", "failed", "stopped"}, NEW id \in Nat,
         Move(call.worker, phase, id),
         phase \in {"launching", "stopping"} => id # 0,
         id # 0 => Holds(call.worker, id),
         phase \in {"failed", "stopped"} =>
            call.worker \notin late' /\ \A i \in Ids : machines[i].owner = call.worker => ~Up(i)
  PROVE  Inv'
<1> DEFINE w == call.worker
           m == [phase |-> phase, id |-> id, review |-> FALSE]
<1>1. TypeOK /\ w \in Workers /\ m \in WorkerRecord
  BY InvUse DEF TypeOK, ProviderCall, WorkerRecord, Phases
<1>2. /\ worker' \in [Workers -> WorkerRecord] /\ worker'[w] = m
      /\ \A v \in Workers \ {w} : worker'[v] = worker[v]
  BY <1>1 DEF Move, TypeOK
<1>3. TypeOK'
  BY <1>1, <1>2 DEF TypeOK
<1>4. \A v \in Workers : Sane(v)'
  <2> SUFFICES ASSUME NEW v \in Workers PROVE Sane(v)'
    OBVIOUS
  <2>1. Sane(v) /\ ~Asking(v)'
    BY InvUse DEF Asking
  <2>2. CASE v # w
    BY <1>1, <1>2, <2>1, <2>2, SameMachines, SaneStays
  <2>3. CASE v = w
    <3>1. v \in late' => Without(v)'
      BY <2>1 DEF Sane, Without, Ids
    <3>2. worker'[v].phase = phase /\ worker'[v].id = id /\ ~worker'[v].review
      BY <1>2, <2>3
    <3>3. /\ worker'[v].phase \in {"launching", "stopping"} => worker'[v].id # 0
          /\ worker'[v].id # 0 => Holds(v, worker[v].id)'
      BY <2>3, <3>2 DEF Holds, Ids
    <3>4. worker'[v].phase \in {"failed", "stopped"} =>
            v \notin late' /\ \A i \in Ids' : machines'[i].owner = v => ~Up(i)'
      BY <2>3, <3>2, SameMachines DEF Up
    <3>5. worker'[v].phase # "requested"
      BY <3>2
    <3>6. QED BY <2>1, <3>1, <3>2, <3>3, <3>4, <3>5 DEF Sane
  <2>4. QED BY <2>2, <2>3
<1>5. QED BY <1>3, <1>4, CallOver

-----------------------------------------------------------------------------
(* The server answers.                                                     *)

LEMMA Answered ==
  ASSUME call \in ProviderCall, NEW r \in Reply,
         call' = [call EXCEPT !.step = "answered", !.reply = r]
  PROVE  /\ call' \in ProviderCall /\ call' # NoCall /\ call'.step = "answered" /\ call'.reply = r
         /\ call'.op = call.op /\ call'.worker = call.worker /\ call'.offset = call.offset
         /\ call'.found = call.found /\ call'.was = call.was /\ call'.gone = call.gone
BY DEF ProviderCall, NoCall

LEMMA AnswerType ==
  ASSUME NEW status \in {0, 200, 201, 429, 503}
  PROVE  /\ Answer(status) \in Reply /\ Answer(status).status = status
         /\ Answer(status).is = "none" /\ Answer(status).servers = {}
BY DEF Answer, Reply

\* The parts of Inv that an answer leaves alone, whatever was asked.
LEMMA ServeSound ==
  ASSUME Inv, call # NoCall, call.step = "asked", Onward, machines' \in Seq(Machine),
         UNCHANGED <<worker, late>>, NEW r \in Reply,
         call' = [call EXCEPT !.step = "answered", !.reply = r],
         Truthful(call.worker, r)', call.op = "list" => r.servers \subseteq Ids'
  PROVE  TypeOK' /\ CallSound' /\ ListSound'
<1>1. TypeOK /\ call \in ProviderCall
  BY InvUse DEF TypeOK
<1>2. /\ call' \in ProviderCall /\ call' # NoCall /\ call'.step = "answered" /\ call'.reply = r
      /\ call'.op = call.op /\ call'.worker = call.worker /\ call'.offset = call.offset
      /\ call'.found = call.found /\ call'.was = call.was /\ call'.gone = call.gone
  BY <1>1, Answered
<1>3. TypeOK'
  BY <1>1, <1>2 DEF TypeOK
<1>4. CallSound'
  <2>1. Truthful(call.worker, call.reply)'
    BY <1>2 DEF Truthful, Holds, Without
  <2>2. /\ call.op = "start" => worker[call.worker].phase = "starting"
        /\ call.op = "list" => worker[call.worker].phase = "unknown"
        /\ call.op = "get" => worker[call.worker].phase \in {"launching", "lost"}
        /\ call.op \in {"get", "delete", "confirm"} => worker[call.worker].id # 0
        /\ call.op \in {"delete", "confirm"} => worker[call.worker].phase = "stopping"
    BY InvUse DEF CallSound
  <2>3. QED BY <1>2, <2>1, <2>2 DEF CallSound
<1>5. ListSound'
  <2>1. Gone \subseteq Gone' /\ Ids \subseteq Ids'
    BY GoneGrows DEF Onward
  <2>2. /\ Seen(call.found) \subseteq Ids
        /\ \A e, q \in call.found : e[1] = q[1] => e = q
        /\ call.was \subseteq Ids \ call.gone
        /\ call.gone \subseteq Gone
    BY InvUse DEF ListSound
  <2>3. QED BY <1>2, <2>1, <2>2 DEF ListSound, Seen
<1>6. QED BY <1>3, <1>4, <1>5

LEMMA ServeStartStep ==
  ASSUME Inv, Serve, call.op = "start"
  PROVE  Inv'
<1>0. PICK w \in Workers : w = call.worker
  BY InvUse DEF Serve, TypeOK, NoCall, ProviderCall
<1> DEFINE m == [owner |-> w, status |-> "launching"]
<1>1. /\ TypeOK /\ call \in ProviderCall /\ call # NoCall /\ call.step = "asked"
      /\ UNCHANGED <<order, worker, late>>
  BY InvUse DEF Serve, TypeOK, NoCall, ProviderCall
<1>2. Asking(w) /\ w \notin late /\ Without(w)
  BY <1>0, <1>1, InvUse DEF Sane, Asking
<1>3. PICK r \in Reply :
        /\ call' = [call EXCEPT !.step = "answered", !.reply = r] /\ r.is = "none"
        /\ \/ machines' = machines /\ r.status = 429
           \/ machines' = Append(machines, m) /\ r.status = 503
           \/ machines' = Append(machines, m) /\ r.status = 201 /\ r.id = Len(machines')
  <2> DEFINE done == ServeHTTP("start", w, 0)
  <2>1. done = ServeHTTP(call.op, call.worker, call.offset)
    BY <1>0 DEF ServeHTTP
  <2>2. machines' = done.machines /\ call' = [call EXCEPT !.step = "answered", !.reply = done.reply]
    BY <2>1 DEF Serve
  <2>3. \/ done.machines = machines /\ done.reply = Answer(429)
        \/ /\ done.machines = Append(machines, m)
           /\ done.reply = Answer(503) \/ done.reply = [Answer(201) EXCEPT !.id = Len(Append(machines, m))]
    BY <1>1, StartServed
  <2> HIDE DEF done, m
  <2>4. done.machines = Append(machines, m) => Len(Append(machines, m)) \in Nat
    <3>1. m \in Machine
      BY <1>1 DEF m, Machine, Statuses
    <3>2. QED BY <1>1, <3>1 DEF TypeOK
  <2>5. CASE done.machines = machines /\ done.reply = Answer(429)
    <3>1. Answer(429) \in Reply /\ Answer(429).status = 429 /\ Answer(429).is = "none"
      BY AnswerType
    <3>2. QED BY <2>2, <2>5, <3>1
  <2>6. CASE done.machines = Append(machines, m) /\ done.reply = Answer(503)
    <3>1. Answer(503) \in Reply /\ Answer(503).status = 503 /\ Answer(503).is = "none"
      BY AnswerType
    <3>2. QED BY <2>2, <2>6, <3>1
  <2>7. CASE /\ done.machines = Append(machines, m)
             /\ done.reply = [Answer(201) EXCEPT !.id = Len(Append(machines, m))]
    <3>1. PICK n \in Nat : n = Len(Append(machines, m))
      BY <2>4, <2>7
    <3>2. PICK e : e = [Answer(201) EXCEPT !.id = n]
      OBVIOUS
    <3>3. e \in Reply /\ e.status = 201 /\ e.id = n /\ e.is = "none"
      <4>1. Answer(201) \in Reply /\ Answer(201).status = 201 /\ Answer(201).is = "none"
        BY AnswerType
      <4>2. QED BY <3>1, <3>2, <4>1 DEF Reply
    <3>4. done.reply = e /\ n = Len(machines')
      BY <2>2, <2>7, <3>1, <3>2
    <3>5. machines' = Append(machines, m) /\ call' = [call EXCEPT !.step = "answered", !.reply = e]
      BY <2>2, <2>7, <3>4
    <3>6. e \in Reply /\ e.status = 201 /\ e.id = Len(machines') /\ e.is = "none"
      BY <3>3, <3>4
    <3>7. QED BY <3>5, <3>6
  <2>8. QED BY <2>3, <2>5, <2>6, <2>7
<1> HIDE DEF m
<1>4. /\ machines' \in Seq(Machine) /\ Onward /\ \A v \in Workers \ {w} : NoNew(v)
  <2>1. CASE machines' = machines
    BY <1>1, <2>1, SameMachines DEF TypeOK
  <2>2. CASE machines' = Append(machines, m)
    BY <1>1, <2>2, AppendAdds DEF m
  <2>3. QED BY <1>3, <2>1, <2>2
<1>5. Truthful(w, r)'
  <2>1. call'.op = "start"
    BY <1>1, <1>3, Answered
  <2>2. r.status = 201 => Holds(w, r.id)'
    <3>1. ASSUME r.status = 201
          PROVE  r.id = Len(machines') /\ Added(w) /\ Ids' = Ids \cup {Len(machines) + 1}
      <4>1. machines' = Append(machines, m)
        BY <1>3, <3>1
      <4>2. Added(w) /\ Ids' = Ids \cup {Len(machines) + 1}
        BY <1>1, <4>1, AppendAdds DEF m
      <4>3. QED BY <1>3, <3>1, <4>2
    <3>2. ASSUME r.status = 201
          PROVE  r.id \in Ids' /\ machines'[r.id].owner = w
      BY <3>1, <3>2 DEF Added
    <3>3. QED BY <3>2 DEF Holds
  <2>3. r.status = 429 => Without(w)'
    <3>1. r.status = 429 => machines' = machines
      BY <1>3
    <3>2. QED BY <1>2, <3>1 DEF Without, Ids
  <2>4. r.status \in {201, 429, 503} /\ w \notin late' /\ r.is # "stopped"
    BY <1>1, <1>2, <1>3
  <2>5. QED BY <2>1, <2>2, <2>3, <2>4 DEF Truthful
<1>6. Truthful(call.worker, r)'
  <2>1. call'.worker = w
    BY <1>0, <1>1, <1>3, Answered
  <2>2. QED BY <1>5, <2>1 DEF Truthful, Holds, Without
<1>7. TypeOK' /\ CallSound' /\ ListSound' /\ call'.op = "start" /\ call'.step = "answered"
  BY <1>1, <1>3, <1>4, <1>6, ServeSound, Answered
<1>8. OneMachine'
  <2>1. CASE machines' = machines
    BY <1>1, <2>1, InvUse, SameMachines, OneStays
  <2>2. CASE machines' = Append(machines, m)
    BY <1>1, <1>2, <2>2, InvUse, AppendAdds, OneMore DEF m
  <2>3. QED BY <1>3, <2>1, <2>2
<1>9. \A v \in Workers : Sane(v)'
  <2> SUFFICES ASSUME NEW v \in Workers PROVE Sane(v)'
    OBVIOUS
  <2>1. Sane(v) /\ ~Asking(v)'
    BY <1>7, InvUse DEF Asking
  <2>2. CASE v = w
    BY <1>1, <1>2, <1>4, <2>1, <2>2, SaneServed
  <2>3. CASE v # w
    BY <1>1, <1>4, <2>1, <2>3, SaneStays
  <2>4. QED BY <2>2, <2>3
<1>10. ListCovers'
  BY <1>7 DEF ListCovers
<1>11. QED BY <1>7, <1>8, <1>9, <1>10 DEF Inv

\* An answer that starts no machine.
LEMMA ServeOther ==
  ASSUME Inv, Serve, call.op # "start", Onward, machines' \in Seq(Machine), \A v : NoNew(v),
         NEW r \in Reply, call' = [call EXCEPT !.step = "answered", !.reply = r],
         call.op \in {"get", "confirm"} /\ r.is = "stopped" => machines'[worker[call.worker].id].status = "stopped",
         call.op = "list" => r.servers \subseteq Ids',
         ListCovers'
  PROVE  Inv'
<1>1. /\ TypeOK /\ call \in ProviderCall /\ call # NoCall /\ call.step = "asked" /\ call.worker \in Workers
      /\ UNCHANGED <<order, worker, late>>
  BY InvUse DEF Serve, TypeOK, NoCall, ProviderCall
<1>2. call'.op = call.op /\ call'.step = "answered" /\ call'.worker = call.worker
  BY <1>1, Answered
<1>3. Truthful(call.worker, r)'
  BY <1>1, <1>2 DEF Truthful
<1>4. TypeOK' /\ CallSound' /\ ListSound'
  BY <1>1, <1>3, ServeSound
<1>5. OneMachine'
  BY <1>1, InvUse, OneStays
<1>6. \A v \in Workers : Sane(v)'
  <2> SUFFICES ASSUME NEW v \in Workers PROVE Sane(v)'
    OBVIOUS
  <2>1. Sane(v) /\ ~Asking(v)'
    BY <1>2, InvUse DEF Asking
  <2>2. QED BY <1>1, <2>1, SaneStays
<1>7. QED BY <1>4, <1>5, <1>6 DEF Inv

LEMMA LimitAnswers ==
  ASSUME Inv, Serve, faults.limited > 0
  PROVE  machines' = machines /\ call' = [call EXCEPT !.step = "answered", !.reply = Answer(429)]
BY DEF Serve, ServeHTTP, Limit, Effect

\* A limited or refused request changes nothing and shows nothing.
LEMMA Refused ==
  ASSUME Inv, Serve, call.op # "start", machines' = machines, NEW status \in {429, 503},
         call' = [call EXCEPT !.step = "answered", !.reply = Answer(status)]
  PROVE  Inv'
<1>1. Answer(status) \in Reply /\ Answer(status).status = status /\ Answer(status).status # 200
      /\ Answer(status).is = "none" /\ Answer(status).servers = {}
  BY AnswerType
<1>2. call # NoCall /\ call \in ProviderCall
  BY InvUse DEF Serve, TypeOK, NoCall
<1>3. call'.step = "answered" /\ call'.reply = Answer(status)
  BY <1>1, <1>2, Answered
<1>4. ListCovers'
  BY <1>1, <1>3 DEF ListCovers
<1>5. machines' \in Seq(Machine)
  BY InvUse DEF TypeOK
<1>6. QED BY <1>1, <1>4, <1>5, SameMachines, ServeOther

LEMMA ServeReadStep ==
  ASSUME Inv, Serve, call.op \in {"get", "confirm"}, ~(faults.limited > 0)
  PROVE  Inv'
<1>1. call # NoCall /\ call \in ProviderCall /\ TypeOK
  BY InvUse DEF Serve, TypeOK, NoCall
<1>2. PICK is : is = machines[worker[call.worker].id].status
  OBVIOUS
<1>3. is \in Statuses
  <2>1. worker[call.worker].id # 0 /\ call.worker \in Workers
    BY <1>1, InvUse DEF CallSound, ProviderCall
  <2>2. worker[call.worker].id \in Ids
    BY <2>1, InvUse DEF Sane, Holds
  <2>3. QED BY <1>1, <1>2, <2>2, MachineFacts DEF Machine
<1>4. PICK r : r = [Answer(200) EXCEPT !.is = is]
  OBVIOUS
<1>5. r \in Reply /\ r.is = is
  <2>1. Answer(200) \in Reply
    BY AnswerType
  <2>2. QED BY <1>3, <1>4, <2>1 DEF Reply
<1>6. machines' = machines /\ call' = [call EXCEPT !.step = "answered", !.reply = r]
  BY <1>2, <1>4 DEF Serve, ServeHTTP, Effect
<1>7. ListCovers'
  BY <1>1, <1>5, <1>6, Answered DEF ListCovers
<1>8. machines' \in Seq(Machine)
  BY <1>1, <1>6 DEF TypeOK
<1>9. QED BY <1>2, <1>5, <1>6, <1>7, <1>8, SameMachines, ServeOther

LEMMA ServeStopStep ==
  ASSUME Inv, Serve, call.op = "delete", ~(faults.limited > 0)
  PROVE  Inv'
<1>1. call # NoCall /\ call \in ProviderCall /\ TypeOK
  BY InvUse DEF Serve, TypeOK, NoCall
<1>2. PICK id : id = worker[call.worker].id
  OBVIOUS
<1>3. id \in Ids
  <2>1. worker[call.worker].id # 0 /\ call.worker \in Workers
    BY <1>1, InvUse DEF CallSound, ProviderCall
  <2>2. QED BY <1>2, <2>1, InvUse DEF Sane, Holds
<1>4. CASE faults.refused > 0
  <2>1. machines' = machines /\ call' = [call EXCEPT !.step = "answered", !.reply = Answer(503)]
    BY <1>4 DEF Serve, ServeHTTP, Stop, Effect
  <2>2. QED BY <2>1, Refused
<1>5. CASE ~(faults.refused > 0)
  <2>1. /\ machines' = [machines EXCEPT ![id].status = "stopped"]
        /\ call' = [call EXCEPT !.step = "answered", !.reply = Answer(200)]
    BY <1>2, <1>5 DEF Serve, ServeHTTP, Stop, Effect
  <2>2. machines' \in Seq(Machine) /\ Onward /\ \A w : NoNew(w)
    <3>1. "stopped" \in Statuses
      BY DEF Statuses
    <3>2. QED BY <1>1, <1>3, <2>1, <3>1, StatusChanges
  <2>3. Answer(200) \in Reply
    BY AnswerType
  <2>4. ListCovers'
    BY <1>1, <2>1, <2>3, Answered DEF ListCovers
  <2>5. QED BY <2>1, <2>2, <2>3, <2>4, ServeOther
<1>6. QED BY <1>4, <1>5

\* A page shows what is at its places; when it is the last, there is nothing
\* behind it.
LEMMA ServeListStep ==
  ASSUME Inv, Serve, call.op = "list", ~(faults.limited > 0)
  PROVE  Inv'
<1>1. call # NoCall /\ call \in ProviderCall /\ TypeOK /\ call.step = "asked" /\ order' = order
  BY InvUse DEF Serve, TypeOK, NoCall
<1>2. PICK offset \in Nat : offset = call.offset
  BY <1>1 DEF ProviderCall
<1>3. PICK shown : shown = {i \in Listed : /\ offset <= Cardinality(Before(i))
                                          /\ Cardinality(Before(i)) < offset + PageSize}
  OBVIOUS
<1>4. PICK more : more = (offset + PageSize < Cardinality(Listed))
  OBVIOUS
<1>5. PICK r : r = [Answer(200) EXCEPT !.servers = shown, !.more = more]
  OBVIOUS
<1>6. shown \subseteq Ids /\ shown \in SUBSET Nat
  BY <1>1, <1>3, MachineFacts DEF Listed
<1>7. r \in Reply /\ r.servers = shown /\ r.status = 200
      /\ (r.more <=> offset + PageSize < Cardinality(Listed))
  <2>1. Answer(200) \in Reply /\ Answer(200).status = 200
    BY AnswerType
  <2>2. more \in BOOLEAN
    BY <1>4
  <2>3. r \in Reply /\ r.servers = shown /\ r.status = 200 /\ r.more = more
    <3>1. r = [status |-> 200, id |-> 0, is |-> "none", servers |-> shown, more |-> more]
      BY <1>5 DEF Answer
    <3>2. r.servers = shown /\ r.status = 200
      BY <3>1
    <3>3. r.more = more
      BY <3>1, Zenon
    <3>4. r \in Reply
      BY <1>6, <2>2, <3>1 DEF Reply
    <3>5. QED BY <3>2, <3>3, <3>4, Zenon
  <2>4. QED BY <1>4, <2>3
<1>8. machines' = machines /\ call' = [call EXCEPT !.step = "answered", !.reply = r]
  BY <1>2, <1>3, <1>4, <1>5 DEF Serve, ServeHTTP, Page, Effect
<1>9. /\ call' # NoCall /\ call'.step = "answered" /\ call'.reply = r /\ call'.op = "list"
      /\ call'.offset = offset /\ call'.found = call.found /\ call'.was = call.was /\ call'.gone = call.gone
  BY <1>1, <1>2, <1>7, <1>8, Answered
<1>10. Gone' = Gone /\ Ids' = Ids /\ \A i : Before(i)' = Before(i)
  BY <1>1, <1>8, SameMachines DEF Before, Listed, Up
<1>11. ListCovers'
  <2> SUFFICES ASSUME Gone = call.gone, NEW i \in call.was,
                      ~r.more \/ Cardinality(Before(i)) < offset + PageSize
               PROVE  i \in Seen(call.found) \cup shown
    BY <1>7, <1>9, <1>10 DEF ListCovers
  <2>1. i \in Listed
    BY <1>1, InvUse DEF ListSound, Listed, Gone
  <2>2. Cardinality(Before(i)) \in Nat /\ Cardinality(Listed) \in Nat /\ PageSize \in Nat
    BY <1>1, BeforeFinite, OtherFacts
  <2>3. Cardinality(Before(i)) < Cardinality(Listed)
    <3>1. Before(i) \subseteq Listed /\ i \notin Before(i)
      <4>1. Before(i) \subseteq Listed
        BY DEF Before
      <4>2. i \in Nat
        BY <1>1, <2>1, MachineFacts DEF Listed
      <4>3. ~(i < i) /\ ~(i > i)
        BY <4>2
      <4>4. i \notin Before(i)
        BY <4>3 DEF Before
      <4>5. QED BY <4>1, <4>4
    <3>2. IsFiniteSet(Listed) /\ Before(i) # Listed
      BY <1>1, <2>1, <3>1, BeforeFinite
    <3>3. QED BY <3>1, <3>2, FS_Subset, <2>2
  <2>4. Cardinality(Before(i)) < offset + PageSize
    BY <1>7, <2>2, <2>3
  <2>5. CASE Cardinality(Before(i)) < offset
    BY <1>1, <1>2, <2>5, InvUse DEF ListCovers
  <2>6. CASE offset <= Cardinality(Before(i))
    BY <1>3, <2>1, <2>4, <2>6
  <2>7. QED BY <2>2, <2>5, <2>6
<1>12. machines' \in Seq(Machine)
  BY <1>1, <1>8 DEF TypeOK
<1>13. r.servers \subseteq Ids'
  BY <1>6, <1>7, <1>10
<1>14. QED BY <1>7, <1>8, <1>11, <1>12, <1>13, SameMachines, ServeOther

LEMMA ServeStep ==
  ASSUME Inv, Serve
  PROVE  Inv'
<1>1. call.op \in {"start", "list", "get", "delete", "confirm"}
  BY InvUse DEF Serve, TypeOK, NoCall, ProviderCall
<1>2. CASE call.op = "start"
  BY <1>2, ServeStartStep
<1>3. CASE call.op # "start" /\ faults.limited > 0
  BY <1>3, LimitAnswers, Refused
<1>4. CASE call.op # "start" /\ ~(faults.limited > 0)
  BY <1>1, <1>4, ServeListStep, ServeReadStep, ServeStopStep
<1>5. QED BY <1>2, <1>3, <1>4

-----------------------------------------------------------------------------
(* The client takes an answer, or gives up: then the answer is Answer(0).   *)

Given(reply) == \/ reply = Answer(0) /\ Outlive
                \/ call.step = "answered" /\ reply = call.reply /\ late' = late

LEMMA GivenFacts ==
  ASSUME Inv, call # NoCall, NEW reply, Given(reply)
  PROVE  /\ reply \in Reply /\ call \in ProviderCall /\ call.worker \in Workers /\ TypeOK
         /\ \/ reply.status = 0 /\ reply.is = "none"
            \/ call.step = "answered" /\ reply = call.reply /\ late' = late /\ Truthful(call.worker, reply)
         /\ late' \subseteq Workers /\ \A v \in Workers : v \in late' => v \in late \/ Asking(v)
         /\ call.op # "start" => late' = late
<1>1. call \in ProviderCall /\ call.worker \in Workers /\ TypeOK
  BY InvUse DEF TypeOK, ProviderCall
<1>2. Answer(0) \in Reply /\ Answer(0).status = 0 /\ Answer(0).is = "none"
  BY AnswerType
<1>3. CASE reply = Answer(0) /\ Outlive
  <2>1. late' \subseteq Workers /\ \A v \in Workers : v \in late' => v \in late \/ Asking(v)
    BY <1>3, OutliveFacts
  <2>2. call.op # "start" => late' = late
    BY <1>3 DEF Outlive
  <2>3. reply \in Reply /\ reply.status = 0 /\ reply.is = "none"
    BY <1>2, <1>3
  <2>4. call \in ProviderCall
    BY <1>1
  <2>5. QED BY <1>1, <2>1, <2>2, <2>3, <2>4
<1>4. CASE call.step = "answered" /\ reply = call.reply /\ late' = late
  <2>1. reply \in Reply /\ Truthful(call.worker, reply)
    BY <1>4, InvUse DEF CallSound
  <2>2. QED BY <1>1, <1>4, <2>1 DEF TypeOK
<1>5. QED BY <1>3, <1>4 DEF Given

LEMMA StartEndStep ==
  ASSUME Inv, call # NoCall, machines' = machines, NEW reply, Given(reply), StartEnd(reply)
  PROVE  Inv'
<1>1. /\ reply \in Reply /\ call \in ProviderCall /\ call.worker \in Workers /\ TypeOK
      /\ reply.status = 0 \/ (late' = late /\ Truthful(call.worker, reply))
      /\ late' \subseteq Workers /\ \A v \in Workers : v \in late' => v \in late \/ Asking(v)
  BY GivenFacts
<1>2. call.op = "start" /\ call' = NoCall /\ reply.id \in Nat
  BY <1>1 DEF StartEnd, Reply
<1>3. CASE reply.status \in {0, 503}
  <2>1. Move(call.worker, "unknown", 0)
    BY <1>3 DEF StartEnd, OutcomeUnknown
  <2>2. QED BY <1>1, <1>2, <2>1, CallMoves
<1>4. CASE reply.status = 201
  <2>1. PICK phase \in {"launching", "stopping"} : Move(call.worker, phase, reply.id)
    BY <1>4 DEF StartEnd, OutcomeUnknown
  <2>2. Holds(call.worker, reply.id) /\ reply.id # 0
    <3>1. Holds(call.worker, reply.id)
      BY <1>1, <1>2, <1>4 DEF Truthful
    <3>2. QED BY <1>1, <3>1 DEF Holds, Ids, TypeOK
  <2>3. QED BY <1>1, <1>2, <2>1, <2>2, CallMoves
<1>5. CASE reply.status = 429
  <2>1. Move(call.worker, "failed", 0)
    BY <1>5 DEF StartEnd, OutcomeUnknown
  <2>2. call.worker \notin late' /\ Without(call.worker)
    BY <1>1, <1>2, <1>5 DEF Truthful
  <2>3. \A i \in Ids : machines[i].owner = call.worker => ~Up(i)
    BY <2>2 DEF Without
  <2>4. QED BY <1>1, <1>2, <2>1, <2>2, <2>3, CallMoves
<1>6. QED BY <1>1, <1>2, <1>3, <1>4, <1>5 DEF Truthful

\* The machine of the worker has stopped, and it is the only one.
LEMMA StopSeen ==
  ASSUME Inv, call # NoCall, machines' = machines, NEW reply, Given(reply),
         call.op \in {"get", "confirm"}, reply.is = "stopped", call' = NoCall,
         Move(call.worker, "stopped", worker[call.worker].id)
  PROVE  Inv'
<1> DEFINE w == call.worker
<1>1. /\ w \in Workers /\ TypeOK /\ late' = late /\ Truthful(w, reply)
      /\ late' \subseteq Workers /\ \A v \in Workers : v \in late' => v \in late \/ Asking(v)
  BY GivenFacts
<1>2. Holds(w, worker[w].id) /\ Sane(w)
  BY <1>1, InvUse DEF CallSound, Sane
<1>3. machines[worker[w].id].status = "stopped"
  BY <1>1 DEF Truthful
<1>4. w \notin late'
  BY <1>1, <1>2 DEF Sane, Without, Holds
<1>5. \A i \in Ids : machines[i].owner = w => ~Up(i)
  <2> SUFFICES ASSUME NEW i \in Ids, machines[i].owner = w PROVE ~Up(i)
    OBVIOUS
  <2>1. i = worker[w].id
    BY <1>1, <1>2, InvUse DEF OneMachine, Holds
  <2>2. QED BY <1>3, <2>1 DEF Up
<1>6. worker[w].id \in Nat
  BY <1>1, <1>2, MachineFacts DEF Holds
<1>7. QED BY <1>1, <1>2, <1>4, <1>5, <1>6, CallMoves

LEMMA GetEndStep ==
  ASSUME Inv, call # NoCall, machines' = machines, NEW reply, Given(reply), GetEnd(reply) \/ StopEnd(reply)
  PROVE  Inv'
<1>1. /\ reply.status # 404
      /\ late' \subseteq Workers /\ \A v \in Workers : v \in late' => v \in late \/ Asking(v)
  BY GivenFacts DEF Reply
<1>2. call.op \in {"get", "confirm"} /\ call' = NoCall
  BY DEF GetEnd, StopEnd
<1>3. CASE worker' = worker
  BY <1>1, <1>2, <1>3, CallDropped
<1>4. CASE reply.is = "stopped" /\ Move(call.worker, "stopped", worker[call.worker].id)
  BY <1>2, <1>4, StopSeen
<1>5. CASE worker[call.worker].phase = "launching" /\ Move(call.worker, "stopping", worker[call.worker].id)
  <2>1. call.worker \in Workers /\ worker[call.worker] \in WorkerRecord
    BY GivenFacts DEF TypeOK
  <2>2. /\ worker[call.worker].id \in Nat /\ worker[call.worker].id # 0
        /\ Holds(call.worker, worker[call.worker].id)
    BY <1>5, <2>1, InvUse DEF Sane, WorkerRecord
  <2>3. QED BY <1>1, <1>2, <1>5, <2>2, CallMoves
<1>6. QED BY <1>1, <1>3, <1>4, <1>5 DEF GetEnd, StopEnd

LEMMA StopNextStep ==
  ASSUME Inv, call # NoCall, machines' = machines, NEW reply, Given(reply), StopNext(reply)
  PROVE  Inv'
<1>1. /\ call.worker \in Workers /\ TypeOK /\ late' = late /\ worker' = worker /\ call.op = "delete"
      /\ late' \subseteq Workers /\ \A v \in Workers : v \in late' => v \in late \/ Asking(v)
  BY GivenFacts DEF StopNext
<1>2. CASE call' = NoCall
  BY <1>1, <1>2, CallDropped
<1>3. CASE call' = Call("confirm", call.worker)
  <2>1. PICK w \in Workers : w = call.worker
    BY <1>1
  <2>2. /\ call' \in ProviderCall /\ call' # NoCall /\ call'.op = "confirm" /\ call'.worker = w
        /\ call'.step = "asked" /\ call'.found = {} /\ call'.was = {} /\ call'.gone = {}
    BY <1>3, <2>1, CallBegins
  <2>3. TypeOK'
    BY <1>1, <2>2 DEF TypeOK
  <2>4. OneMachine'
    BY <1>1, InvUse, SameMachines, OneStays
  <2>5. \A v \in Workers : Sane(v)'
    <3> SUFFICES ASSUME NEW v \in Workers PROVE Sane(v)'
      OBVIOUS
    <3>1. Sane(v) /\ ~Asking(v)'
      BY <2>2, InvUse DEF Asking
    <3>2. QED BY <1>1, <3>1, SameMachines, SaneStays
  <2>6. CallSound'
    <3>1. worker[w].phase = "stopping"
      BY <1>1, <2>1, InvUse DEF CallSound
    <3>2. worker[w].id # 0
      BY <2>1, <3>1, InvUse DEF Sane
    <3>3. QED BY <1>1, <2>2, <3>1, <3>2 DEF CallSound
  <2>7. ListSound' /\ ListCovers'
    BY <2>2, NoListing
  <2>8. QED BY <2>3, <2>4, <2>5, <2>6, <2>7 DEF Inv
<1>4. QED BY <1>2, <1>3 DEF StopNext

\* The records of a list with those of one more page.
LEMMA MergeFacts ==
  ASSUME NEW found, NEW servers, NEW offset, \A r, q \in found : r[1] = q[1] => r = q
  PROVE  /\ Seen(Merge(found, servers, offset)) = Seen(found) \cup servers
         /\ \A r, q \in Merge(found, servers, offset) : r[1] = q[1] => r = q
<1> DEFINE new == (servers \ Seen(found)) \X {offset}
<1>1. \A r \in new : r[1] \in servers \ Seen(found) /\ r = <<r[1], offset>>
  OBVIOUS
<1>2. \A r \in found : r[1] \in Seen(found)
  BY DEF Seen
<1>3. Merge(found, servers, offset) = found \cup new
  BY DEF Merge
<1>4. \A i \in servers \ Seen(found) : <<i, offset>> \in new /\ <<i, offset>>[1] = i
  OBVIOUS
<1> HIDE DEF new
<1>5. \A r, q \in found \cup new : r[1] = q[1] => r = q
  <2> SUFFICES ASSUME NEW r \in found \cup new, NEW q \in found \cup new, r[1] = q[1]
               PROVE  r = q
    OBVIOUS
  <2>1. CASE r \in new /\ q \in new
    <3>1. r = <<r[1], offset>> /\ q = <<q[1], offset>>
      BY <1>1, <2>1
    <3>2. QED BY <3>1
  <2>2. QED BY <1>1, <1>2, <2>1
<1>6. Seen(found \cup new) = Seen(found) \cup servers
  <2>1. \A i \in Seen(found) : \E r \in found : r[1] = i
    BY DEF Seen
  <2>2. \A i \in Seen(found) \cup servers : \E r \in found \cup new : r[1] = i
    BY <1>4, <2>1
  <2>3. \A r \in found \cup new : r[1] \in Seen(found) \cup servers
    BY <1>1, <1>2
  <2>4. \A i : i \in Seen(found \cup new) <=> \E r \in found \cup new : r[1] = i
    BY DEF Seen
  <2>5. ASSUME NEW i PROVE i \in Seen(found \cup new) <=> i \in Seen(found) \cup servers
    <3>1. CASE i \in Seen(found \cup new)
      <4>1. PICK r \in found \cup new : r[1] = i
        BY <2>4, <3>1
      <4>2. QED BY <2>3, <3>1, <4>1
    <3>2. CASE i \in Seen(found) \cup servers
      <4>1. PICK r \in found \cup new : r[1] = i
        BY <2>2, <3>2
      <4>2. QED BY <2>4, <3>2, <4>1
    <3>3. QED BY <3>1, <3>2
  <2>6. QED BY <2>5, Zenon
<1>7. QED BY <1>3, <1>5, <1>6

LEMMA ListNextStep ==
  ASSUME Inv, call # NoCall, machines' = machines, order' = order, NEW reply, Given(reply), ListNext(reply)
  PROVE  Inv'
<1>1. /\ call.worker \in Workers /\ call \in ProviderCall /\ TypeOK /\ reply \in Reply /\ call.op = "list"
      /\ reply.status = 0 \/ (call.step = "answered" /\ reply = call.reply)
      /\ late' = late /\ worker' = worker
      /\ late' \subseteq Workers /\ \A v \in Workers : v \in late' => v \in late \/ Asking(v)
  BY GivenFacts DEF ListNext
<1>2. CASE call' = NoCall
  BY <1>1, <1>2, CallDropped
<1>3. CASE call' # NoCall
  <2> DEFINE found == Merge(call.found, reply.servers, call.offset)
  <2>1. /\ reply.status = 200 /\ call.step = "answered" /\ reply = call.reply
        /\ \/ ~reply.more /\ call' = [call EXCEPT !.step = "listed", !.reply = <<>>, !.found = found]
           \/ call' = [call EXCEPT !.step = "asked", !.reply = <<>>,
                                   !.offset = @ + PageSize, !.found = found]
    BY <1>1, <1>3 DEF ListNext
  <2>2. /\ Seen(found) = Seen(call.found) \cup reply.servers
        /\ \A r, q \in found : r[1] = q[1] => r = q
    BY InvUse, MergeFacts DEF ListSound
  <2>3. found \in SUBSET (Nat \X Nat) /\ call.offset \in Nat /\ PageSize \in Nat
    BY <1>1, OtherFacts DEF Merge, ProviderCall, Reply
  <2>4. Seen(found) \subseteq Ids
    BY <1>1, <2>1, <2>2, InvUse DEF ListSound
  <2> HIDE DEF found
  <2>5. /\ call' \in ProviderCall /\ call'.op = "list" /\ call'.worker = call.worker
        /\ call'.found = found /\ call'.was = call.was /\ call'.gone = call.gone
        /\ \/ ~reply.more /\ call'.step = "listed"
           \/ call'.step = "asked" /\ call'.offset = call.offset + PageSize
    <3>1. <<>> \in {<<>>} \cup Reply /\ call.offset + PageSize \in Nat
      BY <2>3
    <3>2. CASE ~reply.more /\ call' = [call EXCEPT !.step = "listed", !.reply = <<>>, !.found = found]
      <4>1. /\ call' \in ProviderCall /\ call'.op = call.op /\ call'.worker = call.worker
            /\ call'.found = found /\ call'.was = call.was /\ call'.gone = call.gone
            /\ call'.step = "listed"
        BY <1>1, <2>3, <3>1, <3>2 DEF ProviderCall
      <4>2. QED BY <1>1, <3>2, <4>1
    <3>3. CASE call' = [call EXCEPT !.step = "asked", !.reply = <<>>,
                                    !.offset = @ + PageSize, !.found = found]
      <4> DEFINE next == call.offset + PageSize
      <4>1. call' = [call EXCEPT !.step = "asked", !.reply = <<>>, !.offset = next, !.found = found]
        BY <3>3
      <4>2. next \in Nat /\ next = call.offset + PageSize
        BY <3>1
      <4> HIDE DEF next
      <4>3. /\ call' \in ProviderCall /\ call'.op = call.op /\ call'.worker = call.worker
            /\ call'.found = found /\ call'.was = call.was /\ call'.gone = call.gone
            /\ call'.step = "asked" /\ call'.offset = next
        BY <1>1, <2>3, <3>1, <4>1, <4>2 DEF ProviderCall
      <4>4. QED BY <1>1, <4>2, <4>3
    <3>4. QED BY <2>1, <3>2, <3>3
  <2>6. TypeOK'
    BY <1>1, <2>5 DEF TypeOK
  <2>7. OneMachine'
    BY <1>1, InvUse, SameMachines, OneStays
  <2>8. \A v \in Workers : Sane(v)'
    <3> SUFFICES ASSUME NEW v \in Workers PROVE Sane(v)'
      OBVIOUS
    <3>1. Sane(v) /\ ~Asking(v)'
      BY <2>5, InvUse DEF Asking
    <3>2. QED BY <1>1, <3>1, SameMachines, SaneStays
  <2>9. CallSound'
    BY <1>1, <2>5, InvUse DEF CallSound
  <2>10. Gone' = Gone /\ Ids' = Ids /\ \A i : Before(i)' = Before(i)
    BY SameMachines DEF Before, Listed, Up
  <2>11. ListSound'
    BY <1>1, <2>2, <2>4, <2>5, <2>10, InvUse DEF ListSound
  <2>12. ListCovers'
    <3> SUFFICES ASSUME Gone = call.gone, NEW i \in call.was,
                        ~reply.more \/ Cardinality(Before(i)) < call.offset + PageSize
                 PROVE  i \in Seen(call.found) \cup reply.servers
      BY <2>2, <2>5, <2>10 DEF ListCovers
    <3>1. QED BY <1>1, <2>1, InvUse DEF ListCovers
  <2>13. QED BY <2>6, <2>7, <2>8, <2>9, <2>11, <2>12 DEF Inv
<1>4. QED BY <1>2, <1>3

LEMMA ReceiveStep ==
  ASSUME Inv, call # NoCall, machines' = machines, order' = order, NEW reply, Given(reply), Receive(reply)
  PROVE  Inv'
BY StartEndStep, ListNextStep, GetEndStep, StopNextStep DEF Receive

\* A list that shows the machine of a worker shows it once.
LEMMA ReconcileEndStep ==
  ASSUME Inv, ReconcileEnd
  PROVE  Inv'
<1> DEFINE w == call.worker
           matches == {record \in call.found : machines[record[1]].owner = w}
<1>1. /\ TypeOK /\ machines' = machines /\ late' = late /\ call' = NoCall /\ call.op = "list" /\ call # NoCall
      /\ w \in Workers /\ late \subseteq Workers
  BY InvUse DEF ReconcileEnd, TypeOK, NoCall, ProviderCall
<1>2. \A r \in matches : Holds(w, r[1])
  BY <1>1, InvUse DEF ListSound, Seen, Holds
<1>3. \A r, q \in matches : r = q
  <2>1. \A r, q \in matches : r[1] = q[1]
    BY <1>1, <1>2, InvUse DEF OneMachine, Holds
  <2>2. QED BY <1>1, <2>1, InvUse DEF ListSound
<1> HIDE DEF matches
<1>4. ASSUME NEW r \in matches, Move(w, "launching", r[1])
      PROVE  Inv'
  <2>1. r[1] \in Nat /\ r[1] # 0 /\ Holds(w, r[1])
    <3>1. r[1] \in Ids /\ Holds(w, r[1]) /\ Len(machines) \in Nat
      BY <1>1, <1>2, <1>4, MachineFacts DEF Holds
    <3>2. QED BY <3>1 DEF Ids
  <2>2. QED BY <1>1, <1>4, <2>1, CallMoves
<1>5. CASE Cardinality(matches) # 1 /\ worker' = [worker EXCEPT ![w].review = matches # {}]
  <2>1. matches = {}
    <3>1. ASSUME NEW r \in matches PROVE FALSE
      <4>1. matches = {r}
        BY <1>3
      <4>2. QED BY <1>5, <4>1, FS_Singleton
    <3>2. QED BY <3>1
  <2>2. worker' = [worker EXCEPT ![w].review = FALSE]
    BY <1>5, <2>1
  <2>3. worker' = worker
    <3>1. worker[w] \in WorkerRecord /\ worker[w].review = FALSE
      BY <1>1, InvUse DEF TypeOK, WorkerRecord, Sane
    <3>2. [worker[w] EXCEPT !.review = FALSE] = worker[w]
      BY <3>1 DEF WorkerRecord
    <3>3. QED BY <1>1, <2>2, <3>2 DEF TypeOK
  <2>4. QED BY <1>1, <2>3, CallDropped
<1>6. QED BY <1>4, <1>5 DEF ReconcileEnd, Reconcile, matches

-----------------------------------------------------------------------------
LEMMA InvInit == Init => Inv
<1> SUFFICES ASSUME Init PROVE Inv
  OBVIOUS
<1>1. Ids = {} /\ call = NoCall /\ late = {}
  <2>1. machines = <<>> /\ call = NoCall /\ late = {}
    BY DEF Init
  <2>2. Len(machines) = 0
    BY <2>1
  <2>3. 1 .. Len(machines) = {}
    BY <2>2
  <2>4. QED BY <2>1, <2>3 DEF Ids
<1>2. TypeOK
  <2> DEFINE fresh == [phase |-> "requested", id |-> 0, review |-> FALSE]
  <2>1. fresh \in WorkerRecord
    BY DEF WorkerRecord, Phases
  <2>2. worker = [w \in Workers |-> fresh]
    BY DEF Init
  <2> HIDE DEF fresh
  <2>3. worker \in [Workers -> WorkerRecord]
    BY <2>1, <2>2
  <2>4. machines = <<>>
    BY DEF Init
  <2>5. machines \in Seq(Machine)
    BY <2>4
  <2>6. QED BY <1>1, <2>3, <2>5 DEF TypeOK
<1>3. \A w \in Workers : Sane(w)
  <2>1. \A w \in Workers : worker[w].phase = "requested" /\ worker[w].id = 0 /\ ~worker[w].review
    BY DEF Init
  <2>2. QED BY <1>1, <2>1 DEF Sane, Asking, Without
<1>4. OneMachine /\ CallSound /\ ListSound /\ ListCovers
  BY <1>1 DEF OneMachine, CallSound, ListSound, ListCovers
<1>5. QED BY <1>2, <1>3, <1>4 DEF Inv

LEMMA InvStep ==
  ASSUME Inv, [Next]_vars
  PROVE  Inv'
<1>1. CASE UNCHANGED vars \/ Control
  BY <1>1, ControlStep DEF vars, Control
<1>2. CASE Serve
  BY <1>2, ServeStep
<1>3. CASE Return
  <2>1. Given(call.reply)
    BY <1>3 DEF Return, Given
  <2>2. QED BY <1>3, <2>1, ReceiveStep DEF Return
<1>4. CASE Timeout
  <2>1. Given(Answer(0))
    BY <1>4 DEF Timeout, Given
  <2>2. QED BY <1>4, <2>1, ReceiveStep DEF Timeout
<1>5. CASE ReconcileEnd \/ Crash \/ OtherStart \/ Tick
  BY <1>5, ReconcileEndStep, CrashStep, OtherStartStep, TickStep
<1>6. CASE \E i \in Ids : Advance(i)
  BY <1>6, AdvanceStep
<1>7. CASE \E w \in Workers : Begin(w) \/ ServeLate(w)
  BY <1>7, StartBeginStep, OtherBeginStep, ServeLateStep DEF Begin
<1>8. CASE \E w \in Workers : Hear(w) \/ Quiet(w) \/ Drain(w)
  BY <1>8, ControlStep DEF Hear, Quiet, Drain, Report
<1>9. QED BY <1>1, <1>2, <1>3, <1>4, <1>5, <1>6, <1>7, <1>8 DEF Next

LEMMA Invariance == Spec => []Inv
BY InvInit, InvStep, PTL DEF Spec

\* A worker never has a second machine, however many of its calls are lost,
\* repeated, answered with an error or acted on after they were given up.
THEOREM WorkersHaveOneMachine == Spec => []OneMachine
<1>1. Inv => OneMachine
  BY DEF Inv
<1>2. QED BY <1>1, Invariance, PTL

\* A worker is given up only when it has no machine that runs and no request
\* for one on its way.
THEOREM NothingIsLeftRunning == Spec => []NoOrphans
<1>1. Inv => NoOrphans
  BY DEF Inv, Sane, NoOrphans
<1>2. QED BY <1>1, Invariance, PTL

\* A list that comes to an end has seen every machine that was up all the time,
\* whatever the size of a page and the order of the list, if none has stopped.
THEOREM ListsAreComplete == Spec => []ListIsComplete
<1>1. Inv => ListIsComplete
  <2> SUFFICES ASSUME Inv, call # NoCall, call.step = "listed", Gone = call.gone
               PROVE  call.was \subseteq Seen(call.found)
    BY DEF ListIsComplete, Gone
  <2>1. call.op = "list"
    BY InvUse DEF CallSound
  <2>2. QED BY <2>1, InvUse DEF ListCovers
<1>2. QED BY <1>1, Invariance, PTL

\* A worker is never handed to an operator for a second machine it does not have.
THEOREM OperatorsAreNotCalled == Spec => []NoFalseAlarm
<1>1. Inv => NoFalseAlarm
  BY DEF Inv, Sane, NoFalseAlarm
<1>2. QED BY <1>1, Invariance, PTL

=============================================================================
