---------------------------- MODULE NotifyProofs ----------------------------
(***************************************************************************)
(* What a tick tells the world is true, and is told once: for any number   *)
(* of allocations, users, controllers, workers and crashes.  The two       *)
(* halves of MCNotify share no variable, so each is proved for its own     *)
(* specification.                                                          *)
(***************************************************************************)
EXTENDS MCNotify, Sequences, TLAPS

Revisions == 1 .. MaxRevision
Ticks == [step : {"idle", "choosing", "sending"}, seen : SUBSET (Allocations \X Revisions),
          at : (Allocations \X Revisions) \cup {<<>>}, left : SUBSET Users, ok : BOOLEAN]

TypeOK == /\ revision \in [Allocations -> Revisions]
          /\ notified \in [Allocations -> 0 .. MaxRevision]
          /\ inbox \in [Allocations -> [Users -> SUBSET Revisions]]
          /\ ctl \in [Controllers -> Ticks]

\* What is recorded was read before, and revisions only grow.
NotAhead == \A a \in Allocations : notified[a] <= revision[a]

\* A tick without a failed send has sent what it is about to record to all
\* users but those that are left.
SendsArrive ==
    \A p \in Controllers : ctl[p].step = "sending" =>
        /\ ctl[p].at \in Allocations \X Revisions
        /\ ctl[p].ok => \A u \in Users \ ctl[p].left : ctl[p].at[2] \in inbox[ctl[p].at[1]][u]

NotifyInv == TypeOK /\ NotAhead /\ SendsArrive /\ RecordedWasSent

-----------------------------------------------------------------------------
LEMMA NotifyInit == Init => NotifyInv
<1> SUFFICES ASSUME Init PROVE NotifyInv
  OBVIOUS
<1>1. Revisions \subseteq Int /\ 1 \in Revisions /\ MaxRevision \in Nat
  BY BoundsAssumption DEF Revisions
<1>2. Idle \in Ticks
  BY DEF Idle, Ticks
<1>3. TypeOK
  BY <1>1, <1>2 DEF Init, TypeOK
<1>4. NotAhead /\ RecordedWasSent
  BY DEF Init, NotAhead, RecordedWasSent
<1>5. SendsArrive
  BY DEF Init, SendsArrive, Idle
<1>6. QED BY <1>3, <1>4, <1>5 DEF NotifyInv

\* A step that leaves the revisions a user was sent where they are, takes
\* notified nowhere, and gives up what a controller was sending.
LEMMA NotifyQuiet ==
  ASSUME NotifyInv, UNCHANGED <<notified, inbox>>, ctl' \in [Controllers -> Ticks],
         revision' \in [Allocations -> Revisions],
         \A a \in Allocations : revision[a] <= revision'[a],
         \A p \in Controllers : \/ ctl'[p] = ctl[p]
                                \/ ctl'[p].step # "sending"
                                \/ ctl'[p].at \in Allocations \X Revisions /\ ctl'[p].left = Users
  PROVE  NotifyInv'
<1>1. TypeOK'
  BY DEF NotifyInv, TypeOK
<1>2. NotAhead'
  <2>1. \A a \in Allocations : /\ notified[a] \in Int /\ revision[a] \in Int /\ revision'[a] \in Int
                               /\ notified[a] <= revision[a] /\ revision[a] <= revision'[a]
    BY BoundsAssumption DEF NotifyInv, TypeOK, NotAhead, Revisions
  <2>2. QED BY <2>1 DEF NotAhead
<1>3. SendsArrive' /\ RecordedWasSent'
  BY DEF NotifyInv, SendsArrive, RecordedWasSent
<1>4. QED BY <1>1, <1>2, <1>3 DEF NotifyInv

LEMMA SendStep ==
  ASSUME NotifyInv, NEW p \in Controllers, NEW a \in Allocations, NEW u \in Users,
         NEW ok \in BOOLEAN, Send(p, a, u, ok)
  PROVE  NotifyInv'
<1> DEFINE r == ctl[p].at[2]
<1>1. /\ TypeOK /\ ctl[p] \in Ticks /\ ctl[p].step = "sending" /\ ctl[p].at \in Allocations \X Revisions
      /\ ctl[p].at[1] = a /\ r \in Revisions
  BY DEF NotifyInv, TypeOK, SendsArrive, Send
<1>2. /\ ctl'[p] = [ctl[p] EXCEPT !.left = @ \ {u}, !.ok = @ /\ ok]
      /\ \A q \in Controllers \ {p} : ctl'[q] = ctl[q]
      /\ ctl' \in [Controllers -> Ticks]
  <2>1. [ctl[p] EXCEPT !.left = @ \ {u}, !.ok = @ /\ ok] \in Ticks
    BY <1>1 DEF Ticks
  <2>2. ctl' = [ctl EXCEPT ![p] = [ctl[p] EXCEPT !.left = @ \ {u}, !.ok = @ /\ ok]]
    BY <1>1 DEF Send, TypeOK
  <2>3. QED BY <1>1, <2>1, <2>2 DEF TypeOK
<1>3. /\ inbox' \in [Allocations -> [Users -> SUBSET Revisions]]
      /\ \A b \in Allocations, v \in Users : inbox[b][v] \subseteq inbox'[b][v]
      /\ ok => r \in inbox'[a][u]
  BY <1>1 DEF Send, TypeOK
<1>4. revision' = revision /\ notified' = notified
  BY DEF Send, store
<1>5. TypeOK' /\ NotAhead' /\ RecordedWasSent'
  BY <1>2, <1>3, <1>4 DEF NotifyInv, TypeOK, NotAhead, RecordedWasSent
<1>6. SendsArrive'
  <2> SUFFICES ASSUME NEW q \in Controllers, ctl'[q].step = "sending"
               PROVE  /\ ctl'[q].at \in Allocations \X Revisions
                      /\ ctl'[q].ok => \A v \in Users \ ctl'[q].left :
                                          ctl'[q].at[2] \in inbox'[ctl'[q].at[1]][v]
    BY DEF SendsArrive
  <2>1. CASE q # p
    <3>1. ctl'[q] = ctl[q] /\ ctl[q].at \in Allocations \X Revisions
      BY <1>2, <2>1 DEF NotifyInv, SendsArrive
    <3>2. ctl[q].ok => \A v \in Users \ ctl[q].left : ctl[q].at[2] \in inbox[ctl[q].at[1]][v]
      BY <1>2, <2>1 DEF NotifyInv, SendsArrive
    <3>3. QED BY <1>3, <3>1, <3>2
  <2>2. CASE q = p
    <3>1. ctl'[p].at = ctl[p].at /\ ctl'[p].left = ctl[p].left \ {u} /\ (ctl'[p].ok <=> (ctl[p].ok /\ ok))
      BY <1>1, <1>2 DEF Ticks
    <3>2. ctl[p].ok => \A v \in Users \ ctl[p].left : r \in inbox[a][v]
      BY <1>1 DEF NotifyInv, SendsArrive
    <3>3. ctl'[p].ok => \A v \in Users \ ctl'[p].left : r \in inbox'[a][v]
      BY <1>3, <3>1, <3>2
    <3>4. QED BY <1>1, <2>2, <3>1, <3>3
  <2>3. QED BY <2>1, <2>2
<1>7. QED BY <1>5, <1>6 DEF NotifyInv

LEMMA RecordStep ==
  ASSUME NotifyInv, NEW p \in Controllers, NEW ok \in BOOLEAN, Record(p, ok)
  PROVE  /\ NotifyInv'
         /\ \A a \in Allocations : notified'[a] >= notified[a]
<1> DEFINE a == ctl[p].at[1]
           r == ctl[p].at[2]
<1>1. /\ TypeOK /\ ctl[p] \in Ticks /\ ctl[p].step = "sending" /\ ctl[p].left = {}
      /\ a \in Allocations /\ r \in Revisions
  BY DEF NotifyInv, TypeOK, SendsArrive, Record
<1>2. /\ ctl' \in [Controllers -> Ticks]
      /\ \A q \in Controllers : ctl'[q] = ctl[q] \/ ctl'[q].step # "sending"
  <2>1. Idle \in Ticks /\ Idle.step # "sending"
    BY DEF Idle, Ticks
  <2>2. [ctl[p] EXCEPT !.step = "choosing", !.at = <<>>] \in Ticks
    BY <1>1 DEF Ticks
  <2>3. [ctl[p] EXCEPT !.step = "choosing", !.at = <<>>].step # "sending"
    BY <1>1 DEF Ticks
  <2>4. \E k \in Ticks : k.step # "sending" /\ ctl' = [ctl EXCEPT ![p] = k]
    BY <1>1, <2>1, <2>2, <2>3 DEF Record, TypeOK
  <2>5. QED BY <1>1, <2>4 DEF TypeOK
<1>3. UNCHANGED <<revision, phase, inbox>>
  BY DEF Record
<1>4. CASE notified' = notified
  <2>1. \A b \in Allocations : notified[b] \in Int
    BY <1>1, BoundsAssumption DEF TypeOK
  <2>2. \A b \in Allocations : revision[b] <= revision'[b]
    BY <1>1, <1>3, BoundsAssumption DEF TypeOK, Revisions
  <2>3. NotifyInv'
    BY <1>1, <1>2, <1>3, <1>4, <2>2, NotifyQuiet DEF TypeOK
  <2>4. QED BY <1>4, <2>1, <2>3
<1>5. CASE notified' # notified
  <2>1. ctl[p].ok /\ revision[a] = r /\ notified' = [notified EXCEPT ![a] = r]
    BY <1>5 DEF Record, Recorded
  <2>2. \A u \in Users : r \in inbox[a][u]
    BY <1>1, <2>1 DEF NotifyInv, SendsArrive
  <2>3. TypeOK'
    BY <1>1, <1>2, <1>3, <2>1, BoundsAssumption DEF TypeOK, Revisions
  <2>4. \A b \in Allocations :
          /\ notified[b] \in Int /\ notified[b] <= revision[b]
          /\ notified'[b] = IF b = a THEN r ELSE notified[b]
    BY <1>1, <2>1, BoundsAssumption DEF NotifyInv, TypeOK, NotAhead
  <2>5. \A b \in Allocations : notified'[b] <= revision[b] /\ notified'[b] >= notified[b]
    BY <1>1, <2>1, <2>4, BoundsAssumption DEF Revisions
  <2>6. RecordedWasSent'
    BY <1>3, <2>2, <2>4 DEF NotifyInv, RecordedWasSent
  <2>7. NotAhead'
    BY <1>3, <2>5 DEF NotAhead
  <2>8. SendsArrive'
    BY <1>2, <1>3 DEF NotifyInv, SendsArrive
  <2>9. QED BY <2>3, <2>5, <2>6, <2>7, <2>8 DEF NotifyInv
<1>6. QED BY <1>4, <1>5

LEMMA ChooseStep ==
  ASSUME NotifyInv, NEW p \in Controllers, Begin(p) \/ Choose(p) \/ Crash(p)
  PROVE  NotifyInv' /\ notified' = notified
<1>1. /\ UNCHANGED <<notified, inbox, revision>> /\ TypeOK
      /\ ctl[p] \in Ticks
  BY DEF Begin, Choose, Crash, store, NotifyInv, TypeOK
<1>2. Due \subseteq Allocations \X Revisions
  BY DEF Due, Revisions
<1>3. \E k \in Ticks : /\ ctl' = [ctl EXCEPT ![p] = k]
                       /\ k.step # "sending" \/ (k.at \in Allocations \X Revisions /\ k.left = Users)
  <2>1. CASE Begin(p)
    <3>1. [Idle EXCEPT !.step = "choosing", !.seen = Due] \in Ticks
      BY <1>2 DEF Idle, Ticks
    <3>2. [Idle EXCEPT !.step = "choosing", !.seen = Due].step = "choosing"
      BY DEF Idle
    <3>3. QED BY <2>1, <3>1, <3>2 DEF Begin
  <2>2. Idle \in Ticks /\ Idle.step = "idle"
    BY DEF Idle, Ticks
  <2>3. CASE Choose(p) /\ ctl[p].seen # {}
    <3>1. PICK at \in ctl[p].seen :
            ctl' = [ctl EXCEPT ![p] = [step |-> "sending", seen |-> @.seen \ {at},
                                       at |-> at, left |-> Users, ok |-> TRUE]]
      BY <2>3 DEF Choose
    <3>2. at \in Allocations \X Revisions /\ ctl[p].seen \in SUBSET (Allocations \X Revisions)
      BY <1>1, <3>1 DEF Ticks
    <3> DEFINE k == [step |-> "sending", seen |-> ctl[p].seen \ {at}, at |-> at,
                     left |-> Users, ok |-> TRUE]
    <3>3. k \in Ticks
      BY <3>2 DEF Ticks
    <3>4. ctl' = [ctl EXCEPT ![p] = k]
      BY <1>1, <3>1 DEF TypeOK
    <3>5. QED BY <3>2, <3>3, <3>4
  <2>4. CASE Choose(p) /\ ctl[p].seen = {}
    BY <2>2, <2>4 DEF Choose
  <2>5. CASE Crash(p)
    BY <2>2, <2>5 DEF Crash
  <2>6. QED BY <2>1, <2>3, <2>4, <2>5
<1>4. /\ ctl' \in [Controllers -> Ticks]
      /\ \A q \in Controllers : \/ ctl'[q] = ctl[q] \/ ctl'[q].step # "sending"
                                \/ ctl'[q].at \in Allocations \X Revisions /\ ctl'[q].left = Users
  BY <1>1, <1>3 DEF TypeOK
<1>5. \A a \in Allocations : revision[a] <= revision'[a]
  BY <1>1, BoundsAssumption DEF TypeOK, Revisions
<1>6. revision' \in [Allocations -> Revisions]
  BY <1>1 DEF TypeOK
<1>7. QED BY <1>1, <1>4, <1>5, <1>6, NotifyQuiet

LEMMA ChangeStep ==
  ASSUME NotifyInv, NEW a \in Allocations, Touch(a) \/ Prune(a)
  PROVE  NotifyInv' /\ notified' = notified
<1>1. /\ UNCHANGED <<notified, inbox, ctl>> /\ TypeOK
      /\ revision' = revision \/ (revision[a] < MaxRevision /\ revision' = [revision EXCEPT ![a] = @ + 1])
  BY DEF Touch, Prune, NotifyInv
<1>2. /\ revision' \in [Allocations -> Revisions]
      /\ \A b \in Allocations : revision[b] <= revision'[b]
  <2>1. \A b \in Allocations : revision[b] \in Revisions /\ revision[b] \in Int
    BY <1>1 DEF TypeOK, Revisions
  <2>2. CASE revision' = revision
    BY <1>1, <2>1, <2>2 DEF TypeOK
  <2>3. CASE revision[a] < MaxRevision /\ revision' = [revision EXCEPT ![a] = @ + 1]
    <3>1. revision[a] + 1 \in Revisions
      BY <2>1, <2>3, BoundsAssumption DEF Revisions
    <3>2. \A b \in Allocations : revision'[b] = IF b = a THEN revision[a] + 1 ELSE revision[b]
      BY <1>1, <2>3 DEF TypeOK
    <3>3. revision' \in [Allocations -> Revisions]
      BY <1>1, <2>3, <3>1 DEF TypeOK
    <3>4. QED BY <2>1, <3>2, <3>3
  <2>4. QED BY <1>1, <2>2, <2>3
<1>3. ctl' \in [Controllers -> Ticks]
  BY <1>1 DEF TypeOK
<1>4. QED BY <1>1, <1>2, <1>3, NotifyQuiet

LEMMA NotifyStep ==
  ASSUME NotifyInv, [Next]_vars
  PROVE  NotifyInv' /\ \A a \in Allocations : notified'[a] >= notified[a]
<1>1. \A a \in Allocations : notified[a] \in Int
  BY BoundsAssumption DEF NotifyInv, TypeOK
<1>2. CASE UNCHANGED vars
  <2>1. NotifyInv'
    BY <1>2 DEF vars, NotifyInv, TypeOK, NotAhead, SendsArrive, RecordedWasSent
  <2>2. QED BY <1>1, <1>2, <2>1 DEF vars
<1>3. CASE \E a \in Allocations : Touch(a) \/ Prune(a)
  BY <1>1, <1>3, ChangeStep
<1>4. CASE \E p \in Controllers : Begin(p) \/ Choose(p) \/ Crash(p)
  BY <1>1, <1>4, ChooseStep
<1>5. CASE \E p \in Controllers, ok \in BOOLEAN : Record(p, ok)
  BY <1>5, RecordStep
<1>6. CASE \E p \in Controllers, a \in Allocations, u \in Users, ok \in BOOLEAN : Send(p, a, u, ok)
  <2>1. notified' = notified
    BY <1>6 DEF Send, store
  <2>2. QED BY <1>1, <1>6, <2>1, SendStep
<1>7. QED BY <1>2, <1>3, <1>4, <1>5, <1>6 DEF Next

\* A revision counts as notified only when all users were sent it, whichever
\* controllers sent, failed, were overtaken or died on the way.
THEOREM NobodyIsForgotten == Spec => []RecordedWasSent
<1>1. NotifyInv => RecordedWasSent
  BY DEF NotifyInv
<1>2. QED BY <1>1, NotifyInit, NotifyStep, PTL DEF Spec

\* What is recorded of one allocation only moves forward, although a controller
\* that lost the lease may record after its successor.
THEOREM RecordsMoveForward == Spec => NotifiedNeverFalls
<1>1. NotifyInv /\ [Next]_vars => [\A a \in Allocations : notified'[a] >= notified[a]]_vars
  BY NotifyStep
<1>2. QED BY <1>1, NotifyInit, NotifyStep, PTL DEF Spec, NotifiedNeverFalls

-----------------------------------------------------------------------------
(* The callbacks of Create.                                                *)

Stages == {"absent", "coming", "ready", "away", "ended"}
Rooms == {"none", "waiting", "given", "over", "cancelled"}
Outcomes == {"success", "timeout"}

CallbackTypes ==
    /\ stage \in [Workers -> Stages] /\ room \in [Workers -> Rooms]
    /\ overdue \in [Workers -> BOOLEAN]
    /\ creating \subseteq Workers /\ callbacks \subseteq Workers
    /\ calls \in [Workers -> Seq(Outcomes)]
    /\ \/ tick = CB!Idle
       \/ tick \in [step : {"viewed"}, stage : [Workers -> Stages], room : [Workers -> Rooms], ready : {{}}]
       \/ tick \in [step : {"calling"}, stage : [Workers -> Stages], room : [Workers -> Rooms],
                    ready : SUBSET (Workers \X Outcomes)]

Told(w) == \E outcome \in Outcomes : <<w, outcome>> \in tick.ready

\* An answer is still to be registered, registered, decided on or given.
InOnePlace(w) ==
    /\ w \in creating => w \notin callbacks
    /\ w \in creating \cup callbacks => ~Told(w) /\ calls[w] = <<>>
    /\ Told(w) => calls[w] = <<>>
    /\ ~(<<w, "success">> \in tick.ready /\ <<w, "timeout">> \in tick.ready)
    /\ stage[w] = "absent" => w \notin creating \cup callbacks /\ ~Told(w) /\ calls[w] = <<>>

\* A room that was given stays so, or is over; a worker that ended stays ended.
Onward(w) ==
    tick.step = "viewed" =>
        /\ tick.stage[w] # "absent" => stage[w] # "absent"
        /\ tick.stage[w] # "absent" /\ tick.room[w] = "none" => room[w] = "none"
        /\ tick.stage[w] # "absent" /\ tick.room[w] = "given" => room[w] \in {"given", "over"}
        /\ tick.stage[w] = "ended" => stage[w] = "ended"

\* What is decided or was told is true.
Deserved(w) ==
    /\ <<w, "success">> \in tick.ready \/ calls[w] = <<"success">> => room[w] \notin {"waiting", "cancelled"}
    /\ <<w, "timeout">> \in tick.ready \/ calls[w] = <<"timeout">> => overdue[w] \/ stage[w] = "ended"

CallbackInv ==
    CallbackTypes /\ CalledOnce /\ \A w \in Workers : InOnePlace(w) /\ Onward(w) /\ Deserved(w)

LEMMA CallbackInit == CB!Init => CallbackInv
<1> SUFFICES ASSUME CB!Init PROVE CallbackInv
  OBVIOUS
<1>1. tick = CB!Idle /\ tick.ready = {} /\ tick.step = "idle"
  BY DEF CB!Init, CB!Idle
<1>2. \A w \in Workers : calls[w] = <<>> /\ stage[w] = "absent"
  BY DEF CB!Init
<1>3. CallbackTypes
  <2>1. <<>> \in Seq(Outcomes)
    OBVIOUS
  <2>2. QED BY <1>1, <2>1 DEF CB!Init, CallbackTypes, Stages, Rooms
<1>4. CalledOnce
  BY <1>2 DEF CalledOnce, CB!CalledOnce
<1>5. \A w \in Workers : InOnePlace(w) /\ Onward(w) /\ Deserved(w)
  BY <1>1, <1>2 DEF InOnePlace, Onward, Deserved, Told, CB!Init
<1>6. QED BY <1>3, <1>4, <1>5 DEF CallbackInv

\* A worker and its room move on, and nothing else does.
LEMMA Ageing ==
  ASSUME CallbackInv, UNCHANGED <<creating, callbacks, tick, calls>>,
         stage' \in [Workers -> Stages], room' \in [Workers -> Rooms], overdue' \in [Workers -> BOOLEAN],
         \A w \in Workers :
            /\ stage'[w] = "absent" => stage[w] = "absent"
            /\ stage[w] = "ended" => stage'[w] = "ended"
            /\ stage[w] # "absent" /\ room[w] = "none" => room'[w] = "none"
            /\ stage[w] # "absent" /\ room[w] \in {"given", "over"} => room'[w] \in {"given", "over"}
            /\ overdue[w] => overdue'[w]
  PROVE  CallbackInv'
<1>1. CallbackTypes'
  BY DEF CallbackInv, CallbackTypes
<1>2. CalledOnce'
  BY DEF CallbackInv, CalledOnce, CB!CalledOnce
<1>3. ASSUME NEW w \in Workers
      PROVE  InOnePlace(w)' /\ Onward(w)' /\ Deserved(w)'
  <2>1. InOnePlace(w) /\ Onward(w) /\ Deserved(w) /\ room[w] \in Rooms
    BY DEF CallbackInv, CallbackTypes
  <2>2. InOnePlace(w)'
    BY <2>1 DEF InOnePlace, Told
  <2>3. Onward(w)'
    BY <2>1 DEF Onward
  <2>4. stage[w] = "absent" => ~Told(w) /\ calls[w] = <<>>
    BY <2>1 DEF InOnePlace
  <2>5. stage[w] = "absent" =>
          ~(<<w, "success">> \in tick.ready \/ calls[w] = <<"success">>)
          /\ ~(<<w, "timeout">> \in tick.ready \/ calls[w] = <<"timeout">>)
    BY <2>4 DEF Told, Outcomes
  <2>6. Deserved(w)'
    BY <2>1, <2>5 DEF Deserved, Rooms
  <2>7. QED BY <2>2, <2>3, <2>6
<1>4. QED BY <1>1, <1>2, <1>3 DEF CallbackInv

LEMMA CreateStep ==
  ASSUME CallbackInv, NEW w \in Workers, CB!Create(w)
  PROVE  CallbackInv'
<1>1. CallbackTypes /\ stage[w] = "absent" /\ UNCHANGED <<overdue, callbacks, tick, calls>>
  BY DEF CallbackInv, CB!Create
<1>2. PICK r \in {"none", "waiting"} : room' = [room EXCEPT ![w] = r]
  BY DEF CB!Create
<1>3. stage' = [stage EXCEPT ![w] = "coming"] /\ creating' = creating \cup {w}
  BY DEF CB!Create
<1>4. CallbackTypes'
  BY <1>1, <1>2, <1>3 DEF CallbackTypes, Stages, Rooms
<1>5. CalledOnce'
  BY <1>1 DEF CallbackInv, CalledOnce, CB!CalledOnce
<1>6. ASSUME NEW v \in Workers \ {w}
      PROVE  InOnePlace(v)' /\ Onward(v)' /\ Deserved(v)'
  <2>1. InOnePlace(v) /\ Onward(v) /\ Deserved(v)
    BY DEF CallbackInv
  <2>2. stage'[v] = stage[v] /\ room'[v] = room[v] /\ (v \in creating' <=> v \in creating)
    BY <1>1, <1>2, <1>3 DEF CallbackTypes
  <2>3. QED BY <1>1, <2>1, <2>2 DEF InOnePlace, Onward, Deserved, Told
<1>7. InOnePlace(w)' /\ Onward(w)' /\ Deserved(w)'
  <2>1. InOnePlace(w) /\ Onward(w) /\ Deserved(w)
    BY DEF CallbackInv
  <2>2. w \notin callbacks /\ ~Told(w) /\ calls[w] = <<>> /\ stage'[w] = "coming"
    BY <1>1, <1>3, <2>1 DEF InOnePlace, CallbackTypes
  <2>3. <<w, "success">> \notin tick.ready /\ <<w, "timeout">> \notin tick.ready
    BY <2>2 DEF Told, Outcomes
  <2>4. InOnePlace(w)'
    BY <1>1, <1>3, <2>2, <2>3 DEF InOnePlace, Told
  <2>5. tick.step = "viewed" => tick.stage[w] = "absent"
    BY <1>1, <2>1 DEF Onward
  <2>6. Onward(w)'
    BY <1>1, <2>5 DEF Onward
  <2>7. Deserved(w)'
    BY <1>1, <2>2, <2>3 DEF Deserved
  <2>8. QED BY <2>4, <2>6, <2>7
<1>8. QED BY <1>4, <1>5, <1>6, <1>7 DEF CallbackInv

LEMMA RegisterStep ==
  ASSUME CallbackInv, NEW w \in Workers, CB!Register(w)
  PROVE  CallbackInv'
<1>1. /\ UNCHANGED <<stage, room, overdue, tick, calls>> /\ w \in creating
      /\ creating' = creating \ {w} /\ callbacks' = callbacks \cup {w}
  BY DEF CB!Register, CB!store
<1>2. CallbackTypes' /\ CalledOnce'
  BY <1>1 DEF CallbackInv, CallbackTypes, CalledOnce, CB!CalledOnce
<1>3. ASSUME NEW v \in Workers
      PROVE  InOnePlace(v)' /\ Onward(v)' /\ Deserved(v)'
  <2>1. InOnePlace(v) /\ Onward(v) /\ Deserved(v)
    BY DEF CallbackInv
  <2>2. Onward(v)' /\ Deserved(v)'
    BY <1>1, <2>1 DEF Onward, Deserved
  <2>3. InOnePlace(v)'
    BY <1>1, <2>1 DEF InOnePlace, Told
  <2>4. QED BY <2>2, <2>3
<1>4. QED BY <1>2, <1>3 DEF CallbackInv

LEMMA ChangeOfWorker ==
  ASSUME CallbackInv, NEW w \in Workers, CB!Change(w) \/ CB!TimePasses(w)
  PROVE  CallbackInv'
<1>1. CallbackTypes /\ UNCHANGED <<creating, callbacks, tick, calls>>
  BY DEF CallbackInv, CB!Change, CB!TimePasses
<1>2. stage[w] \in Stages /\ room[w] \in Rooms
  BY <1>1 DEF CallbackTypes
<1>3. CASE CB!TimePasses(w)
  <2>1. stage' = stage /\ room' = room /\ overdue' = [overdue EXCEPT ![w] = TRUE]
    BY <1>3 DEF CB!TimePasses
  <2>2. QED BY <1>1, <2>1, Ageing DEF CallbackTypes
<1>4. ASSUME NEW s \in CB!Moves[stage[w]], stage' = [stage EXCEPT ![w] = s], overdue' = overdue,
             room' = [room EXCEPT ![w] = IF s = "ended" /\ @ = "given" THEN "over" ELSE @]
      PROVE  CallbackInv'
  <2>1. s \in Stages \ {"absent"} /\ stage[w] # "ended" /\ stage[w] # "absent"
    BY <1>2, <1>4 DEF CB!Moves, Stages
  <2>2. room'[w] = IF s = "ended" /\ room[w] = "given" THEN "over" ELSE room[w]
    BY <1>1, <1>4 DEF CallbackTypes
  <2>3. room'[w] \in Rooms
    BY <1>2, <2>2 DEF Rooms
  <2>4. room' = [room EXCEPT ![w] = room'[w]]
    BY <1>1, <1>4, <2>2 DEF CallbackTypes
  <2>5. /\ stage' \in [Workers -> Stages] /\ room' \in [Workers -> Rooms]
        /\ overdue' \in [Workers -> BOOLEAN]
    BY <1>1, <1>4, <2>1, <2>3, <2>4 DEF CallbackTypes
  <2>6. \A v \in Workers : v # w => stage'[v] = stage[v] /\ room'[v] = room[v]
    BY <1>1, <1>4 DEF CallbackTypes
  <2>7. stage'[w] = s
    BY <1>1, <1>4 DEF CallbackTypes
  <2>8. QED BY <1>1, <1>4, <2>1, <2>2, <2>5, <2>6, <2>7, Ageing
<1>5. ASSUME NEW r \in CB!RoomMoves[room[w]], room' = [room EXCEPT ![w] = r],
             stage' = stage, overdue' = overdue
      PROVE  CallbackInv'
  <2>1. /\ r \in Rooms /\ room[w] \in {"waiting", "given"}
        /\ room[w] = "given" => r = "over"
    BY <1>2, <1>5 DEF CB!RoomMoves, Rooms
  <2>2. /\ stage' \in [Workers -> Stages] /\ room' \in [Workers -> Rooms]
        /\ overdue' \in [Workers -> BOOLEAN]
    BY <1>1, <1>5, <2>1 DEF CallbackTypes
  <2>3. \A v \in Workers : room'[v] = IF v = w THEN r ELSE room[v]
    BY <1>1, <1>5 DEF CallbackTypes
  <2>4. QED BY <1>1, <1>5, <2>1, <2>2, <2>3, Ageing
<1>6. QED BY <1>3, <1>4, <1>5 DEF CB!Change

LEMMA ViewStep ==
  ASSUME CallbackInv, CB!View
  PROVE  CallbackInv'
<1>1. /\ UNCHANGED <<stage, room, overdue, creating, callbacks, calls>>
      /\ tick.step = "idle" /\ tick' = [tick EXCEPT !.step = "viewed", !.stage = stage, !.room = room]
  BY DEF CB!View, CB!store
<1>2. CallbackTypes /\ tick = CB!Idle
  BY <1>1 DEF CallbackInv, CallbackTypes
<1>3. tick' = [step |-> "viewed", stage |-> stage, room |-> room, ready |-> {}] /\ tick.ready = {}
  BY <1>1, <1>2 DEF CB!Idle
<1>4. CallbackTypes' /\ CalledOnce'
  BY <1>1, <1>2, <1>3 DEF CallbackInv, CallbackTypes, CalledOnce, CB!CalledOnce
<1>5. ASSUME NEW w \in Workers
      PROVE  InOnePlace(w)' /\ Onward(w)' /\ Deserved(w)'
  <2>1. InOnePlace(w) /\ Deserved(w)
    BY DEF CallbackInv
  <2>2. InOnePlace(w)'
    BY <1>1, <1>3, <2>1 DEF InOnePlace, Told
  <2>3. Onward(w)'
    BY <1>1, <1>3 DEF Onward
  <2>4. Deserved(w)'
    BY <1>1, <1>3, <2>1 DEF Deserved
  <2>5. QED BY <2>2, <2>3, <2>4
<1>6. QED BY <1>4, <1>5 DEF CallbackInv

LEMMA DecideStep ==
  ASSUME CallbackInv, CB!Decide
  PROVE  CallbackInv'
<1> DEFINE success == {w \in callbacks : CB!Served(w)}
           timeout == {w \in callbacks \ success : CB!Failed(w)}
           due == (success \X {"success"}) \cup (timeout \X {"timeout"})
<1>1. /\ UNCHANGED <<stage, room, overdue, creating, calls>> /\ tick.step = "viewed"
      /\ tick' = [tick EXCEPT !.step = "calling", !.ready = due]
      /\ callbacks' = callbacks \ (success \cup timeout)
  BY DEF CB!Decide, CB!store
<1>2. /\ CallbackTypes
      /\ tick \in [step : {"viewed"}, stage : [Workers -> Stages], room : [Workers -> Rooms], ready : {{}}]
  BY <1>1 DEF CallbackInv, CallbackTypes, CB!Idle
<1>3. /\ \A w \in Workers : (<<w, "success">> \in due) <=> (w \in success)
      /\ \A w \in Workers : (<<w, "timeout">> \in due) <=> (w \in timeout)
      /\ due \subseteq callbacks \X Outcomes
  BY <1>2 DEF CallbackTypes, Outcomes
<1>4. \A w \in success : w \in callbacks /\ tick.stage[w] = "ready" /\ tick.room[w] \in {"none", "given"}
  BY DEF CB!Served
<1>5. \A w \in timeout : /\ w \in callbacks /\ w \notin success
                         /\ tick.stage[w] = "ended" \/ overdue[w]
  BY DEF CB!Failed
<1> HIDE DEF success, timeout, due
<1>6. /\ tick' = [step |-> "calling", stage |-> tick.stage, room |-> tick.room, ready |-> due]
      /\ tick.ready = {}
  BY <1>1, <1>2
<1>7. CallbackTypes' /\ CalledOnce'
  <2>1. tick' \in [step : {"calling"}, stage : [Workers -> Stages], room : [Workers -> Rooms],
                   ready : SUBSET (Workers \X Outcomes)]
    BY <1>2, <1>3, <1>6 DEF CallbackTypes
  <2>2. QED BY <1>1, <1>2, <2>1 DEF CallbackInv, CallbackTypes, CalledOnce, CB!CalledOnce
<1>8. ASSUME NEW w \in Workers
      PROVE  InOnePlace(w)' /\ Onward(w)' /\ Deserved(w)'
  <2>1. InOnePlace(w) /\ Onward(w) /\ Deserved(w) /\ room[w] \in Rooms
    BY <1>2 DEF CallbackInv, CallbackTypes
  <2>2. Told(w)' => w \in callbacks /\ w \notin callbacks'
    <3>1. Told(w)' => w \in success \cup timeout
      BY <1>3, <1>6 DEF Told, Outcomes
    <3>2. QED BY <1>1, <1>4, <1>5, <3>1
  <2>3. w \in callbacks' => w \in callbacks
    BY <1>1
  <2>4. ~(<<w, "success">> \in tick'.ready /\ <<w, "timeout">> \in tick'.ready)
    BY <1>3, <1>5, <1>6
  <2>5. InOnePlace(w)'
    BY <1>1, <2>1, <2>2, <2>3, <2>4 DEF InOnePlace
  <2>6. Onward(w)'
    BY <1>6 DEF Onward
  <2>7. <<w, "success">> \in tick'.ready => room[w] \notin {"waiting", "cancelled"}
    BY <1>1, <1>3, <1>4, <1>6, <2>1 DEF Onward
  <2>8. <<w, "timeout">> \in tick'.ready => overdue[w] \/ stage[w] = "ended"
    BY <1>1, <1>3, <1>5, <1>6, <2>1 DEF Onward
  <2>9. Deserved(w)'
    BY <1>1, <2>1, <2>7, <2>8 DEF Deserved
  <2>10. QED BY <2>5, <2>6, <2>9
<1>9. QED BY <1>7, <1>8 DEF CallbackInv

LEMMA InvokeStep ==
  ASSUME CallbackInv, CB!Invoke
  PROVE  CallbackInv'
<1>1. UNCHANGED <<stage, room, overdue, creating, callbacks>> /\ tick.step = "calling"
  BY DEF CB!Invoke, CB!store
<1>2. /\ CallbackTypes
      /\ tick \in [step : {"calling"}, stage : [Workers -> Stages], room : [Workers -> Rooms],
                   ready : SUBSET (Workers \X Outcomes)]
  BY <1>1 DEF CallbackInv, CallbackTypes, CB!Idle
<1>3. CASE tick.ready = {}
  <2>1. calls' = calls /\ tick' = CB!Idle /\ tick'.ready = {} /\ tick'.step = "idle"
    BY <1>3 DEF CB!Invoke, CB!Idle
  <2>2. CallbackTypes' /\ CalledOnce'
    BY <1>1, <1>2, <2>1 DEF CallbackInv, CallbackTypes, CalledOnce, CB!CalledOnce
  <2>3. \A w \in Workers : InOnePlace(w)' /\ Onward(w)' /\ Deserved(w)'
    BY <1>1, <1>3, <2>1 DEF CallbackInv, InOnePlace, Onward, Deserved, Told
  <2>4. QED BY <2>2, <2>3 DEF CallbackInv
<1>4. CASE tick.ready # {}
  <2>1. PICK d \in tick.ready : /\ tick' = [tick EXCEPT !.ready = @ \ {d}]
                                /\ calls' = [calls EXCEPT ![d[1]] = Append(@, d[2])]
    BY <1>4 DEF CB!Invoke
  <2>2. PICK v \in Workers, outcome \in Outcomes : d = <<v, outcome>>
    BY <1>2, <2>1
  <2>3. calls[v] = <<>>
    BY <2>1, <2>2 DEF CallbackInv, InOnePlace, Told
  <2>4. /\ calls' = [calls EXCEPT ![v] = <<outcome>>]
        /\ tick'.ready = tick.ready \ {<<v, outcome>>} /\ tick'.step = "calling"
        /\ tick' \in [step : {"calling"}, stage : [Workers -> Stages], room : [Workers -> Rooms],
                      ready : SUBSET (Workers \X Outcomes)]
    <3>1. Append(calls[v], outcome) = <<outcome>>
      BY <2>3
    <3>2. calls' = [calls EXCEPT ![v] = <<outcome>>]
      BY <2>1, <2>2, <3>1
    <3>3. QED BY <1>2, <2>1, <2>2, <3>2
  <2>5. <<outcome>> \in Seq(Outcomes) /\ Len(<<outcome>>) = 1
    BY <2>2
  <2>6. CallbackTypes' /\ CalledOnce'
    <3>1. CallbackTypes'
      BY <1>1, <1>2, <2>4, <2>5 DEF CallbackTypes
    <3>2. \A w \in Workers : calls'[w] = IF w = v THEN <<outcome>> ELSE calls[w]
      BY <1>2, <2>4 DEF CallbackTypes
    <3>3. \A w \in Workers : Len(calls[w]) <= 1
      BY DEF CallbackInv, CalledOnce, CB!CalledOnce
    <3>4. \A w \in Workers : Len(calls'[w]) <= 1
      <4> SUFFICES ASSUME NEW w \in Workers PROVE Len(calls'[w]) <= 1
        OBVIOUS
      <4>1. CASE w = v
        <5>1. calls'[w] = <<outcome>>
          BY <3>2, <4>1
        <5>2. Len(calls'[w]) = 1
          BY <2>5, <5>1
        <5>3. QED BY <5>2
      <4>2. CASE w # v
        BY <3>2, <3>3, <4>2
      <4>3. QED BY <4>1, <4>2
    <3>5. QED BY <3>1, <3>4 DEF CalledOnce, CB!CalledOnce
  <2>7. ASSUME NEW w \in Workers \ {v}
        PROVE  InOnePlace(w)' /\ Onward(w)' /\ Deserved(w)'
    <3>1. calls'[w] = calls[w] /\ \A o \in Outcomes : <<w, o>> \in tick'.ready <=> <<w, o>> \in tick.ready
      BY <1>2, <2>4 DEF CallbackTypes
    <3>2. InOnePlace(w) /\ Deserved(w)
      BY DEF CallbackInv
    <3>3. InOnePlace(w)' /\ Deserved(w)'
      BY <1>1, <3>1, <3>2 DEF InOnePlace, Deserved, Told, Outcomes
    <3>4. Onward(w)'
      BY <2>4 DEF Onward
    <3>5. QED BY <3>3, <3>4
  <2>8. InOnePlace(v)' /\ Onward(v)' /\ Deserved(v)'
    <3>1. InOnePlace(v) /\ Deserved(v) /\ <<v, outcome>> \in tick.ready
      BY <2>1, <2>2 DEF CallbackInv
    <3>2. calls'[v] = <<outcome>>
      BY <1>2, <2>4 DEF CallbackTypes
    <3>3. ~Told(v)'
      BY <2>2, <2>4, <3>1 DEF Told, InOnePlace, Outcomes
    <3>4. v \notin creating \cup callbacks /\ stage[v] # "absent"
      BY <2>2, <3>1 DEF InOnePlace, Told
    <3>5. InOnePlace(v)'
      BY <1>1, <3>3, <3>4 DEF InOnePlace, Told, Outcomes
    <3>6. outcome = "success" \/ outcome = "timeout"
      BY <2>2 DEF Outcomes
    <3>7. <<"success">> # <<"timeout">>
      OBVIOUS
    <3>8. Deserved(v)'
      BY <1>1, <3>1, <3>2, <3>3, <3>6, <3>7 DEF Deserved, Told, Outcomes
    <3>9. Onward(v)'
      BY <2>4 DEF Onward
    <3>10. QED BY <3>5, <3>8, <3>9
  <2>9. QED BY <2>6, <2>7, <2>8 DEF CallbackInv
<1>5. QED BY <1>3, <1>4

LEMMA CrashStep ==
  ASSUME CallbackInv, CB!Crash
  PROVE  CallbackInv'
<1>1. /\ UNCHANGED <<stage, room, overdue, calls>> /\ creating' = {} /\ callbacks' = {}
      /\ tick' = CB!Idle /\ tick'.ready = {} /\ tick'.step = "idle"
  BY DEF CB!Crash, CB!store, CB!Idle
<1>2. CallbackTypes' /\ CalledOnce'
  BY <1>1 DEF CallbackInv, CallbackTypes, CalledOnce, CB!CalledOnce
<1>3. \A w \in Workers : InOnePlace(w)' /\ Onward(w)' /\ Deserved(w)'
  BY <1>1 DEF CallbackInv, InOnePlace, Onward, Deserved, Told
<1>4. QED BY <1>2, <1>3 DEF CallbackInv

LEMMA CallbackStep ==
  ASSUME CallbackInv, [CB!Next]_(CB!vars)
  PROVE  CallbackInv'
<1>1. CASE UNCHANGED CB!vars
  BY <1>1 DEF CB!vars, CallbackInv, CallbackTypes, CalledOnce, CB!CalledOnce, InOnePlace, Onward, Deserved, Told
<1>2. CASE CB!View \/ CB!Decide \/ CB!Invoke \/ CB!Crash
  BY <1>2, ViewStep, DecideStep, InvokeStep, CrashStep
<1>3. CASE \E w \in Workers : CB!Create(w) \/ CB!Register(w) \/ CB!Change(w) \/ CB!TimePasses(w)
  BY <1>3, CreateStep, RegisterStep, ChangeOfWorker
<1>4. QED BY <1>1, <1>2, <1>3 DEF CB!Next

LEMMA CallbacksAreSound == CB!Spec => []CallbackInv
BY CallbackInit, CallbackStep, PTL DEF CB!Spec

\* A Create is answered at most once, in whatever order its registration, the
\* ticks and a restart come.
THEOREM CallersHearOnce == CB!Spec => []CalledOnce
<1>1. CallbackInv => CalledOnce
  BY DEF CallbackInv
<1>2. QED BY <1>1, CallbacksAreSound, PTL

\* A Create that was answered by success has a worker whose first room, if any,
\* was given to its players.
THEOREM SuccessIsTrue == CB!Spec => []SuccessWasServed
<1>1. CallbackInv => SuccessWasServed
  BY DEF CallbackInv, Deserved, SuccessWasServed, CB!SuccessWasServed
<1>2. QED BY <1>1, CallbacksAreSound, PTL

\* A Create that was answered by timeout has a worker that ended or was late.
THEOREM TimeoutIsTrue == CB!Spec => []TimeoutIsDeserved
<1>1. CallbackInv => TimeoutIsDeserved
  BY DEF CallbackInv, Deserved, TimeoutIsDeserved, CB!TimeoutIsDeserved
<1>2. QED BY <1>1, CallbacksAreSound, PTL

=============================================================================
