-------------------------- MODULE AdmissionProofs ---------------------------
(***************************************************************************)
(* The clock comparisons of a seat agree, for every length of the          *)
(* reservation, the resume ticket, the reconnect window and the lag that   *)
(* TimesAssumption allows.                                                 *)
(***************************************************************************)
EXTENDS Admission, TLAPS

Seats == [expires : Nat, ever : BOOLEAN, connected : BOOLEAN, until : Nat]
Queries == {NoQuery} \cup [asked : {TRUE}, resume : BOOLEAN, at : Nat, seat : Seats]

TypeOK == /\ clock \in Nat /\ expires \in Nat
          /\ phase \in {"prepared", "assigned", "active", "cancelling"}
          /\ reason \in {"none", "allocation_expired", "reconnect_expired"}
          /\ seat \in Seats
          /\ tickets \in [entry : Nat, resume : Nat]
          /\ tick \in Nat \cup {NoTick}
          /\ query \in Queries

\* The reservation: nothing is promised past the room's deadline.
Reservation ==
    /\ phase = "prepared" => seat.expires = 0 /\ seat.until = 0 /\ ~query.asked
    /\ seat.expires <= expires /\ seat.expires <= clock + TTL
    /\ tickets.entry <= seat.expires
    /\ tick # NoTick => tick <= clock

\* The window: opened by a disconnection, closed by a return, and no ticket for
\* resuming outlasts one that is open.
Window ==
    /\ seat.connected => seat.ever
    /\ seat.ever => (seat.connected <=> seat.until = 0)
    /\ ~seat.ever => seat.until = 0
    /\ seat.until <= clock + Reconnect
    /\ seat.until > 0 => seat.expires <= seat.until /\ tickets.resume <= seat.until
    /\ tickets.resume <= clock + ResumeTTL

\* A query knows the seat as it was a moment ago: an older window ends no later
\* than the one that is open now, and one that it does not know is long enough.
Question ==
    query.asked =>
        /\ query.at <= clock /\ clock <= query.at + Lag
        /\ query.seat.expires = seat.expires
        /\ query.seat.until <= query.at + Reconnect
        /\ seat.until > 0 =>
              /\ query.seat.until > 0 => query.seat.until <= seat.until
              /\ query.seat.until = 0 => query.at + Reconnect <= seat.until

\* A room is ended for the deadline that has passed.
Ending ==
    /\ reason # "none" => phase = "cancelling"
    /\ reason = "allocation_expired" => expires <= clock
    /\ reason = "reconnect_expired" => 0 < seat.until /\ seat.until <= clock

IInv == TypeOK /\ Reservation /\ Window /\ Question /\ Ending

-----------------------------------------------------------------------------
LEMMA MaxOfTwo ==
  ASSUME NEW x \in Nat, NEW y \in Nat
  PROVE  Max({x, y}) \in {x, y} /\ x <= Max({x, y}) /\ y <= Max({x, y})
<1>1. \E m \in {x, y} : \A z \in {x, y} : m >= z
  <2>1. CASE x >= y
    BY <2>1
  <2>2. CASE y >= x
    BY <2>2
  <2>3. QED BY <2>1, <2>2
<1>2. QED BY <1>1 DEF Max

LEMMA MinOfTwo ==
  ASSUME NEW x \in Nat, NEW y \in Nat
  PROVE  Min({x} \cup {y}) \in {x, y} /\ Min({x} \cup {y}) <= x /\ Min({x} \cup {y}) <= y
<1>1. \E m \in {x} \cup {y} : \A z \in {x} \cup {y} : m <= z
  <2>1. CASE x <= y
    BY <2>1
  <2>2. CASE y <= x
    BY <2>2
  <2>3. QED BY <2>1, <2>2
<1>2. QED BY <1>1 DEF Min

LEMMA MinOfOne ==
  ASSUME NEW x \in Nat
  PROVE  Min({x} \cup {}) = x
  BY DEF Min

\* What a record of these types holds.
LEMMA Fields ==
  ASSUME TypeOK
  PROVE  /\ seat.expires \in Nat /\ seat.until \in Nat
         /\ seat.ever \in BOOLEAN /\ seat.connected \in BOOLEAN
         /\ tickets.entry \in Nat /\ tickets.resume \in Nat
         /\ query.asked \in BOOLEAN
         /\ query.asked => /\ query.resume \in BOOLEAN /\ query.at \in Nat
                           /\ query.seat \in Seats
                           /\ query.seat.expires \in Nat /\ query.seat.until \in Nat
<1>1. CASE query = NoQuery
  <2>1. query.asked = FALSE
    BY <1>1 DEF NoQuery
  <2>2. QED BY <2>1 DEF TypeOK, Seats
<1>2. CASE query \in [asked : {TRUE}, resume : BOOLEAN, at : Nat, seat : Seats]
  <2>1. query.asked = TRUE /\ query.seat \in Seats
    BY <1>2
  <2>2. query.resume \in BOOLEAN /\ query.at \in Nat
    BY <1>2
  <2>3. QED BY <2>1, <2>2 DEF TypeOK, Seats
<1>3. QED BY <1>1, <1>2 DEF TypeOK, Queries

\* A reservation is made of a prepared room, for TTL seconds from a moment that
\* has been.
LEMMA ReserveKeeps ==
  ASSUME IInv, phase = "prepared", NEW now \in Nat, now <= clock, Reserve(now),
         tick' \in {tick, NoTick}, UNCHANGED <<clock, tickets, query>>
  PROVE  IInv'
<1> USE TimesAssumption
<1>1. /\ seat'.expires = now + TTL /\ seat'.ever = seat.ever
      /\ seat'.connected = seat.connected /\ seat'.until = seat.until
      /\ seat' \in Seats
  BY DEF IInv, TypeOK, Seats, Reserve
<1>2. TypeOK'
  BY <1>1 DEF IInv, TypeOK, Reserve
<1>3. Reservation'
  BY <1>1, Fields DEF IInv, TypeOK, Reservation, Reserve
<1>4. Window'
  BY <1>1, Fields DEF IInv, TypeOK, Reservation, Window
<1>5. Question'
  BY <1>1, Fields DEF IInv, TypeOK, Reservation, Question
<1>6. Ending'
  BY <1>1, Fields DEF IInv, TypeOK, Reservation, Ending, Reserve
<1>7. QED BY <1>2, <1>3, <1>4, <1>5, <1>6 DEF IInv

\* What the signer makes of a query, in terms of the seat it read: a ticket is
\* signed for a moment that is still to come, within the room's deadline or the
\* window that is open.
LEMMA Signing ==
  ASSUME IInv, Sign
  PROVE  /\ query' = NoQuery /\ UNCHANGED <<clock, room, tick>>
         /\ tickets' \in [entry : Nat, resume : Nat]
         /\ tickets'.entry # tickets.entry =>
                /\ tickets'.entry = seat.expires /\ tickets'.entry > clock
         /\ tickets'.resume # tickets.resume =>
                /\ tickets'.resume > clock /\ tickets'.resume <= clock + ResumeTTL
                /\ seat.until > 0 => tickets'.resume <= seat.until
<1> USE TimesAssumption
<1> DEFINE s == query.seat
           resumable == s.ever /\ (s.until > 0 => s.until > clock)
           last == IF ~query.resume THEN s.expires
                   ELSE Min({clock + ResumeTTL} \cup IF s.until > 0 THEN {s.until} ELSE {})
<1>1. query.asked /\ query' = NoQuery /\ UNCHANGED <<clock, room, tick>>
  BY DEF Sign
<1>2. clock \in Nat /\ clock + ResumeTTL \in Nat
  BY DEF IInv, TypeOK
<1>3. tickets = [entry |-> tickets.entry, resume |-> tickets.resume]
  BY DEF IInv, TypeOK
<1>4. CASE ~query.resume
  <2>1. tickets' = IF s.expires > clock
                   THEN [tickets EXCEPT !["entry"] = Max({@, s.expires})] ELSE tickets
    BY <1>4 DEF Sign
  <2>2. s.expires = seat.expires /\ seat.expires \in Nat /\ tickets.entry \in Nat
    BY <1>1, Fields DEF IInv, Question
  <2>3. tickets' = [entry |-> IF seat.expires > clock THEN Max({tickets.entry, seat.expires})
                              ELSE tickets.entry, resume |-> tickets.resume]
    BY <1>3, <2>1, <2>2
  <2>4. Max({tickets.entry, seat.expires}) \in {tickets.entry, seat.expires}
    BY <2>2, MaxOfTwo
  <2> HIDE DEF s
  <2>5. tickets'.resume = tickets.resume
    BY <2>3
  <2>6. /\ tickets'.entry \in {tickets.entry, seat.expires}
        /\ tickets'.entry # tickets.entry => seat.expires > clock
    BY <2>3, <2>4
  <2>7. tickets' \in [entry : Nat, resume : Nat]
    BY <2>2, <2>3, <2>4, Fields DEF IInv
  <2>8. QED BY <1>1, <2>2, <2>5, <2>6, <2>7
<1>5. CASE query.resume
  <2>1. tickets' = IF resumable
                   THEN [tickets EXCEPT !["resume"] = Max({@, last})] ELSE tickets
    BY <1>5 DEF Sign
  <2>2. s.until \in Nat /\ seat.until \in Nat /\ tickets.resume \in Nat
    BY <1>1, Fields DEF IInv
  <2>3. last \in Nat /\ last <= clock + ResumeTTL
    BY <1>2, <1>5, <2>2, MinOfOne, MinOfTwo
  <2>4. resumable => last > clock
    BY <1>2, <1>5, <2>2, MinOfOne, MinOfTwo
  <2>5. s.until > 0 => last <= s.until
    BY <1>2, <1>5, <2>2, MinOfOne, MinOfTwo
  <2>6. Max({tickets.resume, last}) \in {tickets.resume, last}
    BY <2>2, <2>3, MaxOfTwo
  <2> HIDE DEF last, resumable
  <2>7. tickets' = [entry |-> tickets.entry,
                    resume |-> IF resumable THEN Max({tickets.resume, last}) ELSE tickets.resume]
    BY <1>3, <2>1
  <2>8. /\ tickets'.entry = tickets.entry
        /\ tickets'.resume \in {tickets.resume, last}
        /\ tickets'.resume # tickets.resume => resumable /\ tickets'.resume = last
    BY <2>6, <2>7
  <2>9. tickets' \in [entry : Nat, resume : Nat]
    BY <2>2, <2>3, <2>6, <2>7, Fields DEF IInv
  <2>10. seat.until > 0 => last <= seat.until
    <3>1. CASE s.until > 0
      BY <1>1, <2>2, <2>3, <2>5, <3>1 DEF IInv, Question
    <3>2. CASE s.until = 0
      <4>1. query.at \in Nat /\ clock <= query.at + Lag
            /\ (seat.until > 0 => query.at + Reconnect <= seat.until)
        BY <1>1, <3>2, Fields DEF IInv, Question
      <4>2. QED BY <1>2, <2>2, <2>3, <4>1
    <3>3. QED BY <2>2, <3>1, <3>2
  <2>11. QED BY <1>1, <2>3, <2>4, <2>8, <2>9, <2>10
<1>6. query.resume \in BOOLEAN
  BY <1>1, Fields DEF IInv
<1>7. QED BY <1>4, <1>5, <1>6

\* A disconnection opens the window and a return closes it.
LEMMA SeeKeeps ==
  ASSUME IInv, NEW here \in BOOLEAN, seat' = See(here), phase \in {"assigned", "active"},
         phase' \in {"assigned", "active"},
         UNCHANGED <<reason, expires, clock, tickets, tick, query>>
  PROVE  IInv'
<1> USE TimesAssumption
<1>1. /\ seat' \in Seats
      /\ seat'.expires = seat.expires /\ seat'.ever = (seat.ever \/ here)
      /\ seat'.connected = here
      /\ seat'.until = IF here THEN 0
                       ELSE IF seat.connected /\ seat.until = 0 THEN clock + Reconnect
                       ELSE seat.until
  <2> DEFINE until == IF here THEN 0
                      ELSE IF seat.connected /\ seat.until = 0 THEN clock + Reconnect
                      ELSE seat.until
             ever == seat.ever \/ here
  <2>1. seat = [expires |-> seat.expires, ever |-> seat.ever, connected |-> seat.connected,
                until |-> seat.until]
    BY DEF IInv, TypeOK, Seats
  <2>2. seat' = [seat EXCEPT !.ever = ever, !.connected = here, !.until = until]
    BY DEF See
  <2>3. until \in Nat /\ ever \in BOOLEAN /\ seat.expires \in Nat
    BY Fields DEF IInv, TypeOK
  <2> HIDE DEF until, ever
  <2>4. seat' = [expires |-> seat.expires, ever |-> ever, connected |-> here, until |-> until]
    BY <2>1, <2>2
  <2>5. seat' \in Seats
    BY <2>3, <2>4 DEF Seats
  <2>6. /\ seat'.expires = seat.expires /\ seat'.ever = ever
        /\ seat'.connected = here /\ seat'.until = until
    BY <2>4
  <2>7. QED BY <2>5, <2>6 DEF until, ever
<1>2. TypeOK'
  BY <1>1 DEF IInv, TypeOK
<1>3. Reservation'
  BY <1>1 DEF IInv, TypeOK, Reservation
<1>4. Window'
  BY <1>1, Fields DEF IInv, TypeOK, Reservation, Window
<1>5. Question'
  <2>1. CASE seat'.until = clock + Reconnect
    BY <1>1, <2>1, Fields DEF IInv, TypeOK, Question
  <2>2. CASE seat'.until \in {0, seat.until}
    BY <1>1, <2>2, Fields DEF IInv, TypeOK, Question
  <2>3. QED BY <1>1, <2>1, <2>2
<1>6. Ending'
  BY <1>1 DEF IInv, TypeOK, Ending
<1>7. QED BY <1>2, <1>3, <1>4, <1>5, <1>6 DEF IInv

\* The deadlines of a seat, its room, its tickets and its queries agree.
THEOREM Invariance == Spec => []IInv
<1> USE TimesAssumption
<1>1. Init => IInv
  <2> SUFFICES ASSUME Init PROVE IInv
    OBVIOUS
  <2>1. seat.expires = 0 /\ seat.ever = FALSE /\ seat.connected = FALSE /\ seat.until = 0
    BY DEF Init
  <2>2. tickets.entry = 0 /\ tickets.resume = 0 /\ query.asked = FALSE /\ tick = NoTick
    BY DEF Init, NoQuery
  <2>3. TypeOK
    BY DEF Init, TypeOK, Seats, Queries
  <2>4. QED BY <2>1, <2>2, <2>3 DEF Init, IInv, TypeOK, Reservation, Window, Question, Ending
<1>2. IInv /\ [Next]_vars => IInv'
  <2> SUFFICES ASSUME IInv, [Next]_vars PROVE IInv'
    OBVIOUS
  <2> USE Fields DEF IInv
  <2>1. CASE Advance
    <3>1. clock' = clock + 1 /\ UNCHANGED <<room, tickets, tick, query>>
          /\ (query.asked => clock < query.at + Lag)
      BY <2>1 DEF Advance
    <3>2. TypeOK'
      BY <3>1 DEF TypeOK, room
    <3>3. Reservation' /\ Ending'
      BY <3>1 DEF TypeOK, room, Reservation, Ending
    <3>4. Window'
      BY <3>1 DEF TypeOK, room, Window
    <3>5. Question'
      BY <3>1 DEF TypeOK, room, Question
    <3>6. QED BY <3>2, <3>3, <3>4, <3>5
  <2>2. CASE Join
    BY <2>2, ReserveKeeps DEF Join, TypeOK
  <2>3. CASE TickReads
    <3>1. tick' = clock /\ UNCHANGED <<clock, room, tickets, query>>
      BY <2>3 DEF TickReads
    <3>2. QED BY <3>1 DEF TypeOK, room, Reservation, Window, Question, Ending
  <2>4. CASE TickTx
    <3>1. /\ tick # NoTick /\ tick' = NoTick /\ tick \in Nat /\ tick <= clock
          /\ UNCHANGED <<clock, tickets, query>>
      BY <2>4 DEF TickTx, TypeOK, Reservation
    <3>2. CASE UNCHANGED room
      BY <3>1, <3>2 DEF TypeOK, room, Reservation, Window, Question, Ending
    <3>3. CASE phase = "prepared" /\ Reserve(tick)
      BY <3>1, <3>3, ReserveKeeps
    <3>4. CASE /\ phase = "active" /\ seat.until > 0 /\ seat.until <= tick
               /\ Cancel("reconnect_expired")
      <4>1. /\ phase' = "cancelling" /\ reason' = "reconnect_expired"
            /\ UNCHANGED <<expires, seat>>
        BY <3>4 DEF Cancel
      <4>2. Ending'
        BY <3>1, <3>4, <4>1 DEF TypeOK, Ending
      <4>3. QED BY <3>1, <4>1, <4>2 DEF TypeOK, Reservation, Window, Question
    <3>5. CASE phase \in {"prepared", "assigned"} /\ tick >= expires /\ Cancel("allocation_expired")
      <4>1. /\ phase' = "cancelling" /\ reason' = "allocation_expired"
            /\ UNCHANGED <<expires, seat>>
        BY <3>5 DEF Cancel
      <4>2. Ending'
        BY <3>1, <3>5, <4>1 DEF TypeOK, Ending
      <4>3. QED BY <3>1, <4>1, <4>2 DEF TypeOK, Reservation, Window, Question
    <3>6. QED BY <2>4, <3>2, <3>3, <3>4, <3>5 DEF TickTx
  <2>5. ASSUME NEW resume \in BOOLEAN, Ask(resume) PROVE IInv'
    <3>1. /\ query' = Query(resume) /\ phase \in {"assigned", "active"}
          /\ UNCHANGED <<clock, room, tickets, tick>>
      BY <2>5 DEF Ask
    <3>2. /\ query'.asked = TRUE /\ query'.at = clock /\ query'.seat = seat
          /\ query' \in Queries
      BY <3>1 DEF Query, Queries, TypeOK
    <3>3. TypeOK'
      BY <3>1, <3>2 DEF TypeOK, room
    <3>4. Reservation' /\ Window' /\ Ending'
      BY <3>1 DEF TypeOK, room, Reservation, Window, Ending
    <3>5. Question'
      BY <3>1, <3>2 DEF TypeOK, room, Window, Question
    <3>6. QED BY <3>3, <3>4, <3>5
  <2>6. CASE Sign
    <3>1. /\ query' = NoQuery /\ UNCHANGED <<clock, room, tick>>
          /\ tickets' \in [entry : Nat, resume : Nat]
          /\ tickets'.entry # tickets.entry => tickets'.entry = seat.expires
          /\ tickets'.resume # tickets.resume =>
                /\ tickets'.resume <= clock + ResumeTTL
                /\ seat.until > 0 => tickets'.resume <= seat.until
      BY <2>6, Signing
    <3>2. query'.asked = FALSE /\ query' \in Queries
      BY <3>1 DEF NoQuery, Queries
    <3>3. TypeOK'
      BY <3>1, <3>2 DEF TypeOK, room
    <3>4. Reservation'
      BY <3>1, <3>2 DEF TypeOK, room, Reservation
    <3>5. Window'
      BY <3>1 DEF TypeOK, room, Window
    <3>6. Question' /\ Ending'
      BY <3>1, <3>2 DEF TypeOK, room, Question, Ending
    <3>7. QED BY <3>3, <3>4, <3>5, <3>6
  <2>7. CASE Enter \/ Leave \/ Snapshot \/ UNCHANGED vars
    <3>1. UNCHANGED <<clock, room, tickets, tick, query>>
      BY <2>7 DEF Enter, Leave, Snapshot, vars, room
    <3>2. QED BY <3>1 DEF TypeOK, room, Reservation, Window, Question, Ending
  <2>8. CASE Heartbeat
    <3>1. UNCHANGED <<clock, tickets, tick, query>>
      BY <2>8 DEF Heartbeat
    <3>2. CASE UNCHANGED room
      BY <3>1, <3>2 DEF TypeOK, room, Reservation, Window, Question, Ending
    <3>3. CASE /\ phase \in {"assigned", "active"} /\ seat' = See(report = "playing")
               /\ phase' \in {phase, "active"} /\ UNCHANGED <<reason, expires>>
      <4>1. (report = "playing") \in BOOLEAN
        OBVIOUS
      <4>2. QED BY <3>1, <3>3, <4>1, SeeKeeps
    <3>4. QED BY <2>8, <3>2, <3>3 DEF Heartbeat
  <2>9. QED BY <2>1, <2>2, <2>3, <2>4, <2>5, <2>6, <2>7, <2>8 DEF Next
<1>3. QED BY <1>1, <1>2, PTL DEF Spec

\* When an unclaimed room expires, no entry ticket for it is still good.
THEOREM EntryEndsWithTheRoom == Spec => []NoEntryAfterExpiry
<1>1. IInv => NoEntryAfterExpiry
  BY Fields DEF IInv, TypeOK, Reservation, Ending, NoEntryAfterExpiry
<1>2. QED BY <1>1, Invariance, PTL

\* When a room is ended for a player who stayed away, that player's tickets are
\* no longer good.
THEOREM ResumeEndsWithTheWindow == Spec => []NoResumeAfterWindow
<1>1. IInv => NoResumeAfterWindow
  BY Fields DEF IInv, TypeOK, Reservation, Window, Ending, NoResumeAfterWindow
<1>2. QED BY <1>1, Invariance, PTL

\* Exactly the players who were there and are not have a deadline.
THEOREM AbsencesHaveDeadlines == Spec => []AbsencesAreTimed
<1>1. IInv => AbsencesAreTimed
  BY DEF IInv, Window, AbsencesAreTimed
<1>2. QED BY <1>1, Invariance, PTL

\* Signer and verifier agree on every ticket in the second in which it is issued.
THEOREM TicketsAlwaysVerify == Spec => TicketsVerify
<1> DEFINE Good == \A kind \in {"entry", "resume"} :
                       tickets'[kind] # tickets[kind] => Verifies(tickets'[kind])
<1>1. IInv /\ [Next]_vars => [Good]_vars
  <2> SUFFICES ASSUME IInv, [Next]_vars, tickets' # tickets PROVE Good
    BY DEF vars
  <2>1. Sign
    BY DEF Next, Advance, Join, TickReads, TickTx, Ask, Enter, Leave, Snapshot, Heartbeat, vars
  <2>2. /\ tickets'.entry # tickets.entry =>
                /\ tickets'.entry = seat.expires /\ tickets'.entry > clock
        /\ tickets'.resume # tickets.resume =>
                /\ tickets'.resume > clock /\ tickets'.resume <= clock + ResumeTTL
        /\ tickets' \in [entry : Nat, resume : Nat]
    BY <2>1, Signing
  <2>3. seat.expires <= clock + TTL
    BY DEF IInv, Reservation
  <2>4. clock + ResumeTTL <= clock + TTL
    BY TimesAssumption DEF IInv, TypeOK
  <2>5. tickets'.entry # tickets.entry => Verifies(tickets'.entry)
    BY <2>2, <2>3 DEF Verifies
  <2>6. tickets'.resume # tickets.resume => Verifies(tickets'.resume)
    BY <2>2, <2>4, TimesAssumption DEF IInv, TypeOK, Verifies
  <2>7. QED BY <2>5, <2>6
<1>2. QED BY <1>1, Invariance, PTL DEF Spec, TicketsVerify

=============================================================================
