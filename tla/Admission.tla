----------------------------- MODULE Admission ------------------------------
(***************************************************************************)
(* A seat's tickets against the clock: the reservation, the tickets issued *)
(* on it, the reconnect window, and the tick that ends rooms, which all    *)
(* compare the same second.  One seat of a room whose other player is      *)
(* there; the host admits whoever holds a ticket that verifies.            *)
(*                                                                         *)
(* A tick reads its now before it waits for the row; an assignment query   *)
(* reads the row and then its now.  Either takes at most Lag seconds.      *)
(***************************************************************************)
EXTENDS Integers, FiniteSetsExt

CONSTANTS
    TTL,          \* 60: ReservationTTL, and the longest a ticket may last
    ResumeTTL,    \* 45
    Reconnect,    \* 90: ReconnectSeconds
    Lag,          \* the database's, not the code's
    MaxClock      \* bound of the model

ASSUME TimesAssumption ==
    /\ TTL \in Nat /\ Reconnect \in Nat /\ Lag \in Nat /\ MaxClock \in Nat
    /\ ResumeTTL \in Nat \ {0} /\ ResumeTTL <= TTL
    /\ TTL + Lag <= Reconnect

VARIABLES
    clock,
    phase, reason, expires,  \* state.Allocation: State, Error, ExpiresAt
    seat,      \* its state.Session, with EverConnected, Connected and ReconnectUntil
    tickets,   \* the latest expiry of the tickets issued, for entry and for resuming
    inside,    \* the host has the player in the room
    report,    \* the room snapshot of a heartbeat on its way
    tick,      \* the now of a tick that waits for the row
    query      \* an assignment query that has read the row
vars == <<clock, phase, reason, expires, seat, tickets, inside, report, tick, query>>
room == <<phase, reason, expires, seat>>

NoTick == -1
NoReport == "none"
NoQuery == [asked |-> FALSE]
Query(resume) == [asked |-> TRUE, resume |-> resume, at |-> clock, seat |-> seat]

Init == /\ clock = 0
        /\ phase = "prepared" /\ reason = "none" /\ expires = TTL
        /\ seat = [expires |-> 0, ever |-> FALSE, connected |-> FALSE, until |-> 0]
        /\ tickets = [entry |-> 0, resume |-> 0]
        /\ inside = FALSE /\ report = NoReport /\ tick = NoTick /\ query = NoQuery

Advance ==
    /\ clock < MaxClock
    /\ tick # NoTick => clock < tick + Lag
    /\ query.asked => clock < query.at + Lag
    /\ clock' = clock + 1
    /\ UNCHANGED <<room, tickets, inside, report, tick, query>>

-----------------------------------------------------------------------------
\* Mutant of Reserve: the deadline of the preparation stays the room's.
ReserveKeepsDeadline(now) ==
    /\ phase' = "assigned" /\ UNCHANGED <<expires, reason>>
    /\ seat' = [seat EXCEPT !.expires = now + TTL]

Reserve(now) ==
    /\ phase' = "assigned" /\ expires' = now + TTL
    /\ seat' = [seat EXCEPT !.expires = now + TTL]
    /\ UNCHANGED reason

Cancel(why) ==
    /\ phase' = "cancelling" /\ reason' = why
    /\ UNCHANGED <<expires, seat>>

Join == /\ phase = "prepared"
        /\ Reserve(clock)
        /\ UNCHANGED <<clock, tickets, inside, report, tick, query>>

TickReads == /\ tick = NoTick
             /\ tick' = clock
             /\ UNCHANGED <<clock, room, tickets, inside, report, query>>

\* A tick that does not reserve a prepared room found its worker ineligible.
TickTx ==
    /\ tick # NoTick /\ tick' = NoTick
    /\ IF phase = "active" /\ seat.until > 0 /\ seat.until <= tick
       THEN Cancel("reconnect_expired")
       ELSE IF phase \in {"prepared", "assigned"} /\ tick >= expires
       THEN Cancel("allocation_expired")
       ELSE (phase = "prepared" /\ Reserve(tick)) \/ UNCHANGED room
    /\ UNCHANGED <<clock, tickets, inside, report, query>>

\* Assignment reads the row,
Ask(resume) ==
    /\ ~query.asked /\ phase \in {"assigned", "active"}
    /\ query' = Query(resume)
    /\ UNCHANGED <<clock, room, tickets, inside, report, tick>>

\* Mutant of Sign: a ticket may expire in the second in which it is issued.
SignAtTheEdge ==
    LET s == query.seat
        resumable == s.ever /\ (s.until > 0 => s.until >= clock)
        kind == IF query.resume THEN "resume" ELSE "entry"
        last == IF ~query.resume THEN s.expires
                ELSE Min({clock + ResumeTTL} \cup IF s.until > 0 THEN {s.until} ELSE {})
    IN  /\ query.asked /\ query' = NoQuery
        /\ tickets' = IF IF query.resume THEN resumable ELSE s.expires >= clock
                      THEN [tickets EXCEPT ![kind] = Max({@, last})] ELSE tickets
        /\ UNCHANGED <<clock, room, inside, report, tick>>

\* Mutant of Sign: a resume ticket may outlast the reconnect window.
SignPastWindow ==
    LET s == query.seat
        resumable == s.ever /\ (s.until > 0 => s.until > clock)
        kind == IF query.resume THEN "resume" ELSE "entry"
        last == IF ~query.resume THEN s.expires ELSE clock + ResumeTTL
    IN  /\ query.asked /\ query' = NoQuery
        /\ tickets' = IF IF query.resume THEN resumable ELSE s.expires > clock
                      THEN [tickets EXCEPT ![kind] = Max({@, last})] ELSE tickets
        /\ UNCHANGED <<clock, room, inside, report, tick>>

\* and then the clock: the ticket is refused or signed with its expiry.
Sign ==
    LET s == query.seat
        resumable == s.ever /\ (s.until > 0 => s.until > clock)
        kind == IF query.resume THEN "resume" ELSE "entry"
        last == IF ~query.resume THEN s.expires
                ELSE Min({clock + ResumeTTL} \cup IF s.until > 0 THEN {s.until} ELSE {})
    IN  /\ query.asked /\ query' = NoQuery
        /\ tickets' = IF IF query.resume THEN resumable ELSE s.expires > clock
                      THEN [tickets EXCEPT ![kind] = Max({@, last})] ELSE tickets
        /\ UNCHANGED <<clock, room, inside, report, tick>>

\* VerifyAdmission's test of the expiry
Verifies(exp) == exp > clock /\ exp <= clock + TTL

-----------------------------------------------------------------------------
(* The host, which is not in this repository, and its heartbeats.          *)

Enter == /\ ~inside /\ phase # "cancelling"
         /\ Verifies(tickets.entry) \/ Verifies(tickets.resume)
         /\ inside' = TRUE
         /\ UNCHANGED <<clock, room, tickets, report, tick, query>>
Leave == /\ inside /\ inside' = FALSE
         /\ UNCHANGED <<clock, room, tickets, report, tick, query>>

Snapshot == /\ report' = IF inside THEN "playing" ELSE "waiting_players"
            /\ UNCHANGED <<clock, room, tickets, inside, tick, query>>

\* Mutant of See: a seat is looked at only once its room is active.
SeeWhenActive(here) ==
    [seat EXCEPT !.ever = @ \/ here, !.connected = here,
                 !.until = IF here THEN 0
                           ELSE IF phase = "active" /\ seat.connected /\ @ = 0
                                THEN clock + Reconnect ELSE @]

See(here) ==
    [seat EXCEPT !.ever = @ \/ here, !.connected = here,
                 !.until = IF here THEN 0
                           ELSE IF seat.connected /\ @ = 0 THEN clock + Reconnect ELSE @]

\* The other player is there: with this one the room is full, and may be
\* between rounds when it is not playing.
Heartbeat ==
    /\ report # NoReport /\ report' = NoReport
    /\ IF phase \in {"assigned", "active"}
       THEN /\ seat' = See(report = "playing")
            /\ phase' \in IF report = "playing" THEN {phase, "active"} ELSE {phase}
            /\ UNCHANGED <<reason, expires>>
       ELSE UNCHANGED room
    /\ UNCHANGED <<clock, tickets, inside, tick, query>>

Next == \/ Advance \/ Join \/ TickReads \/ TickTx
        \/ \E resume \in BOOLEAN : Ask(resume)
        \/ Sign \/ Enter \/ Leave \/ Snapshot \/ Heartbeat

Spec == Init /\ [][Next]_vars

-----------------------------------------------------------------------------
\* A ticket verifies at the moment it is issued: the second in which a seat or a
\* window expires is on one side for the signer and the verifier.
TicketsVerify ==
    [][\A kind \in {"entry", "resume"} :
        tickets'[kind] # tickets[kind] => Verifies(tickets'[kind])]_vars

\* When an unclaimed room expires nobody holds an entry ticket that is still
\* good, although the tick works from an older clock than the signer.
NoEntryAfterExpiry == reason = "allocation_expired" => tickets.entry <= clock

\* When a room is ended because its player did not come back, that player holds
\* no ticket with which to come back.
NoResumeAfterWindow ==
    reason = "reconnect_expired" => tickets.entry <= clock /\ tickets.resume <= clock

\* Every player who was seen in the room and no longer is has a deadline, and one
\* who is there has none, so an absence can neither last for ever nor outlive itself.
AbsencesAreTimed == seat.ever => (seat.connected <=> seat.until = 0)

=============================================================================
