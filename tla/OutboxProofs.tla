---------------------------- MODULE OutboxProofs ----------------------------
(***************************************************************************)
(* No room opens that the controller has closed the books on, and a room   *)
(* is cleaned up once, for any number of failed commands and whatever the  *)
(* network does to the heartbeats.                                         *)
(***************************************************************************)
EXTENDS Outbox, FiniteSetTheorems, TLAPS

Types == {"cancel_room", "drain"}
Attempts == 0 .. MaxFailures
Phases == {"preparing", "prepared", "assigned", "active", "cancelling"} \cup Ended
Rooms == {"none", "closed"} \cup Open
States == {"none", "pending", "waiting", "done"}
Stores == [phase : Phases, draining : BOOLEAN, drainAck : BOOLEAN, observed : Rooms,
           commands : [Ids -> States]]
Requests == [report : Rooms, results : SUBSET Ids, sent : BOOLEAN]

TypeOK == /\ store \in Stores
          /\ room \in Rooms /\ fenced \in BOOLEAN
          /\ inbox \subseteq Ids /\ unreported \subseteq Ids /\ stray \subseteq Ids
          /\ outcome \in [Ids -> {"none", "ok", "failed"}]
          /\ body \in Requests /\ earlier \in Requests /\ applied \in BOOLEAN
          /\ answer \in [commands : SUBSET Ids, sent : BOOLEAN]
          /\ failures \in Attempts

Issued(s) == {i \in Ids : s.commands[i] # "none"}
Executed == {i \in Ids : outcome[i] # "none"}

\* What became of one attempt.
At(s, t, k) == s.commands[<<t, k>>]

\* The commands of a store agree with its phase: a preparation is wanted while
\* the room is being prepared and a cleanup while it is being cancelled, none of
\* a type is issued before its cause, and of each type all attempts but the last
\* are done.
Books(s) ==
    /\ s.commands[Prepare] \in {"pending", "waiting"} <=> s.phase = "preparing"
    /\ (\E k \in Attempts : At(s, "cancel_room", k) \in {"pending", "waiting"})
            <=> s.phase = "cancelling"
    /\ s.phase \notin Ended \cup {"cancelling"} => \A k \in Attempts : At(s, "cancel_room", k) = "none"
    /\ ~s.draining => \A k \in Attempts : At(s, "drain", k) = "none"
    /\ \A t \in Types : \A j, k \in Attempts :
            j < k /\ At(s, t, k) # "none" => At(s, t, j) = "done"

\* A command is issued again only after a failure, so that attempts do not run out.
Counted(s) ==
    \A t \in Types : \A k \in Attempts :
        /\ outcome[<<t, k>>] = "failed" => k < failures
        /\ k > 0 /\ At(s, t, k) # "none" => outcome[<<t, k - 1>>] = "failed"

\* The agent knows only commands that were issued, and executes each once.
Ledger(s) ==
    /\ inbox \cup answer.commands \cup stray \cup Executed \subseteq Issued(s)
    /\ inbox \cap Executed = {}
    /\ unreported \cup body.results \subseteq Executed

\* A room opens once, and not after its cleanup.
Host ==
    /\ room # "none" => outcome[Prepare] = "ok"
    /\ fenced => room \notin Open
    /\ \A k \in Attempts : outcome[<<"cancel_room", k>>] = "ok" => fenced
    /\ body.report = "closed" => room = "closed"

\* The controller closes the books on a room that is closed or cannot open.
Closed(s) == /\ s.phase = "completed" => room = "closed"
             /\ s.phase = "cancelled" => fenced

\* A store the controller may have.
Good(s) == s \in Stores /\ Books(s) /\ Counted(s) /\ Ledger(s) /\ Closed(s)

Inv == TypeOK /\ Good(store) /\ Host /\ NewestReportCounts

-----------------------------------------------------------------------------
(* Identities, and a store with one command changed.                       *)

LEMMA IdFacts ==
  /\ Prepare \in Ids /\ Prepare[1] = "prepare_room"
  /\ \A t \in Types, k \in Attempts : /\ <<t, k>> \in Ids /\ <<t, k>> # Prepare
                                      /\ <<t, k>>[1] = t /\ <<t, k>>[2] = k
  /\ \A i \in Ids : i = Prepare \/ \E t \in Types, k \in Attempts : i = <<t, k>>
  /\ 0 \in Attempts /\ Attempts \subseteq Nat
<1>1. Prepare \in Ids /\ Prepare[1] = "prepare_room"
  BY DEF Ids, Prepare
<1>2. ASSUME NEW t \in Types, NEW k \in Attempts
      PROVE  <<t, k>> \in Ids /\ <<t, k>> # Prepare /\ <<t, k>>[1] = t /\ <<t, k>>[2] = k
  BY DEF Ids, Prepare, Types, Attempts
<1>3. ASSUME NEW i \in Ids, i # Prepare PROVE \E t \in Types, k \in Attempts : i = <<t, k>>
  BY <1>3 DEF Ids, Types, Attempts
<1>4. 0 \in Attempts /\ Attempts \subseteq Nat
  BY FailuresAssumption DEF Attempts
<1>5. QED BY <1>1, <1>2, <1>3, <1>4

LEMMA IssueFacts ==
  ASSUME NEW s \in Stores, NEW i \in Ids, NEW c \in States
  PROVE  LET u == Issue(s, i, c) IN
         /\ u \in Stores /\ u.phase = s.phase /\ u.draining = s.draining
         /\ u.drainAck = s.drainAck /\ u.observed = s.observed
         /\ u.commands[i] = c /\ \A j \in Ids \ {i} : u.commands[j] = s.commands[j]
  BY DEF Issue, Stores

LEMMA WithdrawIssues ==
  ASSUME NEW s, NEW i
  PROVE  Withdraw(s, i) = Issue(s, i, "done")
  BY DEF Withdraw, Issue

\* The attempts after a change.
LEMMA AttemptIssued ==
  ASSUME NEW s \in Stores, NEW t \in Types, NEW k \in Attempts, NEW c \in States
  PROVE  LET u == Issue(s, <<t, k>>, c) IN
         /\ At(u, t, k) = c /\ u.commands[Prepare] = s.commands[Prepare]
         /\ \A v \in Types, m \in Attempts : v # t \/ m # k => At(u, v, m) = At(s, v, m)
<1> DEFINE u == Issue(s, <<t, k>>, c)
<1>1. <<t, k>> \in Ids /\ <<t, k>> # Prepare /\ Prepare \in Ids
  BY IdFacts
<1>2. u.commands[<<t, k>>] = c /\ \A j \in Ids \ {<<t, k>>} : u.commands[j] = s.commands[j]
  BY <1>1, IssueFacts
<1> HIDE DEF u
<1>3. \A v \in Types, m \in Attempts : v # t \/ m # k => <<v, m>> \in Ids \ {<<t, k>>}
  BY IdFacts
<1>4. QED BY <1>1, <1>2, <1>3 DEF At, u

LEMMA PreparationIssued ==
  ASSUME NEW s \in Stores, NEW c \in States
  PROVE  LET u == Issue(s, Prepare, c) IN
         /\ u.commands[Prepare] = c
         /\ \A v \in Types, m \in Attempts : At(u, v, m) = At(s, v, m)
<1> DEFINE u == Issue(s, Prepare, c)
<1>1. Prepare \in Ids
  BY IdFacts
<1>2. u.commands[Prepare] = c /\ \A j \in Ids \ {Prepare} : u.commands[j] = s.commands[j]
  BY <1>1, IssueFacts
<1> HIDE DEF u
<1>3. \A v \in Types, m \in Attempts : <<v, m>> \in Ids \ {Prepare}
  BY IdFacts
<1>4. QED BY <1>2, <1>3 DEF At, u

\* A store with another phase.
LEMMA PhaseFacts ==
  ASSUME NEW s \in Stores, NEW p \in Phases
  PROVE  LET u == [s EXCEPT !.phase = p] IN
         /\ u \in Stores /\ u.phase = p /\ u.draining = s.draining
         /\ u.drainAck = s.drainAck /\ u.observed = s.observed /\ u.commands = s.commands
         /\ \A t, k : At(u, t, k) = At(s, t, k)
  BY DEF Stores, At

\* What was issued stays so.
LEMMA LedgerKept ==
  ASSUME NEW s, NEW u, Ledger(s), Issued(s) \subseteq Issued(u)
  PROVE  Ledger(u)
  BY DEF Ledger

LEMMA IssuedMore ==
  ASSUME NEW s \in Stores, NEW i \in Ids, NEW c \in States \ {"none"}
  PROVE  Issued(s) \subseteq Issued(Issue(s, i, c)) /\ i \in Issued(Issue(s, i, c))
  BY IssueFacts DEF Issued

-----------------------------------------------------------------------------
(* The transactions of the controller keep a store good.                   *)

LEMMA CancelGood ==
  ASSUME TypeOK, NEW s, Good(s)
  PROVE  Good(Cancel(s)) /\ Cancel(s).observed = s.observed /\ Issued(s) \subseteq Issued(Cancel(s))
<1>1. CASE s.phase \in Ended \cup {"cancelling"}
  BY <1>1 DEF Cancel
<1>2. CASE s.phase \notin Ended \cup {"cancelling"}
  <2> DEFINE v == Issue(s, Prepare, "done")
             w == [v EXCEPT !.phase = "cancelling"]
             u == Issue(w, <<"cancel_room", 0>>, "pending")
  <2>1. /\ Prepare \in Ids /\ <<"cancel_room", 0>> \in Ids /\ 0 \in Attempts /\ Attempts \subseteq Nat
        /\ "cancel_room" \in Types /\ "drain" \in Types
        /\ {"done", "pending"} \subseteq States \ {"none"}
    BY IdFacts DEF Types, States
  <2>2. s \in Stores /\ Books(s) /\ Counted(s) /\ Ledger(s)
    BY DEF Good
  <2>3. Cancel(s) = u
    BY <1>2, WithdrawIssues DEF Cancel
  <2>4. /\ v \in Stores /\ v.draining = s.draining /\ v.observed = s.observed
        /\ v.commands[Prepare] = "done" /\ \A t \in Types, k \in Attempts : At(v, t, k) = At(s, t, k)
        /\ Issued(s) \subseteq Issued(v)
    BY <2>1, <2>2, IssueFacts, PreparationIssued, IssuedMore
  <2> HIDE DEF v
  <2>5. /\ w \in Stores /\ w.phase = "cancelling" /\ w.draining = s.draining /\ w.observed = s.observed
        /\ w.commands = v.commands /\ \A t, k : At(w, t, k) = At(v, t, k)
    BY <2>4, PhaseFacts DEF Phases
  <2> HIDE DEF w
  <2>6. Issued(w) = Issued(v)
    BY <2>5 DEF Issued
  <2>7. /\ u \in Stores /\ u.phase = "cancelling" /\ u.draining = s.draining /\ u.observed = s.observed
        /\ At(u, "cancel_room", 0) = "pending" /\ u.commands[Prepare] = "done"
        /\ \A t \in Types, k \in Attempts : t # "cancel_room" \/ k # 0 => At(u, t, k) = At(s, t, k)
        /\ Issued(w) \subseteq Issued(u)
    BY <2>1, <2>4, <2>5, IssueFacts, AttemptIssued, IssuedMore
  <2> HIDE DEF u
  <2>8. \A k \in Attempts : At(s, "cancel_room", k) = "none"
    BY <1>2, <2>2 DEF Books
  <2>9. Books(u)
    <3>1. \A t \in Types : \A j, k \in Attempts : j < k /\ At(u, t, k) # "none" => At(u, t, j) = "done"
      <4> SUFFICES ASSUME NEW t \in Types, NEW j \in Attempts, NEW k \in Attempts,
                          j < k, At(u, t, k) # "none"
                   PROVE  At(u, t, j) = "done"
        OBVIOUS
      <4>1. k # 0 /\ At(s, t, k) # "none"
        BY <2>1, <2>7
      <4>2. t # "cancel_room"
        BY <2>8, <4>1
      <4>3. At(u, t, j) = At(s, t, j) /\ At(s, t, j) = "done"
        BY <2>2, <2>7, <4>1, <4>2 DEF Books
      <4>4. QED BY <4>3
    <3>2. ~u.draining => \A k \in Attempts : At(u, "drain", k) = "none"
      BY <2>1, <2>2, <2>7 DEF Books
    <3>3. QED BY <2>1, <2>7, <3>1, <3>2 DEF Books
  <2>10. Counted(u)
    <3> SUFFICES ASSUME NEW t \in Types, NEW k \in Attempts, k > 0, At(u, t, k) # "none"
                 PROVE  outcome[<<t, k - 1>>] = "failed"
      BY <2>2 DEF Counted
    <3>1. At(s, t, k) # "none"
      BY <2>1, <2>7
    <3>2. QED BY <2>2, <3>1 DEF Counted
  <2>11. Ledger(u)
    BY <2>2, <2>4, <2>6, <2>7, LedgerKept
  <2>12. Closed(u)
    BY <2>7 DEF Closed
  <2>13. Good(u) /\ u.observed = s.observed /\ Issued(s) \subseteq Issued(u)
    BY <2>4, <2>6, <2>7, <2>9, <2>10, <2>11, <2>12 DEF Good
  <2>14. QED BY <2>3, <2>13
<1>3. QED BY <1>1, <1>2

\* The room moves on without a command.
LEMMA PhaseGood ==
  ASSUME NEW s, Good(s), NEW u \in Stores, u.commands = s.commands, u.draining = s.draining,
         {s.phase, u.phase} \cap {"preparing", "cancelling"} = {},
         s.phase \in Ended => u.phase \in Ended,
         u.phase = "completed" => room = "closed",
         u.phase = "cancelled" => fenced
  PROVE  Good(u)
<1>1. \A t, k : At(u, t, k) = At(s, t, k)
  BY DEF At
<1>2. Issued(u) = Issued(s)
  BY DEF Issued
<1>3. Books(u)
  <2>1. /\ s.phase \notin {"preparing", "cancelling"} /\ u.phase \notin {"preparing", "cancelling"}
        /\ Books(s) /\ u.commands[Prepare] = s.commands[Prepare]
    BY DEF Good
  <2>2. /\ u.commands[Prepare] \notin {"pending", "waiting"}
        /\ \A k \in Attempts : At(u, "cancel_room", k) \notin {"pending", "waiting"}
    BY <1>1, <2>1 DEF Books
  <2>3. u.phase \notin Ended \cup {"cancelling"} => \A k \in Attempts : At(u, "cancel_room", k) = "none"
    BY <1>1, <2>1 DEF Books
  <2>4. /\ ~u.draining => \A k \in Attempts : At(u, "drain", k) = "none"
        /\ \A t \in Types : \A j, k \in Attempts :
              j < k /\ At(u, t, k) # "none" => At(u, t, j) = "done"
    BY <1>1, <2>1 DEF Books
  <2>5. QED BY <2>1, <2>2, <2>3, <2>4 DEF Books
<1>4. Counted(u) /\ Ledger(u) /\ Closed(u)
  BY <1>1, <1>2, LedgerKept DEF Good, Counted, Closed
<1>5. QED BY <1>3, <1>4 DEF Good

\* The acknowledgement of a preparation.
LEMMA PreparationGood ==
  ASSUME TypeOK, NEW s, Good(s), s.commands[Prepare] \in {"pending", "waiting"},
         NEW late \in BOOLEAN, NEW eligible \in BOOLEAN
  PROVE  LET u == Result(s, Prepare, late, eligible) IN
         Good(u) /\ Issued(s) \subseteq Issued(u)
<1> DEFINE v == Withdraw(s, Prepare)
           p == IF eligible THEN "assigned" ELSE "prepared"
           u == [v EXCEPT !.phase = p]
<1>1. s \in Stores /\ Books(s) /\ Counted(s) /\ Ledger(s) /\ s.phase = "preparing" /\ Prepare \in Ids
  BY IdFacts DEF Good, Books
<1>2. /\ v \in Stores /\ v.phase = s.phase /\ v.draining = s.draining /\ v.observed = s.observed
      /\ v.commands[Prepare] = "done" /\ \A t \in Types, k \in Attempts : At(v, t, k) = At(s, t, k)
      /\ Issued(s) \subseteq Issued(v)
  <2>1. v = Issue(s, Prepare, "done") /\ "done" \in States \ {"none"} /\ "done" \in States
    BY WithdrawIssues DEF States
  <2> HIDE DEF v
  <2>2. QED BY <1>1, <2>1, IssueFacts, PreparationIssued, IssuedMore
<1>3. \/ Result(s, Prepare, late, eligible) = Cancel(v)
      \/ Result(s, Prepare, late, eligible) = u
  BY <1>1 DEF Result
<1>4. Cancel(v) = Cancel(s)
  <2>1. Withdraw(v, Prepare) = v
    BY <1>1 DEF Withdraw, Stores
  <2>2. QED BY <1>1, <1>2, <2>1 DEF Cancel, Ended
<1> HIDE DEF v
<1>5. Good(u) /\ Issued(s) \subseteq Issued(u)
  <2>1. p \in Phases /\ p \notin {"preparing", "cancelling"} \cup Ended
    BY DEF Phases, Ended
  <2> HIDE DEF p
  <2>2. /\ u \in Stores /\ u.phase = p /\ u.draining = v.draining /\ u.observed = v.observed
        /\ u.commands = v.commands /\ \A t, k : At(u, t, k) = At(v, t, k)
    BY <1>2, <2>1, PhaseFacts
  <2> HIDE DEF u
  <2>3. Books(u)
    <3>1. \A k \in Attempts : At(s, "cancel_room", k) = "none"
      BY <1>1 DEF Books, Ended
    <3>2. \A t \in Types, k \in Attempts : At(u, t, k) = At(s, t, k)
      BY <1>2, <2>2
    <3>3. "cancel_room" \in Types /\ "drain" \in Types
      BY DEF Types
    <3>4. QED BY <1>1, <1>2, <2>1, <2>2, <3>1, <3>2, <3>3 DEF Books
  <2>4. Counted(u)
    BY <1>1, <1>2, <2>2 DEF Counted
  <2>5. Ledger(u)
    BY <1>1, <1>2, <2>2, LedgerKept DEF Issued
  <2>6. Closed(u)
    BY <2>1, <2>2 DEF Closed, Ended
  <2>7. Issued(u) = Issued(v)
    BY <2>2 DEF Issued
  <2>8. QED BY <1>2, <2>2, <2>3, <2>4, <2>5, <2>6, <2>7 DEF Good
<1>6. QED BY <1>3, <1>4, <1>5, CancelGood

\* A command that failed is issued again.
LEMMA ReissueGood ==
  ASSUME TypeOK, NEW s, Good(s), NEW t \in Types, NEW k \in Attempts,
         At(s, t, k) \in {"pending", "waiting"}, outcome[<<t, k>>] = "failed"
  PROVE  LET u == Issue(Withdraw(s, <<t, k>>), <<t, k + 1>>, "waiting") IN
         Good(u) /\ Issued(s) \subseteq Issued(u)
<1> DEFINE v == Issue(s, <<t, k>>, "done")
           n == k + 1
           u == Issue(v, <<t, n>>, "waiting")
<1>1. s \in Stores /\ Books(s) /\ Counted(s) /\ Ledger(s) /\ k \in Nat /\ Attempts \subseteq Nat
  BY IdFacts DEF Good
<1>2. n \in Attempts /\ n > 0 /\ n - 1 = k /\ n # k
  <2>1. k < failures /\ failures \in Attempts
    BY <1>1 DEF Counted, TypeOK
  <2>2. QED BY <1>1, <2>1, FailuresAssumption DEF Attempts
<1>3. /\ <<t, k>> \in Ids /\ <<t, n>> \in Ids /\ {"done", "waiting"} \subseteq States \ {"none"}
  BY <1>2, IdFacts DEF States
<1>4. Issue(Withdraw(s, <<t, k>>), <<t, k + 1>>, "waiting") = u
  BY WithdrawIssues
<1>5. \A m \in Attempts : m > k => At(s, t, m) = "none"
  BY <1>1 DEF Books
<1> HIDE DEF n
<1>6. /\ v \in Stores /\ v.phase = s.phase /\ v.draining = s.draining /\ v.observed = s.observed
      /\ v.commands[Prepare] = s.commands[Prepare] /\ At(v, t, k) = "done"
      /\ \A r \in Types, m \in Attempts : r # t \/ m # k => At(v, r, m) = At(s, r, m)
      /\ Issued(s) \subseteq Issued(v)
  <2>1. "done" \in States /\ "done" \in States \ {"none"}
    BY <1>3
  <2>2. /\ v \in Stores /\ v.phase = s.phase /\ v.draining = s.draining /\ v.observed = s.observed
    BY <1>1, <1>3, <2>1, IssueFacts
  <2>3. /\ v.commands[Prepare] = s.commands[Prepare] /\ At(v, t, k) = "done"
        /\ \A r \in Types, m \in Attempts : r # t \/ m # k => At(v, r, m) = At(s, r, m)
    BY <1>1, <2>1, AttemptIssued
  <2>4. Issued(s) \subseteq Issued(v)
    BY <1>1, <1>3, <2>1, IssuedMore
  <2>5. QED BY <2>2, <2>3, <2>4
<1> HIDE DEF v
<1>7. /\ u \in Stores /\ u.phase = v.phase /\ u.draining = v.draining /\ u.observed = v.observed
      /\ u.commands[Prepare] = v.commands[Prepare] /\ At(u, t, n) = "waiting"
      /\ \A r \in Types, m \in Attempts : r # t \/ m # n => At(u, r, m) = At(v, r, m)
      /\ Issued(v) \subseteq Issued(u)
  <2>1. "waiting" \in States /\ "waiting" \in States \ {"none"}
    BY <1>3
  <2>2. /\ u \in Stores /\ u.phase = v.phase /\ u.draining = v.draining /\ u.observed = v.observed
    BY <1>6, <1>3, <2>1, IssueFacts
  <2>3. /\ u.commands[Prepare] = v.commands[Prepare] /\ At(u, t, n) = "waiting"
        /\ \A r \in Types, m \in Attempts : r # t \/ m # n => At(u, r, m) = At(v, r, m)
    BY <1>2, <1>6, <2>1, AttemptIssued
  <2>4. Issued(v) \subseteq Issued(u)
    BY <1>6, <1>3, <2>1, IssuedMore
  <2>5. QED BY <2>2, <2>3, <2>4
<1> HIDE DEF u
<1>8. /\ \A r \in Types \ {t}, m \in Attempts : At(u, r, m) = At(s, r, m)
      /\ At(u, t, k) = "done" /\ At(u, t, n) = "waiting"
      /\ \A m \in Attempts \ {k, n} : At(u, t, m) = At(s, t, m)
  BY <1>2, <1>6, <1>7
<1>9. Books(u)
  <2>1. u.commands[Prepare] \in {"pending", "waiting"} <=> u.phase = "preparing"
    BY <1>1, <1>6, <1>7 DEF Books
  <2>2. (\E m \in Attempts : At(u, "cancel_room", m) \in {"pending", "waiting"})
            <=> u.phase = "cancelling"
    <3>1. CASE t = "cancel_room"
      BY <1>1, <1>2, <1>6, <1>7, <1>8, <3>1 DEF Books
    <3>2. CASE t # "cancel_room"
      <4>1. "cancel_room" \in Types \ {t}
        BY <3>2 DEF Types
      <4>2. QED BY <1>1, <1>6, <1>7, <1>8, <4>1 DEF Books
    <3>3. QED BY <3>1, <3>2
  <2>3. u.phase \notin Ended \cup {"cancelling"} =>
            \A m \in Attempts : At(u, "cancel_room", m) = "none"
    <3>1. CASE t = "cancel_room"
      BY <1>1, <1>6, <1>7, <3>1 DEF Books
    <3>2. CASE t # "cancel_room"
      <4>1. "cancel_room" \in Types \ {t}
        BY <3>2 DEF Types
      <4>2. QED BY <1>1, <1>6, <1>7, <1>8, <4>1 DEF Books
    <3>3. QED BY <3>1, <3>2
  <2>4. ~u.draining => \A m \in Attempts : At(u, "drain", m) = "none"
    <3>1. CASE t = "drain"
      <4>1. s.draining
        BY <1>1, <3>1 DEF Books
      <4>2. QED BY <1>6, <1>7, <4>1
    <3>2. CASE t # "drain"
      <4>1. "drain" \in Types \ {t}
        BY <3>2 DEF Types
      <4>2. QED BY <1>1, <1>6, <1>7, <1>8, <4>1 DEF Books
    <3>3. QED BY <3>1, <3>2
  <2>5. \A r \in Types : \A j, m \in Attempts : j < m /\ At(u, r, m) # "none" => At(u, r, j) = "done"
    <3> SUFFICES ASSUME NEW r \in Types, NEW j \in Attempts, NEW m \in Attempts,
                        j < m, At(u, r, m) # "none"
                 PROVE  At(u, r, j) = "done"
      OBVIOUS
    <3>1. CASE r # t
      BY <1>1, <1>8, <3>1 DEF Books
    <3>2. CASE r = t
      <4>1. m <= n
        BY <1>1, <1>2, <1>5, <1>8, <3>2
      <4>2. CASE j = k
        BY <1>8, <3>2, <4>2
      <4>3. CASE j # k
        <5>1. j < k /\ j \in Attempts \ {k, n}
          BY <1>1, <1>2, <4>1, <4>3
        <5>2. At(s, t, j) = "done"
          BY <1>1, <5>1 DEF Books
        <5>3. QED BY <1>8, <3>2, <5>1, <5>2
      <4>4. QED BY <4>2, <4>3
    <3>3. QED BY <3>1, <3>2
  <2>6. QED BY <2>1, <2>2, <2>3, <2>4, <2>5 DEF Books
<1>10. Counted(u)
  <2> SUFFICES ASSUME NEW r \in Types, NEW m \in Attempts, m > 0, At(u, r, m) # "none"
               PROVE  outcome[<<r, m - 1>>] = "failed"
    BY <1>1 DEF Counted
  <2>1. CASE r = t /\ m = n
    BY <1>2, <2>1
  <2>2. CASE ~(r = t /\ m = n)
    <3>1. At(s, r, m) # "none"
      BY <1>8, <2>2
    <3>2. QED BY <1>1, <3>1 DEF Counted
  <2>3. QED BY <2>1, <2>2
<1>11. Ledger(u) /\ Closed(u)
  BY <1>1, <1>6, <1>7, LedgerKept DEF Closed, Good
<1>12. QED BY <1>4, <1>6, <1>7, <1>9, <1>10, <1>11 DEF Good

\* A command that succeeded is done, and no other of its type is live.
LEMMA AttemptDone ==
  ASSUME NEW s, Good(s), NEW t \in Types, NEW k \in Attempts, At(s, t, k) \in {"pending", "waiting"}
  PROVE  LET v == Issue(s, <<t, k>>, "done") IN
         /\ v \in Stores /\ v.phase = s.phase /\ v.draining = s.draining /\ v.observed = s.observed
         /\ v.commands[Prepare] = s.commands[Prepare]
         /\ \A r \in Types \ {t}, m \in Attempts : At(v, r, m) = At(s, r, m)
         /\ \A m \in Attempts : At(v, t, m) \notin {"pending", "waiting"}
         /\ \A r \in Types : \A j, m \in Attempts :
                j < m /\ At(v, r, m) # "none" => At(v, r, j) = "done"
         /\ Counted(v) /\ Ledger(v) /\ Issued(s) \subseteq Issued(v)
<1> DEFINE v == Issue(s, <<t, k>>, "done")
<1>1. /\ s \in Stores /\ Books(s) /\ Counted(s) /\ Ledger(s) /\ k \in Nat /\ Attempts \subseteq Nat
      /\ <<t, k>> \in Ids /\ "done" \in States /\ "done" \in States \ {"none"}
  BY IdFacts DEF Good, States
<1>2. /\ v \in Stores /\ v.phase = s.phase /\ v.draining = s.draining /\ v.observed = s.observed
  BY <1>1, IssueFacts
<1>3. /\ v.commands[Prepare] = s.commands[Prepare] /\ At(v, t, k) = "done"
      /\ \A r \in Types, m \in Attempts : r # t \/ m # k => At(v, r, m) = At(s, r, m)
  BY <1>1, AttemptIssued
<1>4. Issued(s) \subseteq Issued(v)
  BY <1>1, IssuedMore
<1> HIDE DEF v
<1>5. \A m \in Attempts : At(v, t, m) \notin {"pending", "waiting"}
  <2> SUFFICES ASSUME NEW m \in Attempts, m # k PROVE At(s, t, m) \notin {"pending", "waiting"}
    BY <1>3
  <2>1. m < k \/ k < m
    BY <1>1
  <2>2. QED BY <1>1, <2>1 DEF Books
<1>6. \A r \in Types : \A j, m \in Attempts : j < m /\ At(v, r, m) # "none" => At(v, r, j) = "done"
  <2> SUFFICES ASSUME NEW r \in Types, NEW j \in Attempts, NEW m \in Attempts,
                      j < m, At(v, r, m) # "none"
               PROVE  At(v, r, j) = "done"
    OBVIOUS
  <2>1. At(s, r, m) # "none"
    BY <1>3
  <2>2. At(s, r, j) = "done"
    BY <1>1, <2>1 DEF Books
  <2>3. QED BY <1>3, <2>2
<1>7. Counted(v)
  <2>1. \A r \in Types, m \in Attempts : At(v, r, m) # "none" => At(s, r, m) # "none"
    BY <1>3
  <2>2. QED BY <1>1, <2>1 DEF Counted
<1>8. QED BY <1>1, <1>2, <1>3, <1>4, <1>5, <1>6, <1>7, LedgerKept DEF v

\* The host has cleaned up.
LEMMA CleanupGood ==
  ASSUME NEW s, Good(s), NEW k \in Attempts, At(s, "cancel_room", k) \in {"pending", "waiting"}, fenced
  PROVE  LET u == [Withdraw(s, <<"cancel_room", k>>) EXCEPT
                       !.phase = IF @ = "cancelling" THEN "cancelled" ELSE @] IN
         Good(u) /\ Issued(s) \subseteq Issued(u)
<1> DEFINE v == Issue(s, <<"cancel_room", k>>, "done")
           u == [v EXCEPT !.phase = "cancelled"]
<1>1. "cancel_room" \in Types /\ "drain" \in Types \ {"cancel_room"} /\ "cancelled" \in Phases
  BY DEF Types, Phases, Ended
<1>2. Books(s) /\ s.phase = "cancelling"
  BY DEF Good, Books
<1>3. /\ v \in Stores /\ v.phase = s.phase /\ v.draining = s.draining /\ v.observed = s.observed
      /\ v.commands[Prepare] = s.commands[Prepare]
      /\ \A r \in Types \ {"cancel_room"}, m \in Attempts : At(v, r, m) = At(s, r, m)
      /\ \A m \in Attempts : At(v, "cancel_room", m) \notin {"pending", "waiting"}
      /\ \A r \in Types : \A j, m \in Attempts :
             j < m /\ At(v, r, m) # "none" => At(v, r, j) = "done"
      /\ Counted(v) /\ Ledger(v) /\ Issued(s) \subseteq Issued(v)
  BY <1>1, AttemptDone
<1>4. [Withdraw(s, <<"cancel_room", k>>) EXCEPT !.phase = IF @ = "cancelling" THEN "cancelled" ELSE @] = u
  BY <1>2, <1>3, WithdrawIssues
<1> HIDE DEF v
<1>5. /\ u \in Stores /\ u.phase = "cancelled" /\ u.draining = v.draining /\ u.observed = v.observed
      /\ u.commands = v.commands /\ \A t, m : At(u, t, m) = At(v, t, m)
  BY <1>1, <1>3, PhaseFacts
<1> HIDE DEF u
<1>6. Books(u)
  BY <1>1, <1>2, <1>3, <1>5 DEF Books, Ended
<1>7. Counted(u) /\ Ledger(u) /\ Closed(u)
  BY <1>3, <1>5 DEF Counted, Ledger, Issued, Closed
<1>8. Issued(u) = Issued(v)
  BY <1>5 DEF Issued
<1>9. QED BY <1>3, <1>4, <1>5, <1>6, <1>7, <1>8 DEF Good

\* The agent has taken the drain order.
LEMMA DrainGood ==
  ASSUME NEW s, Good(s), NEW k \in Attempts, At(s, "drain", k) \in {"pending", "waiting"}
  PROVE  LET u == [Withdraw(s, <<"drain", k>>) EXCEPT !.drainAck = TRUE] IN
         Good(u) /\ Issued(s) \subseteq Issued(u)
<1> DEFINE v == Issue(s, <<"drain", k>>, "done")
           u == [v EXCEPT !.drainAck = TRUE]
<1>1. "drain" \in Types /\ "cancel_room" \in Types \ {"drain"}
  BY DEF Types
<1>2. Books(s) /\ s.draining
  BY DEF Good, Books
<1>3. /\ v \in Stores /\ v.phase = s.phase /\ v.draining = s.draining /\ v.observed = s.observed
      /\ v.commands[Prepare] = s.commands[Prepare]
      /\ \A r \in Types \ {"drain"}, m \in Attempts : At(v, r, m) = At(s, r, m)
      /\ \A r \in Types : \A j, m \in Attempts :
             j < m /\ At(v, r, m) # "none" => At(v, r, j) = "done"
      /\ Counted(v) /\ Ledger(v) /\ Issued(s) \subseteq Issued(v)
  BY <1>1, AttemptDone
<1>4. [Withdraw(s, <<"drain", k>>) EXCEPT !.drainAck = TRUE] = u
  BY WithdrawIssues
<1> HIDE DEF v
<1>5. /\ u \in Stores /\ u.phase = v.phase /\ u.draining = v.draining /\ u.observed = v.observed
      /\ u.commands = v.commands
  BY <1>3 DEF Stores
<1>6. \A t, m : At(u, t, m) = At(v, t, m)
  BY <1>5 DEF At
<1> HIDE DEF u
<1>7. Books(u)
  BY <1>1, <1>2, <1>3, <1>5, <1>6 DEF Books
<1>8. Counted(u) /\ Ledger(u) /\ Closed(u)
  BY <1>3, <1>5, <1>6 DEF Counted, Ledger, Issued, Closed, Good
<1>9. Issued(u) = Issued(v)
  BY <1>5 DEF Issued
<1>10. QED BY <1>3, <1>4, <1>5, <1>7, <1>8, <1>9 DEF Good

\* The result a command was still waiting for.
LEMMA ResultGood ==
  ASSUME TypeOK, Host, NEW s, Good(s), NEW i \in Ids, s.commands[i] \in {"pending", "waiting"},
         i \in Executed, NEW late \in BOOLEAN, NEW eligible \in BOOLEAN
  PROVE  LET u == Result(s, i, late, eligible) IN
         Good(u) /\ Issued(s) \subseteq Issued(u)
<1>1. CASE i = Prepare
  BY <1>1, PreparationGood
<1>2. CASE i # Prepare
  <2>1. PICK t \in Types, k \in Attempts : i = <<t, k>>
    BY <1>2, IdFacts
  <2>2. i[1] = t /\ i[2] = k /\ At(s, t, k) \in {"pending", "waiting"} /\ t \in {"cancel_room", "drain"}
    BY <2>1, IdFacts DEF At, Types
  <2>3. CASE outcome[i] = "failed"
    <3>1. Result(s, i, late, eligible) = Issue(Withdraw(s, <<t, k>>), <<t, k + 1>>, "waiting")
      BY <1>2, <2>1, <2>2, <2>3 DEF Result
    <3>2. QED BY <2>1, <2>2, <2>3, <3>1, ReissueGood
  <2>4. CASE outcome[i] # "failed" /\ t = "drain"
    <3>1. Result(s, i, late, eligible) = [Withdraw(s, <<"drain", k>>) EXCEPT !.drainAck = TRUE]
      BY <1>2, <2>1, <2>2, <2>4 DEF Result
    <3>2. QED BY <2>2, <2>4, <3>1, DrainGood
  <2>5. CASE outcome[i] # "failed" /\ t = "cancel_room"
    <3>1. Result(s, i, late, eligible) =
            [Withdraw(s, <<"cancel_room", k>>) EXCEPT
                !.phase = IF @ = "cancelling" THEN "cancelled" ELSE @]
      BY <1>2, <2>1, <2>2, <2>5 DEF Result
    <3>2. outcome[<<"cancel_room", k>>] = "ok"
      BY <2>1, <2>5 DEF TypeOK, Executed
    <3>3. fenced
      BY <3>2 DEF Host
    <3>4. QED BY <2>2, <2>5, <3>1, <3>3, CleanupGood
  <2>6. QED BY <2>2, <2>3, <2>4, <2>5
<1>3. QED BY <1>1, <1>2

LEMMA TakeGood ==
  ASSUME TypeOK, Host, NEW s, Good(s), NEW type, NEW results \in SUBSET Executed,
         NEW late \in BOOLEAN, NEW eligible \in BOOLEAN
  PROVE  LET u == Take(s, type, results, late, eligible) IN
         Good(u) /\ Issued(s) \subseteq Issued(u)
<1>1. CASE News(s, type, results) = {}
  BY <1>1 DEF Take
<1>2. CASE News(s, type, results) # {}
  <2> DEFINE i == CHOOSE i \in News(s, type, results) : TRUE
  <2>1. i \in News(s, type, results)
    BY <1>2
  <2>2. i \in Ids /\ i \in Executed /\ s.commands[i] \in {"pending", "waiting"}
    BY <2>1 DEF News, Live
  <2>3. Take(s, type, results, late, eligible) = Result(s, i, late, eligible)
    BY <1>2 DEF Take
  <2> HIDE DEF i
  <2>4. QED BY <2>2, <2>3, ResultGood
<1>3. QED BY <1>1, <1>2

LEMMA AcknowledgeGood ==
  ASSUME TypeOK, Host, NEW s, Good(s), NEW results \in SUBSET Executed,
         NEW late \in BOOLEAN, NEW eligible \in BOOLEAN
  PROVE  LET u == Acknowledge(s, results, late, eligible) IN
         Good(u) /\ Issued(s) \subseteq Issued(u)
<1> DEFINE Taken(t, type) == Take(t, type, results, late, eligible)
           t == Taken(s, "prepare_room")
           u == Taken(t, "cancel_room")
<1>1. Good(t) /\ Issued(s) \subseteq Issued(t)
  BY TakeGood
<1>2. Good(u) /\ Issued(t) \subseteq Issued(u)
  <2> HIDE DEF t
  <2>1. QED BY <1>1, TakeGood
<1>3. Good(Taken(u, "drain")) /\ Issued(u) \subseteq Issued(Taken(u, "drain"))
  <2> HIDE DEF u
  <2>1. QED BY <1>2, TakeGood
<1>4. QED BY <1>1, <1>2, <1>3 DEF Acknowledge

\* A report closes the books only on a room that is closed.
LEMMA ReportGood ==
  ASSUME TypeOK, NEW s, Good(s), NEW report \in Rooms, report = "closed" => room = "closed"
  PROVE  Good(Report(s, report)) /\ Report(s, report).observed = report
<1> DEFINE u == Report(s, report)
           p == IF s.phase \in {"assigned", "active"} /\ report = "closed" THEN "completed"
                ELSE IF s.phase \in {"assigned", "active"} /\ report = "playing" THEN "active"
                ELSE s.phase
           v == [s EXCEPT !.observed = report]
<1>1. s \in Stores /\ p \in Phases
  BY DEF Good, Stores, Phases, Ended
<1>2. u = [s EXCEPT !.observed = report, !.phase = p]
  BY <1>1 DEF Report, Stores
<1>3. CASE p = s.phase
  <2>1. /\ u \in Stores /\ u.observed = report /\ u.phase = s.phase /\ u.commands = s.commands
        /\ u.draining = s.draining
    BY <1>1, <1>2, <1>3 DEF Stores
  <2> HIDE DEF u
  <2>2. \A t, k : At(u, t, k) = At(s, t, k)
    BY <2>1 DEF At
  <2>3. Books(u)
    BY <2>1, <2>2 DEF Good, Books
  <2>4. Counted(u) /\ Ledger(u) /\ Closed(u)
    BY <2>1, <2>2 DEF Good, Counted, Ledger, Issued, Closed
  <2>5. QED BY <2>1, <2>3, <2>4 DEF Good, u
<1>4. CASE p # s.phase
  <2>1. s.phase \in {"assigned", "active"} /\ p \in {"completed", "active"}
        /\ (p = "completed" => room = "closed")
    BY <1>4
  <2> HIDE DEF p
  <2>2. /\ u \in Stores /\ u.observed = report /\ u.phase = p /\ u.commands = s.commands
        /\ u.draining = s.draining
    BY <1>1, <1>2 DEF Stores
  <2> HIDE DEF u
  <2>3. Good(u)
    BY <2>1, <2>2, PhaseGood DEF Ended
  <2>4. QED BY <2>2, <2>3 DEF u
<1>5. QED BY <1>3, <1>4

-----------------------------------------------------------------------------
(* Every step keeps the invariant.                                         *)

LEMMA InvUse ==
  ASSUME Inv
  PROVE  /\ TypeOK /\ Good(store) /\ store \in Stores /\ Books(store) /\ Counted(store)
         /\ Ledger(store) /\ Closed(store) /\ Host /\ NewestReportCounts
  BY DEF Inv, Good

\* A store that is good before a step of the controller is good after it.
LEMMA GoodNext ==
  ASSUME NEW s, Good(s), store' = s, UNCHANGED <<agent, unreported, body>>,
         answer'.commands \cup stray' \subseteq Issued(s)
  PROVE  Good(store)'
<1>1. outcome' = outcome /\ failures' = failures /\ room' = room /\ fenced' = fenced /\ inbox' = inbox
  BY DEF agent
<1>2. s \in Stores /\ Books(s) /\ Counted(s) /\ Ledger(s) /\ Closed(s)
  BY DEF Good
<1>3. Books(store)' /\ (store \in Stores)'
  BY <1>2 DEF Books, At
<1>4. Counted(store)'
  BY <1>1, <1>2 DEF Counted, At
<1>5. Executed' = Executed /\ Issued(store)' = Issued(s)
  BY <1>1 DEF Executed, Issued
<1>6. Ledger(store)'
  BY <1>1, <1>2, <1>5 DEF Ledger
<1>7. Closed(store)'
  BY <1>1, <1>2 DEF Closed
<1>8. QED BY <1>3, <1>4, <1>6, <1>7 DEF Good

LEMMA ChangeStep ==
  ASSUME Inv, NEW s, Good(s), Issued(store) \subseteq Issued(s), s.observed = store.observed, Change(s)
  PROVE  Inv'
<1>1. /\ store' = s /\ UNCHANGED <<agent, unreported, body, applied, earlier, answer, stray>>
      /\ TypeOK /\ Ledger(store) /\ Host /\ NewestReportCounts
  BY InvUse DEF Change
<1>2. answer'.commands \cup stray' \subseteq Issued(s)
  BY <1>1 DEF Ledger
<1>3. Good(store)'
  BY <1>1, <1>2, GoodNext
<1>4. TypeOK'
  BY <1>1, <1>3 DEF TypeOK, Good, agent
<1>5. Host' /\ NewestReportCounts'
  BY <1>1 DEF Host, NewestReportCounts, agent
<1>6. QED BY <1>3, <1>4, <1>5 DEF Inv

LEMMA ControllerStep ==
  ASSUME Inv, \/ Assign \/ GiveUp \/ BeginDrain \/ \E i \in Ids : Due(i)
  PROVE  Inv'
<1>1. CASE Assign
  <2> DEFINE s == [store EXCEPT !.phase = "assigned"]
  <2>1. store \in Stores /\ Good(store) /\ store.phase = "prepared" /\ "assigned" \in Phases /\ Change(s)
    BY <1>1, InvUse DEF Assign, Phases
  <2>2. /\ s \in Stores /\ s.phase = "assigned" /\ s.draining = store.draining
        /\ s.observed = store.observed /\ s.commands = store.commands
    BY <2>1, PhaseFacts
  <2> HIDE DEF s
  <2>3. Good(s)
    BY <2>1, <2>2, PhaseGood DEF Ended
  <2>4. Issued(s) = Issued(store)
    BY <2>2 DEF Issued
  <2>5. QED BY <2>1, <2>2, <2>3, <2>4, ChangeStep
<1>2. CASE GiveUp
  <2>1. Good(Cancel(store)) /\ Cancel(store).observed = store.observed /\ Change(Cancel(store))
    BY <1>2, InvUse, CancelGood DEF GiveUp
  <2>2. Issued(store) \subseteq Issued(Cancel(store))
    BY InvUse, CancelGood
  <2>3. QED BY <2>1, <2>2, ChangeStep
<1>3. CASE BeginDrain
  <2> DEFINE d == [store EXCEPT !.draining = TRUE]
             s == Issue(d, <<"drain", 0>>, "pending")
  <2>1. /\ store \in Stores /\ Books(store) /\ Counted(store) /\ Ledger(store) /\ Closed(store)
        /\ ~store.draining /\ Change(s)
        /\ "drain" \in Types /\ "cancel_room" \in Types /\ 0 \in Attempts /\ Attempts \subseteq Nat
        /\ <<"drain", 0>> \in Ids /\ "pending" \in States /\ "pending" \in States \ {"none"}
    BY <1>3, InvUse, IdFacts DEF BeginDrain, Types, States
  <2>2. /\ d \in Stores /\ d.phase = store.phase /\ d.observed = store.observed
        /\ d.commands = store.commands /\ d.draining = TRUE
    BY <2>1 DEF Stores
  <2> HIDE DEF d
  <2>3. \A t, k : At(d, t, k) = At(store, t, k)
    BY <2>2 DEF At
  <2>4. /\ s \in Stores /\ s.phase = store.phase /\ s.observed = store.observed /\ s.draining = TRUE
        /\ s.commands[Prepare] = store.commands[Prepare] /\ At(s, "drain", 0) = "pending"
        /\ \A t \in Types, k \in Attempts : t # "drain" \/ k # 0 => At(s, t, k) = At(store, t, k)
    <3>1. /\ s \in Stores /\ s.phase = d.phase /\ s.observed = d.observed /\ s.draining = d.draining
      BY <2>1, <2>2, IssueFacts
    <3>2. /\ s.commands[Prepare] = d.commands[Prepare] /\ At(s, "drain", 0) = "pending"
          /\ \A t \in Types, k \in Attempts : t # "drain" \/ k # 0 => At(s, t, k) = At(d, t, k)
      BY <2>1, <2>2, AttemptIssued
    <3>3. QED BY <2>2, <2>3, <3>1, <3>2
  <2>5. Issued(store) \subseteq Issued(s)
    <3>1. Issued(d) = Issued(store)
      BY <2>2 DEF Issued
    <3>2. QED BY <2>1, <2>2, <3>1, IssuedMore
  <2> HIDE DEF s
  <2>6. \A k \in Attempts : At(store, "drain", k) = "none"
    BY <2>1 DEF Books
  <2>7. Books(s)
    <3>1. \A t \in Types : \A j, k \in Attempts : j < k /\ At(s, t, k) # "none" => At(s, t, j) = "done"
      <4> SUFFICES ASSUME NEW t \in Types, NEW j \in Attempts, NEW k \in Attempts,
                          j < k, At(s, t, k) # "none"
                   PROVE  At(s, t, j) = "done"
        OBVIOUS
      <4>1. k # 0 /\ At(store, t, k) # "none"
        BY <2>1, <2>4
      <4>2. t # "drain"
        BY <2>6, <4>1
      <4>3. QED BY <2>1, <2>4, <4>1, <4>2 DEF Books
    <3>2. \A k \in Attempts : At(s, "cancel_room", k) = At(store, "cancel_room", k)
      BY <2>1, <2>4
    <3>3. QED BY <2>1, <2>4, <3>1, <3>2 DEF Books
  <2>8. Counted(s)
    <3> SUFFICES ASSUME NEW t \in Types, NEW k \in Attempts, k > 0, At(s, t, k) # "none"
                 PROVE  outcome[<<t, k - 1>>] = "failed"
      BY <2>1 DEF Counted
    <3>1. At(store, t, k) # "none"
      BY <2>1, <2>4
    <3>2. QED BY <2>1, <3>1 DEF Counted
  <2>9. Good(s)
    BY <2>1, <2>4, <2>5, <2>7, <2>8, LedgerKept DEF Good, Closed
  <2>10. QED BY <2>1, <2>4, <2>5, <2>9, ChangeStep
<1>4. CASE \E i \in Ids : Due(i)
  <2>1. PICK i \in Ids : store.commands[i] = "waiting" /\ Change(Issue(store, i, "pending"))
    BY <1>4 DEF Due
  <2> DEFINE s == Issue(store, i, "pending")
  <2>2. /\ store \in Stores /\ Books(store) /\ Counted(store) /\ Ledger(store) /\ Closed(store)
        /\ "pending" \in States /\ "pending" \in States \ {"none"}
    BY InvUse DEF States
  <2>3. /\ s \in Stores /\ s.phase = store.phase /\ s.observed = store.observed
        /\ s.draining = store.draining /\ Issued(store) \subseteq Issued(s)
        /\ s.commands[i] = "pending" /\ \A j \in Ids \ {i} : s.commands[j] = store.commands[j]
    BY <2>2, IssueFacts, IssuedMore
  <2> HIDE DEF s
  <2>4. /\ \A j \in Ids : /\ s.commands[j] \in {"pending", "waiting"}
                                <=> store.commands[j] \in {"pending", "waiting"}
                          /\ s.commands[j] = "none" <=> store.commands[j] = "none"
                          /\ s.commands[j] = "done" <=> store.commands[j] = "done"
    BY <2>1, <2>3
  <2>5. \A t \in Types, k \in Attempts :
            /\ At(s, t, k) \in {"pending", "waiting"} <=> At(store, t, k) \in {"pending", "waiting"}
            /\ At(s, t, k) = "none" <=> At(store, t, k) = "none"
            /\ At(s, t, k) = "done" <=> At(store, t, k) = "done"
    BY <2>4, IdFacts DEF At
  <2>6. "drain" \in Types /\ "cancel_room" \in Types /\ Prepare \in Ids
    BY IdFacts DEF Types
  <2>7. Books(s)
    BY <2>2, <2>3, <2>4, <2>5, <2>6 DEF Books
  <2>8. Counted(s)
    BY <2>2, <2>5 DEF Counted
  <2>9. Good(s)
    BY <2>2, <2>3, <2>7, <2>8, LedgerKept DEF Good, Closed
  <2>10. QED BY <2>1, <2>3, <2>9, ChangeStep DEF s
<1>5. QED BY <1>1, <1>2, <1>3, <1>4

\* A heartbeat, for the first time or again.
LEMMA DeliverStep ==
  ASSUME Inv, NEW b \in {"body", "earlier"}, Deliver(b)
  PROVE  Inv'
<1>1. /\ TypeOK /\ Good(store) /\ Ledger(store) /\ Host /\ NewestReportCounts
      /\ UNCHANGED <<agent, unreported, body, earlier>>
      /\ applied' = (applied \/ b = "body")
  BY InvUse DEF Deliver
<1>2. /\ Good(store')
      /\ Issued(store) \subseteq Issued(store')
      /\ b = "body" /\ ~applied => store'.observed = body.report
      /\ b # "body" \/ applied => store' = store
  <2>1. CASE ~Fresh(b)
    BY <1>1, <2>1 DEF Deliver, Fresh
  <2>2. CASE Fresh(b)
    <3>1. b = "body" /\ ~applied
      BY <2>2 DEF Fresh
    <3>2. PICK late \in BOOLEAN, eligible \in BOOLEAN :
            store' = Report(Acknowledge(store, body.results, late, eligible), body.report)
      BY <2>2, <3>1 DEF Deliver
    <3>3. body.results \in SUBSET Executed /\ body.report \in Rooms /\ (body.report = "closed" => room = "closed")
      BY <1>1 DEF Ledger, Host, TypeOK, Requests
    <3> DEFINE s == Acknowledge(store, body.results, late, eligible)
    <3>4. Good(s) /\ Issued(store) \subseteq Issued(s)
      BY <1>1, <3>3, AcknowledgeGood
    <3> HIDE DEF s
    <3>5. Good(Report(s, body.report)) /\ Report(s, body.report).observed = body.report
      BY <1>1, <3>3, <3>4, ReportGood
    <3>6. Issued(Report(s, body.report)) = Issued(s)
      BY <3>4 DEF Issued, Report, Good, Stores
    <3>7. QED BY <3>1, <3>2, <3>4, <3>5, <3>6 DEF s
  <2>3. QED BY <2>1, <2>2
<1>3. /\ answer' \in [commands : SUBSET Ids, sent : BOOLEAN] /\ stray' \in SUBSET Ids
      /\ answer'.commands \cup stray' \subseteq Issued(store')
  <2> DEFINE pending == {i \in Ids : store'.commands[i] = "pending"}
  <2>1. pending \subseteq Issued(store') /\ pending \subseteq Ids
    BY DEF Issued
  <2>2. answer.commands \cup stray \subseteq Issued(store') /\ answer.commands \cup stray \subseteq Ids
    BY <1>1, <1>2 DEF Ledger, TypeOK
  <2>3. \/ answer' = [commands |-> pending, sent |-> TRUE] /\ stray' \in Strays(answer.commands)
        \/ stray' \in Strays(pending) /\ answer' = answer
    BY DEF Deliver
  <2> HIDE DEF pending
  <2>4. \A C \in SUBSET Ids : C \subseteq Issued(store') => 
            \A S \in Strays(C) : S \subseteq Ids /\ S \subseteq Issued(store')
    BY <2>2 DEF Strays
  <2>5. CASE answer' = [commands |-> pending, sent |-> TRUE] /\ stray' \in Strays(answer.commands)
    <3>1. stray' \subseteq Ids /\ stray' \subseteq Issued(store')
      BY <2>2, <2>4, <2>5
    <3>2. answer'.commands = pending /\ answer' \in [commands : SUBSET Ids, sent : BOOLEAN]
      BY <2>1, <2>5
    <3>3. QED BY <2>1, <3>1, <3>2
  <2>6. CASE stray' \in Strays(pending) /\ answer' = answer
    <3>1. stray' \subseteq Ids /\ stray' \subseteq Issued(store')
      BY <2>1, <2>4, <2>6
    <3>2. answer'.commands \subseteq Issued(store') /\ answer' \in [commands : SUBSET Ids, sent : BOOLEAN]
      BY <1>1, <2>2, <2>6 DEF TypeOK
    <3>3. QED BY <3>1, <3>2
  <2>7. QED BY <2>3, <2>5, <2>6
<1>4. Good(store)'
  BY <1>1, <1>2, <1>3, GoodNext
<1>5. TypeOK'
  BY <1>1, <1>3, <1>4 DEF TypeOK, Good, agent
<1>6. Host'
  BY <1>1 DEF Host, agent
<1>7. NewestReportCounts'
  BY <1>1, <1>2 DEF NewestReportCounts
<1>8. QED BY <1>4, <1>5, <1>6, <1>7 DEF Inv

\* The agent's exchange: what it sends was executed, what it learns was issued.
LEMMA AgentStep ==
  ASSUME Inv, UNCHANGED <<store, room, fenced, outcome, failures>>,
         inbox' \subseteq Ids, stray' \subseteq Ids, unreported' \subseteq Executed,
         body' \in Requests, earlier' \in Requests, applied' \in BOOLEAN,
         answer' \in [commands : SUBSET Ids, sent : BOOLEAN],
         inbox' \cup answer'.commands \cup stray' \subseteq Issued(store),
         inbox' \cap Executed = {}, body'.results \subseteq Executed,
         body'.report = "closed" => room = "closed",
         applied' /\ body'.sent => store.observed = body'.report
  PROVE  Inv'
<1>1. TypeOK /\ Good(store) /\ Books(store) /\ Counted(store) /\ Ledger(store) /\ Closed(store) /\ Host
  BY InvUse
<1>2. Executed' = Executed /\ Issued(store)' = Issued(store)
  BY DEF Executed, Issued
<1>3. TypeOK'
  BY <1>1 DEF TypeOK, Executed
<1>4. Ledger(store)'
  BY <1>1, <1>2 DEF Ledger
<1>5. Books(store)' /\ Counted(store)' /\ Closed(store)' /\ (store \in Stores)'
  BY <1>1 DEF Good, Books, Counted, Closed, At
<1>6. Host' /\ NewestReportCounts'
  BY <1>1 DEF Host, NewestReportCounts
<1>7. QED BY <1>3, <1>4, <1>5, <1>6 DEF Inv, Good

LEMMA ExchangeStep ==
  ASSUME Inv, Send \/ Receive \/ ReceiveStray
  PROVE  Inv'
<1>1. /\ TypeOK /\ Ledger(store) /\ Host /\ NewestReportCounts
      /\ NoBody \in Requests /\ NoBody.results = {} /\ NoBody.report = "none" /\ ~NoBody.sent
      /\ NoAnswer \in [commands : SUBSET Ids, sent : BOOLEAN] /\ NoAnswer.commands = {}
  BY InvUse DEF NoBody, NoAnswer, Requests, Rooms
<1>2. /\ \A C : {i \in C : outcome[i] = "none"} \cap Executed = {}
      /\ \A C \in SUBSET Ids : {i \in C : outcome[i] # "none"} \subseteq Executed
  BY DEF Executed
<1>3. CASE Send
  <2> DEFINE next == [report |-> room, results |-> unreported, sent |-> TRUE]
  <2>1. next \in Requests /\ next.results = unreported /\ next.report = room
    BY <1>1 DEF TypeOK, Requests
  <2>2. body' = next /\ UNCHANGED <<store, agent, unreported, earlier, answer, stray>> /\ applied' = FALSE
    BY <1>3 DEF Send
  <2> HIDE DEF next
  <2>3. UNCHANGED <<room, fenced, inbox, outcome, failures>>
    BY <2>2 DEF agent
  <2>4. QED BY <1>1, <2>1, <2>2, <2>3, AgentStep DEF TypeOK, Ledger
<1>4. CASE Receive
  <2>1. /\ UNCHANGED <<store, room, fenced, outcome, applied, failures>>
        /\ body' = NoBody /\ answer' = NoAnswer
        /\ earlier' \in {earlier, [body EXCEPT !.results = {}]}
        /\ stray' \in {stray} \cup {{i} : i \in answer.commands}
        /\ inbox' = inbox \cup {i \in answer.commands : outcome[i] = "none"}
        /\ unreported' = (unreported \ body.results) \cup {i \in answer.commands : outcome[i] # "none"}
    BY <1>4 DEF Receive, Learn, Strays
  <2>2. answer.commands \subseteq Ids /\ answer.commands \subseteq Issued(store) /\ earlier' \in Requests
    BY <1>1, <2>1 DEF TypeOK, Ledger, Requests
  <2>3. inbox' \subseteq Ids /\ inbox' \subseteq Issued(store) /\ inbox' \cap Executed = {}
    BY <1>1, <1>2, <2>1, <2>2 DEF TypeOK, Ledger
  <2>4. stray' \subseteq Ids /\ stray' \subseteq Issued(store)
    BY <1>1, <2>1, <2>2 DEF TypeOK, Ledger
  <2>5. unreported' \subseteq Executed
    BY <1>1, <1>2, <2>1, <2>2 DEF Ledger
  <2>6. applied' \in BOOLEAN
    BY <1>1, <2>1 DEF TypeOK
  <2>7. QED BY <1>1, <2>1, <2>2, <2>3, <2>4, <2>5, <2>6, AgentStep
<1>5. CASE ReceiveStray
  <2>1. /\ UNCHANGED <<store, room, fenced, outcome, failures, body, applied, earlier, answer, stray>>
        /\ inbox' = inbox \cup {i \in stray : outcome[i] = "none"}
        /\ unreported' = (unreported \ {}) \cup {i \in stray : outcome[i] # "none"}
    BY <1>5 DEF ReceiveStray, Learn
  <2>2. stray \subseteq Ids /\ stray \subseteq Issued(store)
    BY <1>1 DEF TypeOK, Ledger
  <2>3. inbox' \subseteq Ids /\ inbox' \subseteq Issued(store) /\ inbox' \cap Executed = {}
    BY <1>1, <1>2, <2>1, <2>2 DEF TypeOK, Ledger
  <2>4. unreported' \subseteq Executed
    BY <1>1, <1>2, <2>1, <2>2 DEF Ledger
  <2>5. QED BY <1>1, <2>1, <2>2, <2>3, <2>4, AgentStep DEF TypeOK, Ledger, Host, NewestReportCounts
<1>6. QED BY <1>3, <1>4, <1>5

\* A step of the host, which opens a room only while it may.
LEMMA HostStep ==
  ASSUME Inv, UNCHANGED <<store, body, applied, earlier, answer, stray>>,
         inbox' \subseteq inbox, unreported' \subseteq Executed', inbox' \cap Executed' = {},
         Executed \subseteq Executed', Executed' \subseteq Executed \cup inbox,
         \A i \in Executed : outcome'[i] = outcome[i],
         TypeOK', failures <= failures',
         \A t \in Types, k \in Attempts : outcome'[<<t, k>>] = "failed" => k < failures',
         fenced => fenced', room = "closed" => room' = "closed",
         room' # "none" => outcome'[Prepare] = "ok",
         fenced' => room' \notin Open,
         \A k \in Attempts : outcome'[<<"cancel_room", k>>] = "ok" => fenced'
  PROVE  Inv'
<1>1. /\ TypeOK /\ store \in Stores /\ Books(store) /\ Counted(store) /\ Ledger(store)
      /\ Closed(store) /\ Host /\ NewestReportCounts
  BY InvUse
<1>2. Counted(store)'
  <2> SUFFICES ASSUME NEW t \in Types, NEW k \in Attempts, k > 0, At(store, t, k) # "none"
               PROVE  outcome'[<<t, k - 1>>] = "failed"
    BY DEF Counted, At
  <2>1. outcome[<<t, k - 1>>] = "failed"
    BY <1>1 DEF Counted
  <2>2. k - 1 \in Attempts
    BY IdFacts, FailuresAssumption DEF Attempts
  <2>3. <<t, k - 1>> \in Executed
    BY <2>1, <2>2, IdFacts DEF Executed
  <2>4. QED BY <2>1, <2>3
<1>3. Ledger(store)'
  <2>1. Issued(store)' = Issued(store)
    BY DEF Issued
  <2>2. QED BY <1>1, <2>1 DEF Ledger
<1>4. Books(store)' /\ Closed(store)' /\ (store \in Stores)'
  BY <1>1 DEF Books, Closed, At
<1>5. Host' /\ NewestReportCounts'
  BY <1>1 DEF Host, NewestReportCounts
<1>6. QED BY <1>2, <1>3, <1>4, <1>5 DEF Inv, Good

LEMMA ExecuteStep ==
  ASSUME Inv, NEW i \in Ids, NEW ok \in BOOLEAN, Execute(i, ok)
  PROVE  Inv'
<1>1. /\ TypeOK /\ store \in Stores /\ Counted(store) /\ Ledger(store) /\ Host
      /\ Prepare \in Ids /\ failures \in Nat
  BY InvUse, IdFacts DEF TypeOK
<1>2. /\ i \in inbox /\ outcome[i] = "none" /\ i \in Issued(store)
      /\ inbox' = inbox \ {i} /\ unreported' = unreported \cup {i}
      /\ outcome' = [outcome EXCEPT ![i] = IF ok THEN "ok" ELSE "failed"]
      /\ UNCHANGED <<store, body, applied, earlier, answer, stray>>
  BY <1>1 DEF Execute, Ledger, Executed
<1>3. /\ outcome' \in [Ids -> {"none", "ok", "failed"}]
      /\ outcome'[i] = (IF ok THEN "ok" ELSE "failed")
      /\ \A j \in Ids \ {i} : outcome'[j] = outcome[j]
  BY <1>1, <1>2 DEF TypeOK
<1>4. Executed' = Executed \cup {i}
  BY <1>2, <1>3 DEF Executed
<1>5. /\ inbox' \subseteq inbox /\ unreported' \subseteq Executed' /\ inbox' \cap Executed' = {}
      /\ \A j \in Executed : outcome'[j] = outcome[j]
  BY <1>1, <1>2, <1>3, <1>4 DEF Ledger, Executed
<1>6. failures' \in Attempts /\ failures <= failures' /\ (i # Prepare /\ ~ok => failures' = failures + 1)
  BY <1>1, FailuresAssumption DEF Execute, Attempts, TypeOK
<1>7. \A t \in Types, k \in Attempts : outcome'[<<t, k>>] = "failed" => k < failures'
  <2> SUFFICES ASSUME NEW t \in Types, NEW k \in Attempts, outcome'[<<t, k>>] = "failed"
               PROVE  k < failures'
    OBVIOUS
  <2>1. <<t, k>> \in Ids /\ <<t, k>> # Prepare /\ k \in Nat /\ failures' \in Nat
    BY <1>6, IdFacts
  <2>2. CASE <<t, k>> # i
    <3>1. k < failures
      BY <1>1, <1>3, <2>1, <2>2 DEF Counted
    <3>2. QED BY <1>1, <1>6, <2>1, <3>1
  <2>3. CASE <<t, k>> = i
    <3>1. ~ok /\ failures' = failures + 1
      BY <1>3, <1>6, <2>1, <2>3
    <3>2. CASE k = 0
      BY <1>1, <3>1, <3>2
    <3>3. CASE k # 0
      <4>1. k > 0 /\ At(store, t, k) # "none"
        BY <1>2, <2>1, <2>3, <3>3 DEF Issued, At
      <4>2. outcome[<<t, k - 1>>] = "failed" /\ k - 1 \in Attempts
        BY <1>1, <2>1, <4>1, FailuresAssumption DEF Counted, Attempts
      <4>3. k - 1 < failures
        BY <1>1, <4>2 DEF Counted
      <4>4. QED BY <1>1, <2>1, <3>1, <4>3
    <3>4. QED BY <3>2, <3>3
  <2>4. QED BY <2>2, <2>3
<1>8. \A k \in Attempts : <<"cancel_room", k>> \in Ids /\ <<"cancel_room", k>>[1] = "cancel_room"
  BY IdFacts DEF Types
<1>9. fenced' = (fenced \/ (ok /\ i[1] = "cancel_room"))
  BY DEF Execute
<1>10. \A k \in Attempts : outcome'[<<"cancel_room", k>>] = "ok" => fenced'
  BY <1>1, <1>3, <1>8, <1>9 DEF Host
<1>11. /\ room' \in Rooms
       /\ room' # "none" => outcome'[Prepare] = "ok"
       /\ fenced' => room' \notin Open
       /\ room = "closed" => room' = "closed"
  <2>1. room \in Rooms /\ fenced \in BOOLEAN
    BY <1>1 DEF TypeOK
  <2>2. CASE ok /\ i = Prepare
    <3>1. room' = "open" /\ ~fenced /\ room = "none"
      <4>1. room = "none"
        BY <1>1, <1>2, <2>2 DEF Host
      <4>2. ~fenced
        BY <2>2, Zenon DEF Execute
      <4>3. i[1] # "cancel_room"
        BY <2>2 DEF Prepare
      <4>4. room' = "open"
        BY <2>2, <4>3 DEF Execute
      <4>5. QED BY <4>1, <4>2, <4>4
    <3>2. ~fenced'
      BY <1>9, <2>2, <3>1, IdFacts
    <3>3. QED BY <1>3, <2>2, <3>1, <3>2 DEF Rooms, Open
  <2>3. CASE ok /\ i # Prepare /\ i[1] = "cancel_room" /\ room \in Open
    BY <1>1, <1>3, <2>3 DEF Execute, Host, Rooms, Open
  <2>4. CASE ~(ok /\ i = Prepare) /\ ~(ok /\ i[1] = "cancel_room" /\ room \in Open)
    <3>1. room' = room
      BY <2>4 DEF Execute
    <3>2. room # "none" => i # Prepare
      BY <1>1, <1>2 DEF Host
    <3>3. QED BY <1>1, <1>3, <1>9, <2>1, <2>4, <3>1, <3>2 DEF Host
  <2>5. QED BY <2>2, <2>3, <2>4
<1>12. TypeOK'
  <2>1. fenced' \in BOOLEAN
    BY <1>1, <1>9 DEF TypeOK
  <2>2. QED BY <1>1, <1>2, <1>3, <1>6, <1>11, <2>1 DEF TypeOK
<1>13. Executed \subseteq Executed' /\ Executed' \subseteq Executed \cup inbox
  BY <1>2, <1>4
<1>14. fenced => fenced'
  BY <1>9
<1>15. QED BY <1>2, <1>5, <1>6, <1>7, <1>10, <1>11, <1>12, <1>13, <1>14, HostStep

LEMMA PlayStep ==
  ASSUME Inv, Play
  PROVE  Inv'
<1>1. TypeOK /\ Counted(store) /\ Ledger(store) /\ Host
  BY InvUse
<1>2. /\ UNCHANGED <<store, fenced, inbox, outcome, failures, unreported, body, applied, earlier, answer, stray>>
      /\ room \in Open /\ room' \in {"open", "playing", "closed"}
  BY DEF Play, Open
<1>3. ~fenced /\ room # "none" /\ room # "closed"
  BY <1>1, <1>2 DEF Host, Open
<1>4. TypeOK' /\ Executed' = Executed
  BY <1>1, <1>2 DEF TypeOK, Executed, Rooms, Open
<1>5. failures <= failures'
  BY <1>1, <1>2, IdFacts DEF TypeOK
<1>6. QED BY <1>1, <1>2, <1>3, <1>4, <1>5, HostStep DEF Counted, Ledger, Host

LEMMA InvInit == Init => Inv
<1> SUFFICES ASSUME Init PROVE Inv
  OBVIOUS
<1>1. /\ store.phase = "preparing" /\ store.draining = FALSE /\ store.observed = "none"
      /\ store.commands[Prepare] = "pending"
      /\ \A i \in Ids \ {Prepare} : store.commands[i] = "none"
      /\ store \in Stores
  BY IdFacts DEF Init, Stores, States, Phases, Rooms
<1>2. \A t \in Types, k \in Attempts : At(store, t, k) = "none"
  BY <1>1, IdFacts DEF At
<1>3. \A i \in Ids : outcome[i] = "none"
  BY DEF Init
<1>4. Executed = {} /\ (\A t \in Types, k \in Attempts : outcome[<<t, k>>] = "none")
  BY <1>3, IdFacts DEF Executed
<1>5. /\ room = "none" /\ fenced = FALSE /\ inbox = {} /\ unreported = {} /\ body = NoBody
      /\ applied = FALSE /\ earlier = NoBody /\ answer = NoAnswer /\ stray = {} /\ failures = 0
  BY DEF Init
<1>6. /\ NoBody \in Requests /\ NoBody.results = {} /\ NoBody.report = "none"
      /\ NoAnswer \in [commands : SUBSET Ids, sent : BOOLEAN] /\ NoAnswer.commands = {}
  BY DEF NoBody, NoAnswer, Requests, Rooms
<1>7. TypeOK
  <2>1. outcome \in [Ids -> {"none", "ok", "failed"}]
    BY DEF Init
  <2>2. QED BY <1>1, <1>5, <1>6, <2>1, IdFacts DEF TypeOK, Rooms
<1>8. "cancel_room" \in Types /\ "drain" \in Types
  BY DEF Types
<1>9. Books(store)
  BY <1>1, <1>2, <1>8 DEF Books
<1>10. Counted(store)
  BY <1>2, <1>4 DEF Counted
<1>11. Ledger(store)
  BY <1>4, <1>5, <1>6 DEF Ledger
<1>12. Closed(store) /\ Host /\ NewestReportCounts
  BY <1>1, <1>4, <1>5, <1>6, <1>8 DEF Closed, Host, NewestReportCounts
<1>13. QED BY <1>1, <1>7, <1>9, <1>10, <1>11, <1>12 DEF Inv, Good

LEMMA InvStep ==
  ASSUME Inv, [Next]_vars
  PROVE  Inv'
<1>1. CASE UNCHANGED vars
  <2>1. /\ UNCHANGED <<store, room, fenced, outcome, failures, inbox, stray, unreported, body,
                       earlier, applied, answer>>
        /\ TypeOK /\ Ledger(store) /\ Host /\ NewestReportCounts
    BY <1>1, InvUse DEF vars, agent
  <2>2. QED BY <2>1, AgentStep DEF TypeOK, Ledger, Host, NewestReportCounts
<1>2. CASE \E b \in {"body", "earlier"} : Deliver(b)
  BY <1>2, DeliverStep
<1>3. CASE Assign \/ GiveUp \/ BeginDrain \/ \E i \in Ids : Due(i)
  BY <1>3, ControllerStep
<1>4. CASE Send \/ Receive \/ ReceiveStray
  BY <1>4, ExchangeStep
<1>5. CASE Play \/ \E i \in Ids : \E ok \in BOOLEAN : Execute(i, ok)
  BY <1>5, PlayStep, ExecuteStep
<1>6. QED BY <1>1, <1>2, <1>3, <1>4, <1>5 DEF Next

LEMMA Invariance == Spec => []Inv
BY InvInit, InvStep, PTL DEF Spec

\* A room the controller has closed the books on is not open on its host and
\* never opens there again, whichever of its commands are lost, repeated or late.
THEOREM ClosedRoomsStayShut == Spec => []NoGhostRoom
<1>1. Inv => NoGhostRoom
  BY InvUse DEF Closed, Host, NoGhostRoom, Ended, Open
<1>2. QED BY <1>1, Invariance, PTL

\* A room that is being cancelled has one cleanup outstanding, however often it
\* failed and whatever result is reported again.
THEOREM CleanupsAreSingle == Spec => []OneCleanup
<1>1. Inv => OneCleanup
  <2> SUFFICES ASSUME Inv PROVE OneCleanup
    OBVIOUS
  <2> DEFINE S == Live(store, "cancel_room")
  <2>1. /\ Books(store) /\ Attempts \subseteq Nat /\ "cancel_room" \in Types
    BY InvUse, IdFacts DEF Types
  <2>2. \A i : i \in S <=> \E k \in Attempts : i = <<"cancel_room", k>>
                                               /\ At(store, "cancel_room", k) \in {"pending", "waiting"}
    <3>1. ASSUME NEW i \in S
          PROVE  \E k \in Attempts : i = <<"cancel_room", k>>
                                     /\ At(store, "cancel_room", k) \in {"pending", "waiting"}
      <4>1. i \in Ids /\ i[1] = "cancel_room" /\ store.commands[i] \in {"pending", "waiting"}
        BY DEF Live
      <4>2. PICK t \in Types, k \in Attempts : i = <<t, k>>
        BY <4>1, IdFacts
      <4>3. t = "cancel_room"
        BY <4>1, <4>2, IdFacts
      <4>4. QED BY <4>1, <4>2, <4>3 DEF At
    <3>2. ASSUME NEW k \in Attempts, At(store, "cancel_room", k) \in {"pending", "waiting"}
          PROVE  <<"cancel_room", k>> \in S
      BY <2>1, <3>2, IdFacts DEF Live, At
    <3>3. QED BY <3>1, <3>2
  <2>3. CASE store.phase = "cancelling"
    <3>1. PICK k \in Attempts : At(store, "cancel_room", k) \in {"pending", "waiting"}
      BY <2>1, <2>3 DEF Books
    <3>2. \A m \in Attempts : At(store, "cancel_room", m) \in {"pending", "waiting"} => m = k
      <4> SUFFICES ASSUME NEW m \in Attempts, At(store, "cancel_room", m) \in {"pending", "waiting"},
                          m # k
                   PROVE  FALSE
        OBVIOUS
      <4>1. m < k \/ k < m
        BY <2>1
      <4>2. QED BY <2>1, <3>1, <4>1 DEF Books
    <3>3. S = {<<"cancel_room", k>>}
      BY <2>2, <3>1, <3>2
    <3>4. QED BY <2>3, <3>3, FS_Singleton DEF OneCleanup
  <2>4. CASE store.phase # "cancelling"
    <3>1. S = {}
      BY <2>1, <2>2, <2>4 DEF Books
    <3>2. QED BY <2>4, <3>1, FS_EmptySet DEF OneCleanup
  <2>5. QED BY <2>3, <2>4
<1>2. QED BY <1>1, Invariance, PTL

\* The newest report the agent sent is the one that counts.
THEOREM ReportsDoNotGoBack == Spec => []NewestReportCounts
<1>1. Inv => NewestReportCounts
  BY DEF Inv
<1>2. QED BY <1>1, Invariance, PTL

=============================================================================
