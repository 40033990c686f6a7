-------------------------- MODULE PersistenceProofs --------------------------
(***************************************************************************)
(* Persistence implements AtomicStore: any number of replicas, connections *)
(* and repeated requests, stopped anywhere, do what one store does that    *)
(* takes one operation at a time.                                          *)
(***************************************************************************)
EXTENDS Persistence, TLAPS

-----------------------------------------------------------------------------
(* The inductive invariant. *)

Complete(r) == [op |-> "complete", of |-> r]
Stamped(c) == tx[c].phase \in {"stamped", "written"}

\* From the read to the commit a transaction holds the lock, and works on the row.
Fenced ==
    \A c \in Conns :
        /\ tx[c].phase \in {"locked", "stamped", "written"} => lock = c
        /\ tx[c].phase \in {"locked", "stamped"} => tx[c].state = row
        /\ tx[c].phase = "written" => /\ Accepts(row, tx[c].work, tx[c].now)
                                      /\ tx[c].state = Effect(row, tx[c].work, tx[c].now)

\* There is no transaction before there is a row.
Exists ==
    /\ ~created => row = New /\ up = {}
    /\ \A c \in Conns : tx[c].phase # "free" => created

\* No lease goes further than one granted now, or at the time of a transaction.
Leases ==
    /\ \A a \in Attempts : row.expires[a] <= clock + LeaseTTL
    /\ \A c \in Conns : Stamped(c) =>
          tx[c].now <= clock /\ \A a \in Attempts : row.expires[a] <= tx[c].now + LeaseTTL

\* Whoever waits for a connection waits for his own completion.
Waiting == \A r \in Results : call[r] \in Conns =>
              tx[call[r]].phase # "free" /\ tx[call[r]].work = Complete(r)

\* What was stored is there.
Accepted(r) == \/ call[r] = "ok"
               \/ \E c \in Conns : tx[c].phase = "committed" /\ tx[c].work = Complete(r)
Confirmed == \A r \in Results : Accepted(r) => row.outcome[AttemptOf[r]] = r

\* What was refused is not there, and no transaction that is under way or still to
\* come is going to store it.
Rejected(r) == \/ call[r] = "refused"
               \/ \E c \in Conns : tx[c].phase = "refused" /\ tx[c].work = Complete(r)
Hopeless(r) == /\ row.outcome[AttemptOf[r]] # r
               /\ ~Current(row, AttemptOf[r], clock)
               /\ \A c \in Conns : Stamped(c) => ~Current(row, AttemptOf[r], tx[c].now)
Refusals == \A r \in Results : Rejected(r) => Hopeless(r)

Inv == TypeOK /\ Fenced /\ Exists /\ Leases /\ Waiting /\ Confirmed /\ Refusals

-----------------------------------------------------------------------------
(* What an operation does to the state. *)

LEMMA WorkForms ==
    ASSUME NEW w \in Work
    PROVE  \/ w.op = "complete" /\ w.of \in Results /\ w = Complete(w.of)
           \/ w.op = "heartbeat" /\ w.of \in Attempts
           \/ w.op = "tick"
BY DEF Work, Complete

LEMMA StateTypes ==
    ASSUME NEW s \in State
    PROVE  /\ s.outcome \in [Attempts -> Results \cup {Open, Ended}]
           /\ s.expires \in [Attempts -> Nat]
           /\ \A a \in Attempts : s.expires[a] <= MaxClock + LeaseTTL
BY PersistenceAssumption DEF State, Times

\* Time only takes leases away.
LEMMA CurrentFades ==
    ASSUME NEW s \in State, NEW a \in Attempts, NEW t \in Nat, NEW u \in Nat, t <= u,
           Current(s, a, u)
    PROVE  Current(s, a, t)
BY PersistenceAssumption, StateTypes DEF Current

LEMMA CompleteEffect ==
    ASSUME NEW s \in State, NEW r \in Results, NEW now
    PROVE  LET t == Effect(s, Complete(r), now)
           IN  /\ t \in State /\ t.expires = s.expires
               /\ t.outcome[AttemptOf[r]] = r
               /\ \A a \in Attempts \ {AttemptOf[r]} : t.outcome[a] = s.outcome[a]
BY PersistenceAssumption DEF Effect, Complete, State

LEMMA HeartbeatEffect ==
    ASSUME NEW s \in State, NEW w \in Work, w.op = "heartbeat", NEW now \in 0 .. MaxClock
    PROVE  LET t == Effect(s, w, now)
           IN  /\ t \in State /\ t.outcome = s.outcome
               /\ t.expires[w.of] = now + LeaseTTL
               /\ \A a \in Attempts \ {w.of} : t.expires[a] = s.expires[a]
<1>1. now + LeaseTTL \in Times BY PersistenceAssumption DEF Times
<1> QED BY <1>1, WorkForms DEF Effect, State

LEMMA TickEffect ==
    ASSUME NEW s \in State, NEW w \in Work, w.op = "tick", NEW now \in 0 .. MaxClock
    PROVE  LET t == Effect(s, w, now)
           IN  /\ t \in State /\ t.expires = s.expires
               /\ \A a \in Attempts : t.outcome[a] =
                     IF s.outcome[a] = Open /\ ~Current(s, a, now) THEN Ended ELSE s.outcome[a]
BY DEF Effect, State

\* An attempt that has ended stays as it is.
LEMMA EndedStays ==
    ASSUME NEW s \in State, NEW w \in Work, NEW now \in 0 .. MaxClock, Accepts(s, w, now),
           NEW a \in Attempts, s.outcome[a] # Open
    PROVE  Effect(s, w, now).outcome[a] = s.outcome[a]
<1>1. CASE w.op = "complete"
  <2>1. PICK r \in Results : w = Complete(r) BY <1>1, WorkForms
  <2>2. AttemptOf[r] = a => s.outcome[a] = r BY <2>1 DEF Accepts, Current, Complete
  <2> QED BY <2>1, <2>2, CompleteEffect
<1>2. CASE w.op = "heartbeat" BY <1>2, HeartbeatEffect
<1>3. CASE w.op = "tick" BY <1>3, TickEffect
<1> QED BY <1>1, <1>2, <1>3, WorkForms

\* A lease that has passed when an operation is carried out is not brought back.
LEMMA PassedStays ==
    ASSUME NEW s \in State, NEW w \in Work, NEW now \in 0 .. MaxClock, Accepts(s, w, now),
           NEW a \in Attempts, ~Current(s, a, now), NEW u \in Nat, ~Current(s, a, u),
           NEW r \in Results, AttemptOf[r] = a, s.outcome[a] # r
    PROVE  LET t == Effect(s, w, now) IN ~Current(t, a, u) /\ t.outcome[a] # r
<1>1. CASE s.outcome[a] # Open BY <1>1, EndedStays DEF Current
<1>2. CASE s.outcome[a] = Open
  <2>1. CASE w.op = "complete"
    <3>1. AttemptOf[w.of] # a
      BY <1>2, <2>1, WorkForms, PersistenceAssumption DEF Accepts, Open
    <3> QED BY <1>2, <2>1, <3>1, WorkForms, CompleteEffect, PersistenceAssumption DEF Current, Open
  <2>2. CASE w.op = "heartbeat"
    <3>1. w.of # a BY <2>2 DEF Accepts
    <3> QED BY <1>2, <2>2, <3>1, HeartbeatEffect, PersistenceAssumption DEF Current, Open
  <2>3. CASE w.op = "tick"
    <3>1. Effect(s, w, now).outcome[a] = Ended BY <1>2, <2>3, TickEffect
    <3> QED BY <3>1, PersistenceAssumption DEF Current, Open, Ended
  <2> QED BY <2>1, <2>2, <2>3, WorkForms
<1> QED BY <1>1, <1>2

\* No lease ends later than one that is granted now, and none is cut short.
LEMMA LeaseEffect ==
    ASSUME NEW s \in State, NEW w \in Work, NEW now \in 0 .. MaxClock,
           NEW a \in Attempts, s.expires[a] <= now + LeaseTTL
    PROVE  /\ Effect(s, w, now) \in State
           /\ Effect(s, w, now).expires[a] >= s.expires[a]
           /\ Effect(s, w, now).expires[a] <= now + LeaseTTL
<1>1. now \in Nat /\ now + LeaseTTL \in Nat BY PersistenceAssumption
<1>2. s.expires[a] \in Nat BY StateTypes
<1>3. CASE w.op = "complete"
  <2>1. PICK r \in Results : w = Complete(r) BY <1>3, WorkForms
  <2> QED BY <1>1, <1>2, <2>1, CompleteEffect
<1>4. CASE w.op = "heartbeat"
  <2>1. CASE w.of = a BY <1>1, <1>2, <1>4, <2>1, HeartbeatEffect
  <2>2. CASE w.of # a BY <1>1, <1>2, <1>4, <2>2, HeartbeatEffect
  <2> QED BY <2>1, <2>2
<1>5. CASE w.op = "tick" BY <1>1, <1>2, <1>5, TickEffect
<1> QED BY <1>3, <1>4, <1>5, WorkForms

-----------------------------------------------------------------------------
(* The invariant holds. *)

LEMMA TxTypes ==
    ASSUME TypeOK, NEW c \in Conns
    PROVE  /\ tx[c] \in Transactions /\ tx[c].phase \in Phases /\ tx[c].work \in Work
           /\ tx[c].state \in State /\ tx[c].now \in 0 .. MaxClock
BY DEF TypeOK, Transactions

LEMMA FreeType == Free \in Transactions /\ Free.phase = "free" /\ New \in State
<1>1. New \in State BY PersistenceAssumption DEF New, State, Times
<1>2. Tick \in Work BY DEF Work, Tick
<1> QED BY <1>1, <1>2, PersistenceAssumption DEF Free, Transactions, Phases

\* The transaction of one connection is replaced by t.
LEMMA OneTx ==
    ASSUME TypeOK, NEW c \in Conns, NEW t \in Transactions, SetTx(c, t)
    PROVE  /\ tx' \in [Conns -> Transactions]
           /\ tx'[c] = t
           /\ \A d \in Conns \ {c} : tx'[d] = tx[d]
BY DEF TypeOK, SetTx

LEMMA InitInv == Init => Inv
<1> SUFFICES ASSUME Init PROVE Inv OBVIOUS
<1>1. TypeOK
  <2>1. tx \in [Conns -> Transactions] BY FreeType DEF Init
  <2>2. row \in State /\ created \in BOOLEAN BY FreeType DEF Init
  <2>3. clock \in 0 .. MaxClock /\ crashes \in 0 .. MaxCrashes /\ tries \in [Results -> 0 .. MaxTries]
    BY PersistenceAssumption DEF Init
  <2> QED BY <2>1, <2>2, <2>3 DEF Init, TypeOK
<1>2. \A c \in Conns : tx[c].phase = "free" BY FreeType DEF Init
<1>3. \A r \in Results : call[r] = "new" BY DEF Init
<1>4. Fenced BY <1>2 DEF Fenced
<1>5. Exists BY <1>2 DEF Exists, Init
<1>6. Leases BY <1>2, PersistenceAssumption DEF Leases, Stamped, Init, New
<1>7. Waiting BY <1>3, PersistenceAssumption DEF Waiting
<1>8. Confirmed /\ Refusals BY <1>2, <1>3 DEF Confirmed, Accepted, Refusals, Rejected
<1> QED BY <1>1, <1>4, <1>5, <1>6, <1>7, <1>8 DEF Inv

LEMMA StartInv ==
    ASSUME Inv, NEW h \in Replicas, Start(h)
    PROVE  Inv' /\ row' = row
<1>1. row' = row BY DEF Inv, Exists, Start, Migrated
<1>2. TypeOK' BY <1>1 DEF Inv, TypeOK, Start
<1>3. Fenced' BY <1>1 DEF Inv, Fenced, Start
<1>4. Exists' BY DEF Inv, Exists, Start
<1>5. Leases' BY <1>1 DEF Inv, Leases, Stamped, Start
<1>6. Waiting' BY DEF Inv, Waiting, Start
<1>7. Confirmed' BY <1>1 DEF Inv, Confirmed, Accepted, Start
<1>8. Refusals' BY <1>1 DEF Inv, Refusals, Rejected, Hopeless, Stamped, Start
<1> QED BY <1>1, <1>2, <1>3, <1>4, <1>5, <1>6, <1>7, <1>8 DEF Inv

\* A transaction that is not past SELECT ... FOR UPDATE, or no longer, changes
\* nothing but what is said of its own completion.
LEMMA QuietTx ==
    ASSUME Inv, NEW c \in Conns, NEW t \in Transactions, SetTx(c, t),
           t.phase \in {"free", "waiting"}, t.phase # "free" => created,
           \/ tx[c].phase = "free" /\ UNCHANGED lock
           \/ Unlock(c)
           \/ tx[c].phase \in {"committed", "refused"} /\ UNCHANGED lock,
           UNCHANGED <<row, created, clock, up>>
    PROVE  /\ Fenced' /\ Exists' /\ Leases'
           /\ \A r \in Results : Hopeless(r) => Hopeless(r)'
<1>1. tx'[c] = t /\ \A d \in Conns \ {c} : tx'[d] = tx[d] BY OneTx DEF Inv
<1>2. lock' = lock \/ (lock = c /\ lock' = "none") BY DEF Unlock
<1>3. Fenced' BY <1>1, <1>2 DEF Inv, Fenced
<1>4. Exists' BY <1>1 DEF Inv, Exists
<1>5. Leases' BY <1>1 DEF Inv, Leases, Stamped
<1>6. \A r \in Results : Hopeless(r) => Hopeless(r)' BY <1>1 DEF Hopeless, Stamped
<1> QED BY <1>3, <1>4, <1>5, <1>6

LEMMA BeginInv ==
    ASSUME Inv, NEW c \in Conns, NEW w \in Work, Begin(c, w),
           \/ UNCHANGED <<call, tries>>
           \/ \E r \in Results : /\ MayTry(r) /\ w = Complete(r)
                                 /\ call' = [call EXCEPT ![r] = c]
                                 /\ tries' = [tries EXCEPT ![r] = @ + 1]
    PROVE  Inv'
<1> DEFINE t == [Free EXCEPT !.phase = "waiting", !.work = w]
<1>1. /\ SetTx(c, t) /\ tx[c].phase = "free" /\ HostOf[c] \in up
      /\ UNCHANGED <<row, created, lock, clock, up, crashes>>
  BY DEF Begin
<1>2. t \in Transactions /\ t.phase = "waiting" /\ t.work = w
  BY FreeType DEF Free, Transactions, Phases
<1> HIDE DEF t
<1>3. tx' \in [Conns -> Transactions] /\ tx'[c] = t /\ \A d \in Conns \ {c} : tx'[d] = tx[d]
  BY <1>1, <1>2, OneTx DEF Inv
<1>4. created BY <1>1 DEF Inv, Exists
<1>5. Fenced' /\ Exists' /\ Leases' /\ \A r \in Results : Hopeless(r) => Hopeless(r)'
  BY <1>1, <1>2, <1>4, QuietTx
<1>6. /\ \A r \in Results : call'[r] = call[r] \/ (call'[r] = c /\ w = Complete(r))
      /\ call' \in [Results -> Conns \cup {"new", "failed", "ok", "refused"}]
      /\ tries' \in [Results -> 0 .. MaxTries]
  BY PersistenceAssumption DEF Inv, TypeOK, MayTry
<1>7. TypeOK' BY <1>1, <1>3, <1>6 DEF Inv, TypeOK
<1>8. Waiting' BY <1>1, <1>2, <1>3, <1>6 DEF Inv, Waiting
<1>9. \A r \in Results : (Accepted(r)' => Accepted(r)) /\ (Rejected(r)' => Rejected(r))
  BY <1>2, <1>3, <1>6, PersistenceAssumption DEF Accepted, Rejected
<1>10. Confirmed' BY <1>1, <1>9 DEF Inv, Confirmed
<1>11. Refusals' BY <1>5, <1>9 DEF Inv, Refusals
<1> QED BY <1>5, <1>7, <1>8, <1>10, <1>11 DEF Inv

\* The clients' side alone: an answer that did not come.
LEMMA CallFails ==
    ASSUME Inv, UNCHANGED <<row, created, lock, clock, up, tx, crashes>>,
           call' \in [Results -> Conns \cup {"new", "failed", "ok", "refused"}],
           \A r \in Results : call'[r] \in {call[r], "failed"},
           tries' \in [Results -> 0 .. MaxTries]
    PROVE  Inv'
<1>1. TypeOK' /\ Fenced' /\ Exists' /\ Leases'
  BY DEF Inv, TypeOK, Fenced, Exists, Leases, Stamped
<1>2. Waiting' BY PersistenceAssumption DEF Inv, Waiting
<1>3. \A r \in Results : /\ Accepted(r)' => Accepted(r)
                         /\ Rejected(r)' => Rejected(r)
                         /\ Hopeless(r) => Hopeless(r)'
  BY DEF Accepted, Rejected, Hopeless, Stamped
<1>4. Confirmed' /\ Refusals' BY <1>3 DEF Inv, Confirmed, Refusals
<1> QED BY <1>1, <1>2, <1>4 DEF Inv

LEMMA SendFailsInv ==
    ASSUME Inv, NEW r \in Results, SendFails(r)
    PROVE  Inv'
<1>1. tries' \in [Results -> 0 .. MaxTries]
  BY PersistenceAssumption DEF Inv, TypeOK, SendFails, MayTry
<1>2. /\ call' \in [Results -> Conns \cup {"new", "failed", "ok", "refused"}]
      /\ \A q \in Results : call'[q] \in {call[q], "failed"}
  BY DEF Inv, TypeOK, SendFails
<1> QED BY <1>1, <1>2, CallFails DEF SendFails

LEMMA ClientTimeoutInv ==
    ASSUME Inv, NEW r \in Results, ClientTimeout(r)
    PROVE  Inv'
<1>1. /\ call' \in [Results -> Conns \cup {"new", "failed", "ok", "refused"}]
      /\ \A q \in Results : call'[q] \in {call[q], "failed"}
      /\ tries' \in [Results -> 0 .. MaxTries]
  BY DEF Inv, TypeOK, ClientTimeout
<1> QED BY <1>1, CallFails DEF ClientTimeout

\* The transaction that gets the lock reads the row.
LEMMA SelectInv ==
    ASSUME Inv, NEW c \in Conns, SelectForUpdate(c)
    PROVE  Inv'
<1> DEFINE t == [tx[c] EXCEPT !.phase = "locked", !.state = row]
<1>1. /\ SetTx(c, t) /\ tx[c].phase = "waiting" /\ lock = "none" /\ lock' = c
      /\ UNCHANGED <<row, created, clock, up, call, tries, crashes>>
  BY DEF SelectForUpdate, RowIsFree
<1>2. t \in Transactions /\ t.phase = "locked" /\ t.state = row /\ t.work = tx[c].work
  BY TxTypes DEF Inv, TypeOK, Transactions, Phases
<1> HIDE DEF t
<1>3. tx' \in [Conns -> Transactions] /\ tx'[c] = t /\ \A d \in Conns \ {c} : tx'[d] = tx[d]
  BY <1>1, <1>2, OneTx DEF Inv
<1>4. TypeOK' BY <1>1, <1>3 DEF Inv, TypeOK
<1>5. Fenced' BY <1>1, <1>2, <1>3, PersistenceAssumption DEF Inv, Fenced
<1>6. Exists' BY <1>1, <1>3 DEF Inv, Exists
<1>7. Leases' BY <1>1, <1>2, <1>3 DEF Inv, Leases, Stamped
<1>8. Waiting' BY <1>1, <1>2, <1>3 DEF Inv, Waiting
<1>9. \A r \in Results : /\ Accepted(r)' => Accepted(r)
                         /\ Rejected(r)' => Rejected(r)
                         /\ Hopeless(r) => Hopeless(r)'
  BY <1>1, <1>2, <1>3 DEF Accepted, Rejected, Hopeless, Stamped
<1>10. Confirmed' /\ Refusals' BY <1>1, <1>9 DEF Inv, Confirmed, Refusals
<1> QED BY <1>4, <1>5, <1>6, <1>7, <1>8, <1>10 DEF Inv

\* The time it reads is not before that of any refusal: they all held the lock.
LEMMA ReadClockInv ==
    ASSUME Inv, NEW c \in Conns, ReadClock(c)
    PROVE  Inv'
<1> DEFINE t == [tx[c] EXCEPT !.phase = "stamped", !.now = clock]
<1>1. /\ SetTx(c, t) /\ tx[c].phase = "locked"
      /\ UNCHANGED <<row, created, lock, clock, up, call, tries, crashes>>
  BY DEF ReadClock
<1>2. /\ t \in Transactions /\ t.phase = "stamped" /\ t.state = tx[c].state
      /\ t.work = tx[c].work /\ t.now = clock
  BY TxTypes DEF Inv, TypeOK, Transactions, Phases
<1> HIDE DEF t
<1>3. tx' \in [Conns -> Transactions] /\ tx'[c] = t /\ \A d \in Conns \ {c} : tx'[d] = tx[d]
  BY <1>1, <1>2, OneTx DEF Inv
<1>4. TypeOK' BY <1>1, <1>3 DEF Inv, TypeOK
<1>5. Fenced' BY <1>1, <1>2, <1>3 DEF Inv, Fenced
<1>6. Exists' BY <1>1, <1>3 DEF Inv, Exists
<1>7. Leases' BY <1>1, <1>2, <1>3, PersistenceAssumption DEF Inv, TypeOK, Leases, Stamped
<1>8. Waiting' BY <1>1, <1>2, <1>3 DEF Inv, Waiting
<1>9. \A r \in Results : /\ Accepted(r)' => Accepted(r)
                         /\ Rejected(r)' => Rejected(r)
                         /\ Hopeless(r) => Hopeless(r)'
  BY <1>1, <1>2, <1>3 DEF Accepted, Rejected, Hopeless, Stamped
<1>10. Confirmed' /\ Refusals' BY <1>1, <1>9 DEF Inv, Confirmed, Refusals
<1> QED BY <1>4, <1>5, <1>6, <1>7, <1>8, <1>10 DEF Inv

LEMMA UpdateInv ==
    ASSUME Inv, NEW c \in Conns, Update(c)
    PROVE  Inv'
<1> DEFINE t == [tx[c] EXCEPT !.phase = "written",
                              !.state = Effect(tx[c].state, tx[c].work, tx[c].now)]
<1>1. /\ SetTx(c, t) /\ tx[c].phase = "stamped" /\ Accepts(tx[c].state, tx[c].work, tx[c].now)
      /\ UNCHANGED <<row, created, lock, clock, up, call, tries, crashes>>
  BY DEF Update
<1>2. row = tx[c].state /\ lock = c BY <1>1 DEF Inv, Fenced
<1>3. Effect(row, tx[c].work, tx[c].now) \in State
  BY <1>2, TxTypes, WorkForms, CompleteEffect, HeartbeatEffect, TickEffect DEF Inv
<1>4. /\ t \in Transactions /\ t.phase = "written"
      /\ t.state = Effect(row, tx[c].work, tx[c].now)
      /\ t.work = tx[c].work /\ t.now = tx[c].now
  BY <1>2, <1>3, TxTypes DEF Inv, Transactions, Phases
<1> HIDE DEF t
<1>5. tx' \in [Conns -> Transactions] /\ tx'[c] = t /\ \A d \in Conns \ {c} : tx'[d] = tx[d]
  BY <1>1, <1>4, OneTx DEF Inv
<1>6. TypeOK' BY <1>1, <1>5 DEF Inv, TypeOK
<1>7. Fenced' BY <1>1, <1>2, <1>4, <1>5 DEF Inv, Fenced
<1>8. Exists' BY <1>1, <1>5 DEF Inv, Exists
<1>9. Leases' BY <1>1, <1>4, <1>5 DEF Inv, Leases, Stamped
<1>10. Waiting' BY <1>1, <1>4, <1>5 DEF Inv, Waiting
<1>11. \A r \in Results : /\ Accepted(r)' => Accepted(r)
                          /\ Rejected(r)' => Rejected(r)
                          /\ Hopeless(r) => Hopeless(r)'
  BY <1>1, <1>4, <1>5 DEF Accepted, Rejected, Hopeless, Stamped
<1>12. Confirmed' /\ Refusals' BY <1>1, <1>11 DEF Inv, Confirmed, Refusals
<1> QED BY <1>6, <1>7, <1>8, <1>9, <1>10, <1>12 DEF Inv

\* Only one transaction is past SELECT ... FOR UPDATE.
LEMMA OneHolder ==
    ASSUME Fenced, NEW c \in Conns, lock = c
    PROVE  \A d \in Conns \ {c} : tx[d].phase \notin {"locked", "stamped", "written"}
BY DEF Fenced

\* A refusal is decided under the lock, at a time that has come.
LEMMA RollbackInv ==
    ASSUME Inv, NEW c \in Conns, Rollback(c)
    PROVE  Inv'
<1> DEFINE t == [Free EXCEPT !.phase = "refused", !.work = tx[c].work]
<1>1. /\ SetTx(c, t) /\ tx[c].phase = "stamped" /\ ~Accepts(tx[c].state, tx[c].work, tx[c].now)
      /\ Unlock(c) /\ UNCHANGED <<row, created, clock, up, call, tries, crashes>>
  BY DEF Rollback
<1>2. row = tx[c].state /\ lock = c BY <1>1 DEF Inv, Fenced
<1>3. lock' = "none" BY <1>1, <1>2 DEF Unlock
<1>4. t \in Transactions /\ t.phase = "refused" /\ t.work = tx[c].work
  BY TxTypes, FreeType DEF Inv, Free, Transactions, Phases
<1> HIDE DEF t
<1>5. tx' \in [Conns -> Transactions] /\ tx'[c] = t /\ \A d \in Conns \ {c} : tx'[d] = tx[d]
  BY <1>1, <1>4, OneTx DEF Inv
<1>6. \A d \in Conns : tx'[d].phase \notin {"locked", "stamped", "written"}
  BY <1>2, <1>4, <1>5, OneHolder DEF Inv
<1>7. TypeOK' BY <1>1, <1>3, <1>5 DEF Inv, TypeOK
<1>8. Fenced' BY <1>6 DEF Fenced
<1>9. Exists' BY <1>1, <1>5 DEF Inv, Exists
<1>10. Leases' BY <1>1, <1>6 DEF Inv, Leases, Stamped
<1>11. Waiting' BY <1>1, <1>4, <1>5 DEF Inv, Waiting
<1>12. Confirmed' BY <1>1, <1>4, <1>5 DEF Inv, Confirmed, Accepted
<1>13. Refusals'
  <2> SUFFICES ASSUME NEW r \in Results, Rejected(r)' PROVE Hopeless(r)'
    BY DEF Refusals
  <2>1. CASE Rejected(r) BY <1>1, <1>6, <2>1 DEF Inv, Refusals, Hopeless, Stamped
  <2>2. CASE ~Rejected(r)
    <3>1. tx[c].work = Complete(r) BY <1>1, <1>4, <1>5, <2>2 DEF Rejected
    <3>2. row.outcome[AttemptOf[r]] # r /\ ~Current(row, AttemptOf[r], tx[c].now)
      BY <1>1, <1>2, <3>1 DEF Accepts, Complete
    <3>3. /\ tx[c].now \in Nat /\ clock \in Nat /\ tx[c].now <= clock
          /\ row \in State /\ AttemptOf[r] \in Attempts
      BY <1>1, TxTypes, PersistenceAssumption DEF Inv, TypeOK, Leases, Stamped
    <3>4. ~Current(row, AttemptOf[r], clock) BY <3>2, <3>3, CurrentFades
    <3> QED BY <1>1, <1>6, <3>2, <3>4 DEF Hopeless, Stamped
  <2> QED BY <2>1, <2>2
<1> QED BY <1>7, <1>8, <1>9, <1>10, <1>11, <1>12, <1>13 DEF Inv

\* What a commit may do: it carries an accepted operation out, at a time that has come.
LEMMA CommitFacts ==
    ASSUME Inv, NEW c \in Conns, Commit(c)
    PROVE  /\ row' = Effect(row, tx[c].work, tx[c].now)
           /\ Accepts(row, tx[c].work, tx[c].now)
           /\ row \in State /\ row' \in State /\ lock = c
           /\ tx[c].work \in Work /\ tx[c].now \in 0 .. MaxClock /\ tx[c].now <= clock
           /\ Stamped(c) /\ clock \in 0 .. MaxClock
           /\ \A a \in Attempts : /\ row.expires[a] <= tx[c].now + LeaseTTL
                                  /\ row'.expires[a] >= row.expires[a]
                                  /\ row'.expires[a] <= tx[c].now + LeaseTTL
<1>1. tx[c].phase = "written" /\ row' = tx[c].state BY DEF Commit
<1>2. /\ row' = Effect(row, tx[c].work, tx[c].now) /\ lock = c
      /\ Accepts(row, tx[c].work, tx[c].now)
  BY <1>1 DEF Inv, Fenced
<1>3. /\ row \in State /\ row' \in State /\ tx[c].work \in Work /\ tx[c].now \in 0 .. MaxClock
      /\ clock \in 0 .. MaxClock
  BY <1>1, TxTypes DEF Inv, TypeOK
<1>4. /\ Stamped(c) /\ tx[c].now <= clock
      /\ \A a \in Attempts : row.expires[a] <= tx[c].now + LeaseTTL
  BY <1>1 DEF Inv, Leases, Stamped
<1>5. \A a \in Attempts : /\ row'.expires[a] >= row.expires[a]
                          /\ row'.expires[a] <= tx[c].now + LeaseTTL
  BY <1>2, <1>3, <1>4, LeaseEffect
<1> QED BY <1>2, <1>3, <1>4, <1>5

LEMMA CommitInv ==
    ASSUME Inv, NEW c \in Conns, Commit(c)
    PROVE  Inv'
<1> DEFINE t == [Free EXCEPT !.phase = "committed", !.work = tx[c].work]
<1>1. /\ SetTx(c, t) /\ Unlock(c) /\ UNCHANGED <<created, clock, up, call, tries, crashes>>
      /\ tx[c].phase = "written"
  BY DEF Commit
<1>2. lock' = "none" BY <1>1, CommitFacts DEF Unlock
<1>3. t \in Transactions /\ t.phase = "committed" /\ t.work = tx[c].work
  BY TxTypes, FreeType DEF Inv, Free, Transactions, Phases
<1> HIDE DEF t
<1>4. tx' \in [Conns -> Transactions] /\ tx'[c] = t /\ \A d \in Conns \ {c} : tx'[d] = tx[d]
  BY <1>1, <1>3, OneTx DEF Inv
<1>5. \A d \in Conns : tx'[d].phase \notin {"locked", "stamped", "written"}
  BY <1>3, <1>4, CommitFacts, OneHolder DEF Inv
<1>6. TypeOK' BY <1>1, <1>2, <1>4, CommitFacts DEF Inv, TypeOK
<1>7. Fenced' BY <1>5 DEF Fenced
<1>8. Exists' BY <1>1, <1>4 DEF Inv, Exists
<1>9. Leases'
  <2>1. \A a \in Attempts : row'.expires[a] <= clock + LeaseTTL
    <3> TAKE a \in Attempts
    <3>1. /\ row'.expires[a] \in Nat /\ row'.expires[a] <= tx[c].now + LeaseTTL
          /\ tx[c].now \in Nat /\ tx[c].now <= clock /\ clock \in Nat
      BY CommitFacts, StateTypes
    <3> QED BY <3>1, PersistenceAssumption
  <2> QED BY <1>1, <1>5, <2>1 DEF Leases, Stamped
<1>10. Waiting' BY <1>1, <1>3, <1>4 DEF Inv, Waiting
<1>11. Confirmed'
  <2> SUFFICES ASSUME NEW r \in Results, Accepted(r)' PROVE row'.outcome[AttemptOf[r]] = r
    BY DEF Confirmed
  <2>1. CASE Accepted(r)
    <3>1. row.outcome[AttemptOf[r]] = r BY <2>1 DEF Inv, Confirmed
    <3>2. row.outcome[AttemptOf[r]] # Open BY <3>1, PersistenceAssumption
    <3> QED BY <3>1, <3>2, CommitFacts, EndedStays, PersistenceAssumption
  <2>2. CASE ~Accepted(r)
    <3>1. tx[c].work = Complete(r) BY <1>1, <1>3, <1>4, <2>2 DEF Accepted
    <3> QED BY <3>1, CommitFacts, CompleteEffect
  <2> QED BY <2>1, <2>2
<1>12. Refusals'
  <2> SUFFICES ASSUME NEW r \in Results, Rejected(r)' PROVE Hopeless(r)'
    BY DEF Refusals
  <2> DEFINE a == AttemptOf[r]
  <2>1. Rejected(r) BY <1>1, <1>3, <1>4 DEF Rejected
  <2>2. row.outcome[a] # r /\ ~Current(row, a, clock) /\ ~Current(row, a, tx[c].now)
    BY <2>1, CommitFacts DEF Inv, Refusals, Hopeless
  <2>3. a \in Attempts /\ clock \in Nat BY CommitFacts, PersistenceAssumption
  <2>4. ~Current(row', a, clock) /\ row'.outcome[a] # r
    BY <2>2, <2>3, CommitFacts, PassedStays
  <2> QED BY <1>1, <1>5, <2>4 DEF Hopeless, Stamped
<1> QED BY <1>6, <1>7, <1>8, <1>9, <1>10, <1>11, <1>12 DEF Inv

\* At most one caller waits for a connection.
LEMMA ToldOne ==
    ASSUME Inv, NEW c \in Conns, NEW v \in {"ok", "refused", "failed"}, Told(c, v)
    PROVE  /\ call' \in [Results -> Conns \cup {"new", "failed", "ok", "refused"}]
           /\ \A r \in Results : \/ call[r] # c /\ call'[r] = call[r]
                                 \/ call[r] = c /\ call'[r] = v /\ tx[c].work = Complete(r)
BY DEF Inv, TypeOK, Waiting, Told

LEMMA AnswerInv ==
    ASSUME Inv, NEW c \in Conns, Answer(c)
    PROVE  Inv'
<1>1. /\ SetTx(c, Free) /\ tx[c].phase \in {"committed", "refused"}
      /\ UNCHANGED <<row, created, lock, clock, up, tries, crashes>>
  BY DEF Answer
<1>2. PICK v \in {"ok", "refused", "failed"} :
        /\ Told(c, v)
        /\ v = "ok" => tx[c].phase = "committed"
        /\ v = "refused" => tx[c].phase = "refused"
  BY DEF Answer
<1>3. tx' \in [Conns -> Transactions] /\ tx'[c] = Free /\ \A d \in Conns \ {c} : tx'[d] = tx[d]
  BY <1>1, FreeType, OneTx DEF Inv
<1>4. Fenced' /\ Exists' /\ Leases' /\ \A r \in Results : Hopeless(r) => Hopeless(r)'
  BY <1>1, FreeType, QuietTx
<1>5. TypeOK' BY <1>1, <1>2, <1>3, ToldOne DEF Inv, TypeOK
<1>6. Waiting' BY <1>2, <1>3, ToldOne, PersistenceAssumption DEF Inv, Waiting
<1>7. \A r \in Results : (Accepted(r)' => Accepted(r)) /\ (Rejected(r)' => Rejected(r))
  BY <1>2, <1>3, FreeType, ToldOne DEF Accepted, Rejected
<1>8. Confirmed' /\ Refusals' BY <1>1, <1>4, <1>7 DEF Inv, Confirmed, Refusals
<1> QED BY <1>4, <1>5, <1>6, <1>8 DEF Inv

LEMMA AbortInv ==
    ASSUME Inv, NEW c \in Conns, Abort(c)
    PROVE  Inv'
<1>1. /\ SetTx(c, Free) /\ Unlock(c) /\ Told(c, "failed")
      /\ UNCHANGED <<row, created, clock, up, tries, crashes>>
  BY DEF Abort
<1>2. tx' \in [Conns -> Transactions] /\ tx'[c] = Free /\ \A d \in Conns \ {c} : tx'[d] = tx[d]
  BY <1>1, FreeType, OneTx DEF Inv
<1>3. Fenced' /\ Exists' /\ Leases' /\ \A r \in Results : Hopeless(r) => Hopeless(r)'
  BY <1>1, FreeType, QuietTx
<1>4. TypeOK' BY <1>1, <1>2, ToldOne DEF Inv, TypeOK, Unlock
<1>5. Waiting' BY <1>1, <1>2, ToldOne, PersistenceAssumption DEF Inv, Waiting
<1>6. \A r \in Results : (Accepted(r)' => Accepted(r)) /\ (Rejected(r)' => Rejected(r))
  BY <1>1, <1>2, FreeType, ToldOne DEF Accepted, Rejected
<1>7. Confirmed' /\ Refusals' BY <1>1, <1>3, <1>6 DEF Inv, Confirmed, Refusals
<1> QED BY <1>3, <1>4, <1>5, <1>7 DEF Inv

LEMMA CrashInv ==
    ASSUME Inv, NEW h \in Replicas, Crash(h)
    PROVE  Inv'
<1> DEFINE lost == {c \in Conns : HostOf[c] = h}
<1>1. /\ h \in up /\ up' = up \ {h} /\ crashes < MaxCrashes /\ crashes' = crashes + 1
      /\ lock' = IF lock \in lost THEN "none" ELSE lock
      /\ UNCHANGED <<row, created, clock, tries>>
  BY DEF Crash
<1>2. /\ tx' \in [Conns -> Transactions]
      /\ \A c \in Conns : tx'[c] = IF c \in lost THEN Free ELSE tx[c]
  BY FreeType DEF Inv, TypeOK, Crash
<1>3. /\ call' \in [Results -> Conns \cup {"new", "failed", "ok", "refused"}]
      /\ \A r \in Results : call'[r] = IF call[r] \in lost THEN "failed" ELSE call[r]
  BY DEF Inv, TypeOK, Crash
<1>4. TypeOK' BY <1>1, <1>2, <1>3, PersistenceAssumption DEF Inv, TypeOK
<1>5. Fenced' BY <1>1, <1>2, FreeType DEF Inv, Fenced
<1>6. Exists' BY <1>1, <1>2, FreeType DEF Inv, Exists
<1>7. Leases' BY <1>1, <1>2, FreeType DEF Inv, Leases, Stamped
<1>8. Waiting' BY <1>2, <1>3, PersistenceAssumption DEF Inv, Waiting
<1>9. \A r \in Results : /\ Accepted(r)' => Accepted(r)
                         /\ Rejected(r)' => Rejected(r)
                         /\ Hopeless(r) => Hopeless(r)'
  BY <1>1, <1>2, <1>3, FreeType DEF Accepted, Rejected, Hopeless, Stamped
<1>10. Confirmed' /\ Refusals' BY <1>1, <1>9 DEF Inv, Confirmed, Refusals
<1> QED BY <1>4, <1>5, <1>6, <1>7, <1>8, <1>10 DEF Inv

LEMMA AdvanceInv ==
    ASSUME Inv, Advance
    PROVE  Inv'
<1>1. /\ clock \in Nat /\ clock' = clock + 1 /\ clock' \in 0 .. MaxClock
      /\ UNCHANGED <<row, created, lock, up, tx, call, tries, crashes>>
  BY PersistenceAssumption DEF Inv, TypeOK, Advance
<1>2. TypeOK' /\ Fenced' /\ Exists' /\ Waiting'
  BY <1>1 DEF Inv, TypeOK, Fenced, Exists, Waiting
<1>3. Leases'
  <2>1. \A a \in Attempts : row.expires[a] <= clock + 1 + LeaseTTL
    BY <1>1, StateTypes, PersistenceAssumption DEF Inv, TypeOK, Leases
  <2>2. \A c \in Conns : Stamped(c) => tx[c].now <= clock + 1
    BY <1>1, TxTypes DEF Inv, Leases
  <2> QED BY <1>1, <2>1, <2>2 DEF Inv, Leases, Stamped
<1>4. \A r \in Results : Hopeless(r) => Hopeless(r)'
  <2> SUFFICES ASSUME NEW r \in Results, Hopeless(r) PROVE Hopeless(r)'
    OBVIOUS
  <2>1. ~Current(row, AttemptOf[r], clock + 1)
    BY <1>1, CurrentFades, PersistenceAssumption DEF Inv, TypeOK, Hopeless
  <2> QED BY <1>1, <2>1 DEF Hopeless, Stamped
<1>5. Confirmed' /\ Refusals'
  BY <1>1, <1>4 DEF Inv, Confirmed, Accepted, Refusals, Rejected
<1> QED BY <1>2, <1>3, <1>5 DEF Inv

LEMMA StepInv == Inv /\ [Next]_vars => Inv'
<1> SUFFICES ASSUME Inv, [Next]_vars PROVE Inv' OBVIOUS
<1>1. ASSUME NEW h \in Replicas, Start(h) \/ Crash(h) PROVE Inv'
  BY <1>1, StartInv, CrashInv
<1>2. ASSUME NEW c \in Conns, BeginOther(c) PROVE Inv'
  BY <1>2, BeginInv DEF BeginOther
<1>3. ASSUME NEW c \in Conns, NEW r \in Results, Send(c, r) PROVE Inv'
  <2>1. Complete(r) \in Work BY DEF Complete, Work
  <2> QED BY <1>3, <2>1, BeginInv DEF Send, Complete
<1>4. ASSUME NEW c \in Conns, Transact(c) PROVE Inv'
  BY <1>4, SelectInv, ReadClockInv, UpdateInv, RollbackInv, CommitInv, AnswerInv, AbortInv
     DEF Transact
<1>5. ASSUME NEW r \in Results, SendFails(r) \/ ClientTimeout(r) PROVE Inv'
  BY <1>5, SendFailsInv, ClientTimeoutInv
<1>6. CASE Advance BY <1>6, AdvanceInv
<1>7. CASE UNCHANGED vars
  BY <1>7 DEF vars, Inv, TypeOK, Fenced, Exists, Leases, Waiting, Confirmed, Accepted, Refusals,
              Rejected, Hopeless, Stamped
<1> QED BY <1>1, <1>2, <1>3, <1>4, <1>5, <1>6, <1>7 DEF Next

\* Whatever replicas, clients and the clock do, the invariant holds.
THEOREM InvariantHolds == Spec => []Inv
BY InitInv, StepInv, PTL DEF Spec

\* Only the holder of the row's lock works on the row, and on the row as it is.
THEOREM TransactionsAreSerial == Spec => []OneAtATime
<1>1. Inv => OneAtATime BY DEF Inv, Fenced, OneAtATime
<1> QED BY <1>1, InvariantHolds, PTL

-----------------------------------------------------------------------------
(* The row changes in commits alone. *)

LEMMA RowChanges ==
    ASSUME Inv, [Next]_vars
    PROVE  row' = row \/ \E c \in Conns : Commit(c)
<1>1. ASSUME NEW h \in Replicas, Start(h) PROVE row' = row BY <1>1, StartInv
<1> QED BY <1>1 DEF Next, vars, Crash, BeginOther, Send, Begin, Transact, SelectForUpdate,
                    ReadClock, Update, Rollback, Answer, Abort, SendFails, ClientTimeout, Advance

\* No heartbeat that comes late to the row cuts a lease short that another replica
\* has renewed, and no start of a replica resets it.
THEOREM LeasesOnlyGrow == Spec => LeaseOnlyGrows
<1>1. ASSUME Inv, [Next]_vars PROVE \A a \in Attempts : row'.expires[a] >= row.expires[a]
  <2>1. CASE row' = row BY <1>1, <2>1, StateTypes DEF Inv, TypeOK
  <2>2. ASSUME NEW c \in Conns, Commit(c)
        PROVE  \A a \in Attempts : row'.expires[a] >= row.expires[a]
    BY <1>1, <2>2, CommitFacts
  <2> QED BY <1>1, <2>1, <2>2, RowChanges
<1> QED BY <1>1, InvariantHolds, PTL DEF Spec, LeaseOnlyGrows

-----------------------------------------------------------------------------
(* Every step is one of AtomicStore, or a stutter. *)

Answers == [r \in Results |-> IF call[r] \in {"ok", "refused"} THEN call[r] ELSE "none"]

\* The calls that are answered stay as they are.
LEMMA SameAnswers ==
    ASSUME \A r \in Results : \/ call'[r] = call[r]
                              \/ {call[r], call'[r]} \cap {"ok", "refused"} = {}
    PROVE  Answers' = Answers
BY DEF Answers

\* A commit stores a result, ends attempts, or changes no outcome.
LEMMA CommitMaps ==
    ASSUME Inv, NEW c \in Conns, Commit(c)
    PROVE  [Atomic!StoreNext]_(Atomic!storeVars)
<1> DEFINE w == tx[c].work
           s == row
           t == row'
<1>1. Answers' = Answers BY SameAnswers DEF Commit
<1>2. /\ t = Effect(s, w, tx[c].now) /\ Accepts(s, w, tx[c].now) /\ s \in State /\ t \in State
      /\ w \in Work /\ tx[c].now \in 0 .. MaxClock
  BY CommitFacts
<1>3. /\ s.outcome \in [Attempts -> Results \cup {Open, Ended}]
      /\ t.outcome \in [Attempts -> Results \cup {Open, Ended}]
  BY <1>2, StateTypes
<1>4. CASE w.op = "complete"
  <2>1. PICK r \in Results : w = Complete(r) BY <1>2, <1>4, WorkForms
  <2>2. t.outcome = [s.outcome EXCEPT ![AttemptOf[r]] = r]
    BY <1>2, <1>3, <2>1, CompleteEffect
  <2>3. CASE s.outcome[AttemptOf[r]] = r
    <3>1. t.outcome = s.outcome BY <1>3, <2>2, <2>3
    <3> QED BY <1>1, <3>1 DEF Answers, Atomic!storeVars
  <2>4. CASE s.outcome[AttemptOf[r]] # r
    <3>1. Current(s, AttemptOf[r], tx[c].now) BY <1>2, <2>1, <2>4 DEF Accepts, Complete
    <3>2. s.outcome[AttemptOf[r]] = Open BY <3>1 DEF Current
    <3>3. call[r] # "refused"
      BY <3>1, CommitFacts DEF Inv, Refusals, Rejected, Hopeless
    <3>4. Atomic!Store(r)
      BY <1>1, <2>2, <3>2, <3>3 DEF Atomic!Store, Answers
    <3> QED BY <3>4 DEF Atomic!StoreNext
  <2> QED BY <2>3, <2>4
<1>5. CASE w.op = "heartbeat"
  <2>1. t.outcome = s.outcome BY <1>2, <1>5, HeartbeatEffect
  <2> QED BY <1>1, <2>1 DEF Answers, Atomic!storeVars
<1>6. CASE w.op = "tick"
  <2> DEFINE S == {a \in Attempts : s.outcome[a] = Open /\ ~Current(s, a, tx[c].now)}
  <2>1. \A a \in Attempts : t.outcome[a] = IF a \in S THEN Ended ELSE s.outcome[a]
    BY <1>2, <1>6, TickEffect
  <2>2. t.outcome = [a \in Attempts |-> IF a \in S THEN Ended ELSE s.outcome[a]]
    BY <1>3, <2>1
  <2>3. S \in SUBSET Attempts /\ \A a \in S : s.outcome[a] = Open OBVIOUS
  <2>4. Atomic!EndAttempts(S) BY <1>1, <2>2, <2>3 DEF Atomic!EndAttempts, Answers
  <2> QED BY <2>3, <2>4 DEF Atomic!StoreNext
<1> QED BY <1>2, <1>4, <1>5, <1>6, WorkForms

\* An answer confirms what is stored or refuses what is not, or nobody gets it.
LEMMA AnswerMaps ==
    ASSUME Inv, NEW c \in Conns, Answer(c)
    PROVE  [Atomic!StoreNext]_(Atomic!storeVars)
<1>1. tx[c].phase \in {"committed", "refused"} /\ row' = row BY DEF Answer
<1>2. PICK v \in {"ok", "refused", "failed"} :
        /\ Told(c, v)
        /\ v = "ok" => tx[c].phase = "committed"
        /\ v = "refused" => tx[c].phase = "refused"
  BY DEF Answer
<1>3. CASE v = "failed" \/ \A r \in Results : call[r] # c
  <2>1. Answers' = Answers BY <1>2, <1>3, ToldOne, SameAnswers, PersistenceAssumption
  <2> QED BY <1>1, <2>1 DEF Answers, Atomic!storeVars
<1>4. ASSUME NEW r \in Results, call[r] = c, v # "failed"
      PROVE  [Atomic!StoreNext]_(Atomic!storeVars)
  <2>1. tx[c].work = Complete(r) BY <1>2, <1>4, ToldOne
  <2>2. \A q \in Results : call[q] = c => q = r
    <3> SUFFICES ASSUME NEW q \in Results, call[q] = c PROVE q = r OBVIOUS
    <3>1. Complete(q) = Complete(r) BY <1>2, <2>1, ToldOne
    <3>2. Complete(q).of = q /\ Complete(r).of = r BY DEF Complete
    <3> QED BY <3>1, <3>2
  <2>3. call' = [call EXCEPT ![r] = v]
    BY <1>2, <1>4, <2>2, ToldOne DEF Inv, TypeOK
  <2>4. Answers' = [Answers EXCEPT ![r] = v] BY <1>4, <2>3 DEF Answers, Inv, TypeOK
  <2>5. Answers[r] = "none" BY <1>4, PersistenceAssumption DEF Answers
  <2>6. CASE v = "ok"
    <3>1. row.outcome[AttemptOf[r]] = r
      BY <1>2, <2>1, <2>6 DEF Inv, Confirmed, Accepted
    <3>2. Atomic!Confirm(r) BY <1>1, <2>4, <2>6, <3>1 DEF Atomic!Confirm, Answers
    <3> QED BY <3>2 DEF Atomic!StoreNext
  <2>7. CASE v = "refused"
    <3>1. row.outcome[AttemptOf[r]] # r
      BY <1>2, <2>1, <2>7 DEF Inv, Refusals, Rejected, Hopeless
    <3>2. Atomic!Refuse(r) BY <1>1, <2>4, <2>5, <2>7, <3>1 DEF Atomic!Refuse, Answers
    <3> QED BY <3>2 DEF Atomic!StoreNext
  <2> QED BY <1>4, <2>6, <2>7
<1> QED BY <1>3, <1>4

\* The other steps are not seen from outside.
LEMMA OthersStutter ==
    ASSUME Inv, [Next]_vars, \A c \in Conns : ~Commit(c) /\ ~Answer(c)
    PROVE  UNCHANGED <<row.outcome, Answers>>
<1>1. row' = row BY RowChanges
<1>2. CASE UNCHANGED call BY <1>1, <1>2, SameAnswers
<1>3. ASSUME NEW c \in Conns, NEW r \in Results, Send(c, r) PROVE Answers' = Answers
  BY <1>3, SameAnswers, PersistenceAssumption DEF Send, MayTry, Inv, TypeOK
<1>4. ASSUME NEW r \in Results, SendFails(r) \/ ClientTimeout(r) PROVE Answers' = Answers
  BY <1>4, SameAnswers, PersistenceAssumption DEF SendFails, ClientTimeout, MayTry, Inv, TypeOK
<1>5. ASSUME NEW c \in Conns, Abort(c) PROVE Answers' = Answers
  BY <1>5, SameAnswers, ToldOne, PersistenceAssumption DEF Abort
<1>6. ASSUME NEW h \in Replicas, Crash(h) PROVE Answers' = Answers
  BY <1>6, SameAnswers, PersistenceAssumption DEF Crash
<1>7. \/ UNCHANGED call
      \/ \E c \in Conns, r \in Results : Send(c, r)
      \/ \E r \in Results : SendFails(r) \/ ClientTimeout(r)
      \/ \E c \in Conns : Abort(c)
      \/ \E h \in Replicas : Crash(h)
  BY DEF Next, vars, Start, BeginOther, Begin, Transact, SelectForUpdate, ReadClock, Update,
         Rollback, Advance
<1> QED BY <1>1, <1>2, <1>3, <1>4, <1>5, <1>6, <1>7

\* Any number of replicas, however they stop and however requests are repeated, are
\* one atomic store: no result is lost or stored twice, 200 means stored and 409
\* means not stored, now and later.
THEOREM ReplicasAreOneStore == Spec => ImplementsAtomicStore
<1>1. Init => Atomic!StoreInit BY DEF Init, New, Atomic!StoreInit
<1>2. Inv /\ [Next]_vars => [Atomic!StoreNext]_(Atomic!storeVars)
  <2> SUFFICES ASSUME Inv, [Next]_vars PROVE [Atomic!StoreNext]_(Atomic!storeVars)
    OBVIOUS
  <2>1. CASE \E c \in Conns : Commit(c) \/ Answer(c) BY <2>1, CommitMaps, AnswerMaps
  <2>2. CASE \A c \in Conns : ~Commit(c) /\ ~Answer(c)
    BY <2>2, OthersStutter DEF Answers, Atomic!storeVars
  <2> QED BY <2>1, <2>2
<1> QED BY <1>1, <1>2, InvariantHolds, PTL DEF Spec, ImplementsAtomicStore, Atomic!StoreSpec

=============================================================================
