----------------------------- MODULE Persistence -----------------------------
(***************************************************************************)
(* Postgres.Transact (internal/persistence/backend.go) under several API   *)
(* replicas: the one state row, its lock, the connections of each replica, *)
(* and the clients that try again what was not answered.                   *)
(*                                                                         *)
(* The state in the row is reduced to attempts, of which the outcome and   *)
(* the end of the lease are kept, and the operations to those that clients *)
(* repeat or that depend on the time: Finish, HeartbeatAttempt and the     *)
(* tick.  JobStore and PullRequests have the other operations; each runs   *)
(* in the same transaction.  A transaction that only reads takes no lock   *)
(* and sees the last committed row, so it is one step of whoever reads.    *)
(*                                                                         *)
(* PostgreSQL is the environment: a row lock that is given to one          *)
(* transaction at a time and dropped when its connection ends, a commit    *)
(* that happens or not, and a clock that does not go back.                 *)
(***************************************************************************)
EXTENDS Integers, FiniteSets

CONSTANTS
    Replicas,
    Conns,      \* the connections of all pools
    HostOf,     \* [Conns -> Replicas]
    Attempts,
    Results,    \* a result of an attempt: status, message, digest and objects
    AttemptOf,  \* [Results -> Attempts]
    LeaseTTL,
    Timeout,    \* of the job, from the start of the attempt
    MaxTries,   \* how often a worker sends a completion
    MaxClock,   \* bound on the clock
    MaxCrashes  \* bound on the stops of replicas

Open == "open"
Ended == "ended"

ASSUME PersistenceAssumption ==
    /\ HostOf \in [Conns -> Replicas] /\ AttemptOf \in [Results -> Attempts]
    /\ LeaseTTL \in Nat \ {0} /\ Timeout \in Nat \ {0} /\ MaxTries \in Nat \ {0}
    /\ MaxClock \in Nat /\ MaxCrashes \in Nat
    /\ Results \cap {Open, Ended} = {}
    /\ Conns \cap {"none", "new", "failed", "ok", "refused"} = {}

VARIABLES
    row,        \* the committed state, a State
    created,    \* the row exists
    lock,       \* the connection whose transaction has locked the row, or "none"
    clock,      \* the database's
    up,         \* the replicas that run
    tx,         \* [Conns -> Transactions]
    call,       \* [Results -> the connection that serves its completion, or how it stands]
    tries,      \* [Results -> 0 .. MaxTries]
    crashes

vars == <<row, created, lock, clock, up, tx, call, tries, crashes>>

Times == 0 .. MaxClock + LeaseTTL
State == [outcome : [Attempts -> Results \cup {Open, Ended}], expires : [Attempts -> Times]]

\* The attempts have just been leased.
New == [outcome |-> [a \in Attempts |-> Open], expires |-> [a \in Attempts |-> LeaseTTL]]

Work == [op : {"complete"}, of : Results] \cup [op : {"heartbeat"}, of : Attempts]
            \cup [op : {"tick"}, of : {"all"}]
Tick == [op |-> "tick", of |-> "all"]

Phases == {"free", "waiting", "locked", "stamped", "written", "committed", "refused"}
Transactions == [phase : Phases, work : Work, state : State, now : 0 .. MaxClock]
Free == [phase |-> "free", work |-> Tick, state |-> New, now |-> 0]

\* The types of the variables; PersistenceProofs has them in its invariant.
TypeOK ==
    /\ row \in State /\ created \in BOOLEAN
    /\ lock \in Conns \cup {"none"}
    /\ clock \in 0 .. MaxClock
    /\ up \subseteq Replicas
    /\ tx \in [Conns -> Transactions]
    /\ call \in [Results -> Conns \cup {"new", "failed", "ok", "refused"}]
    /\ tries \in [Results -> 0 .. MaxTries]
    /\ crashes \in 0 .. MaxCrashes

Init ==
    /\ row = New /\ created = FALSE /\ lock = "none" /\ clock = 0
    /\ up = {} /\ crashes = 0
    /\ tx = [c \in Conns |-> Free]
    /\ call = [r \in Results |-> "new"]
    /\ tries = [r \in Results |-> 0]

-----------------------------------------------------------------------------
(* What an operation makes of the state s at time now. *)

\* The lease and the time-out of an attempt have not passed.
Current(s, a, now) == s.outcome[a] = Open /\ now < s.expires[a] /\ now < Timeout

\* Finish: a completion that is already stored is accepted again, whatever the time.
Accepts_Current(s, w, now) ==
    CASE w.op = "complete"  -> Current(s, AttemptOf[w.of], now)
      [] w.op = "heartbeat" -> Current(s, w.of, now)
      [] w.op = "tick"      -> TRUE
Accepts(s, w, now) ==
    CASE w.op = "complete"  -> \/ s.outcome[AttemptOf[w.of]] = w.of
                               \/ Current(s, AttemptOf[w.of], now)
      [] w.op = "heartbeat" -> Current(s, w.of, now)
      [] w.op = "tick"      -> TRUE

Effect(s, w, now) ==
    CASE w.op = "complete"  -> [s EXCEPT !.outcome[AttemptOf[w.of]] = w.of]
      [] w.op = "heartbeat" -> [s EXCEPT !.expires[w.of] = now + LeaseTTL]
      [] w.op = "tick"      ->
            [s EXCEPT !.outcome = [a \in Attempts |->
                IF @[a] = Open /\ ~Current(s, a, now) THEN Ended ELSE @[a]]]

-----------------------------------------------------------------------------
(* Replicas and their transactions. *)

\* Open: migrate creates the row unless it is there, under a lock of its own.
Migrated_Overwrites == New
Migrated == IF created THEN row ELSE New
Start(h) ==
    /\ h \notin up
    /\ up' = up \cup {h}
    /\ created' = TRUE
    /\ row' = Migrated
    /\ UNCHANGED <<lock, clock, tx, call, tries, crashes>>

SetTx(c, t) == tx' = [tx EXCEPT ![c] = t]

\* A request or the replica's own tick gets a connection and begins.
Begin(c, w) ==
    /\ HostOf[c] \in up /\ tx[c].phase = "free"
    /\ SetTx(c, [Free EXCEPT !.phase = "waiting", !.work = w])
    /\ UNCHANGED <<row, created, lock, clock, up, crashes>>

\* complete sends what was not answered again, three times in all.
MayTry(r) == call[r] \in {"new", "failed"} /\ tries[r] < MaxTries

Send(c, r) ==
    /\ MayTry(r)
    /\ Begin(c, [op |-> "complete", of |-> r])
    /\ call' = [call EXCEPT ![r] = c]
    /\ tries' = [tries EXCEPT ![r] = @ + 1]

\* It reaches no replica, or one that is busy: 64 requests under way, or no connection.
SendFails(r) ==
    /\ MayTry(r)
    /\ call' = [call EXCEPT ![r] = "failed"]
    /\ tries' = [tries EXCEPT ![r] = @ + 1]
    /\ UNCHANGED <<row, created, lock, clock, up, tx, crashes>>

BeginOther(c) ==
    /\ \E w \in Work : w.op # "complete" /\ Begin(c, w)
    /\ UNCHANGED <<call, tries>>

\* SELECT ... FOR UPDATE returns the row as it is once the lock is free.
RowIsFree_NoLock == TRUE
RowIsFree == lock = "none"
SelectForUpdate(c) ==
    /\ tx[c].phase = "waiting" /\ RowIsFree
    /\ lock' = c
    /\ SetTx(c, [tx[c] EXCEPT !.phase = "locked", !.state = row])
    /\ UNCHANGED <<row, created, clock, up, call, tries, crashes>>

ReadClock(c) ==
    /\ tx[c].phase = "locked"
    /\ SetTx(c, [tx[c] EXCEPT !.phase = "stamped", !.now = clock])
    /\ UNCHANGED <<row, created, lock, clock, up, call, tries, crashes>>

\* The operation succeeds and its state is written, not yet visible to others.
Update(c) ==
    /\ tx[c].phase = "stamped" /\ Accepts(tx[c].state, tx[c].work, tx[c].now)
    /\ SetTx(c, [tx[c] EXCEPT !.phase = "written",
                              !.state = Effect(tx[c].state, tx[c].work, tx[c].now)])
    /\ UNCHANGED <<row, created, lock, clock, up, call, tries, crashes>>

Unlock_Forgotten(c) == UNCHANGED lock
Unlock(c) == lock' = IF lock = c THEN "none" ELSE lock

\* It fails, and the deferred rollback drops the lock.
Rollback(c) ==
    /\ tx[c].phase = "stamped" /\ ~Accepts(tx[c].state, tx[c].work, tx[c].now)
    /\ SetTx(c, [Free EXCEPT !.phase = "refused", !.work = tx[c].work])
    /\ Unlock(c)
    /\ UNCHANGED <<row, created, clock, up, call, tries, crashes>>

Commit(c) ==
    /\ tx[c].phase = "written"
    /\ row' = tx[c].state
    /\ SetTx(c, [Free EXCEPT !.phase = "committed", !.work = tx[c].work])
    /\ Unlock(c)
    /\ UNCHANGED <<created, clock, up, call, tries, crashes>>

\* Whoever waits for connection c is told v.
Told(c, v) == call' = [r \in Results |-> IF call[r] = c THEN v ELSE call[r]]

\* The answer arrives, 200 or 409, or is lost on the way or in the commit.
Answer(c) ==
    /\ tx[c].phase \in {"committed", "refused"}
    /\ SetTx(c, Free)
    /\ \/ Told(c, IF tx[c].phase = "committed" THEN "ok" ELSE "refused")
       \/ Told(c, "failed")
    /\ UNCHANGED <<row, created, lock, clock, up, tries, crashes>>

\* The ten seconds of the transaction pass, or its connection breaks: 503.
Abort(c) ==
    /\ tx[c].phase \in {"waiting", "locked", "stamped", "written"}
    /\ SetTx(c, Free)
    /\ Unlock(c)
    /\ Told(c, "failed")
    /\ UNCHANGED <<row, created, clock, up, tries, crashes>>

\* The client stops waiting; the transaction goes on.
ClientTimeout(r) ==
    /\ call[r] \in Conns
    /\ call' = [call EXCEPT ![r] = "failed"]
    /\ UNCHANGED <<row, created, lock, clock, up, tx, tries, crashes>>

Crash(h) ==
    LET lost == {c \in Conns : HostOf[c] = h}
    IN  /\ h \in up /\ crashes < MaxCrashes
        /\ up' = up \ {h}
        /\ tx' = [c \in Conns |-> IF c \in lost THEN Free ELSE tx[c]]
        /\ lock' = IF lock \in lost THEN "none" ELSE lock
        /\ call' = [r \in Results |-> IF call[r] \in lost THEN "failed" ELSE call[r]]
        /\ crashes' = crashes + 1
        /\ UNCHANGED <<row, created, clock, tries>>

Advance ==
    /\ clock < MaxClock
    /\ clock' = clock + 1
    /\ UNCHANGED <<row, created, lock, up, tx, call, tries, crashes>>

Transact(c) ==
    SelectForUpdate(c) \/ ReadClock(c) \/ Update(c) \/ Rollback(c) \/ Commit(c) \/ Answer(c) \/ Abort(c)

Next ==
    \/ \E h \in Replicas : Start(h) \/ Crash(h)
    \/ \E c \in Conns : BeginOther(c) \/ Transact(c) \/ \E r \in Results : Send(c, r)
    \/ \E r \in Results : SendFails(r) \/ ClientTimeout(r)
    \/ Advance

Spec == Init /\ [][Next]_vars

\* Every transaction ends: each statement returns or the time-out aborts it.
LiveSpec == Spec /\ \A c \in Conns : WF_vars(Transact(c))

-----------------------------------------------------------------------------
(* Properties. *)

\* Only the transaction that holds the row's lock is past SELECT ... FOR UPDATE,
\* and what it has read is still the row when it commits (Transact, lines 129-166).
OneAtATime ==
    \A c \in Conns : tx[c].phase \in {"locked", "stamped"} => lock = c /\ tx[c].state = row

\* The lease of an attempt is never cut short, although its heartbeats are served by
\* different replicas and wait for each other: the time of a transaction is read
\* after the lock is obtained (Transact, lines 145-148; HeartbeatAttempt).
LeaseOnlyGrows == [][\A a \in Attempts : row'.expires[a] >= row.expires[a]]_vars

\* The row's lock comes free again and again, whatever fails (the deferred Rollback
\* and the time-out in Transact).
RowComesFree == []<>(lock = "none")

\* Replicas, stops and repeated requests together do what one atomic store does:
\* no result is lost or stored twice, and 200 and 409 mean what they say.
Atomic == INSTANCE AtomicStore WITH
    outcome <- row.outcome,
    answer <- [r \in Results |-> IF call[r] \in {"ok", "refused"} THEN call[r] ELSE "none"]
ImplementsAtomicStore == Atomic!StoreSpec

=============================================================================
