---------------------------- MODULE SchedulerProofs ----------------------------
(***************************************************************************)
(* Proofs about the limits the scheduler of JobStore keeps and about the   *)
(* turns it gives the tenants.  Each of NothingExpiredWhileScheduling,     *)
(* TenantWithinLimit, WorkerWithinCapacity, WithinResources and            *)
(* QueueBounded is inductive together with the invariant of                *)
(* JobStoreProofs, because of two facts about steps:                       *)
(*                                                                         *)
(*    an attempt becomes active in ScheduleOne only (NoNewAttempts), and   *)
(*    a job becomes open in Submit only (NoNewJobs).                       *)
(*                                                                         *)
(* Fairness to the tenants rests on an invariant of the rotation: a tenant *)
(* that was passed over for another one has its turn before it (Waiting).  *)
(***************************************************************************)
EXTENDS FairShare, JobStoreProofs

\* The types of a job's attempts, as the proofs below use them.
LEMMA AttemptType ==
    ASSUME Core, NEW j \in Jobs
    PROVE  /\ attempts[j] \in Seq(Attempt) /\ DOMAIN attempts[j] = 1 .. Len(attempts[j])
           /\ \A n \in DOMAIN attempts[j] : attempts[j][n] \in Attempt
           /\ job[j] \in State \cup {"NONE"}
<1>1. attempts[j] \in Seq(Attempt) /\ job[j] \in State \cup {"NONE"} BY DEF Core
<1> QED BY <1>1

-----------------------------------------------------------------------------
(* What a step does to the active attempts and to the open jobs. *)

\* Every active attempt of B is one of A, on the same worker.
Kept(A, B) ==
    \A n \in DOMAIN B : active(B[n].status) =>
        n \in DOMAIN A /\ active(A[n].status) /\ B[n].worker = A[n].worker

NoNewAttempts == \A j \in Jobs : Kept(attempts[j], attempts'[j])

open(s) == s \in {"QUEUED", "LEASED", "RUNNING"}
NoNewJobs == \A j \in Jobs : open(job'[j]) => open(job[j])

LEMMA KeptSame == \A A : Kept(A, A)
BY DEF Kept

\* An attempt ends.
LEMMA KeptEnd ==
    ASSUME NEW A \in Seq(Attempt), NEW n \in DOMAIN A,
           NEW s \in {"SUCCEEDED", "FAILED", "LOST", "CANCELLED"}
    PROVE  LET B == [A EXCEPT ![n] = End(A[n], s)]
           IN  B \in Seq(Attempt) /\ Kept(A, B)
<1>1. A[n] \in Attempt OBVIOUS
<1>2. End(A[n], s) \in Attempt /\ ~active(End(A[n], s).status)
  BY <1>1, EndType DEF State, active
<1> QED BY <1>2, ExceptSeq DEF Kept

\* All active attempts of a job are cancelled.
LEMMA KeptCancelled ==
    ASSUME NEW A \in Seq(Attempt)
    PROVE  Kept(A, CancelActive(A))
<1>1. \A n \in DOMAIN A : A[n] \in Attempt OBVIOUS
<1>2. \A n \in DOMAIN A : ~active(CancelActive(A)[n].status)
  BY <1>1, EndType DEF CancelActive, active, State
<1> QED BY <1>2 DEF Kept, CancelActive

\* What a cancellation does to jobs J with the attempts A.
LEMMA KeptByCancellation ==
    ASSUME NEW P, NEW J, NEW A, NEW j \in Jobs, A[j] \in Seq(Attempt)
    PROVE  /\ Kept(A[j], CancelledAttempts(P, J, A)[j])
           /\ open(CancelledJobs(P, J)[j]) => open(J[j])
BY KeptSame, KeptCancelled DEF CancelledAttempts, CancelledJobs, open

\* What a result does, with the cancellations that follow a failure.
LEMMA KeptByCommit ==
    ASSUME Core, NEW j \in Jobs, NEW n \in DOMAIN attempts[j],
           NEW s \in {"SUCCEEDED", "FAILED"},
           updatePipeline(PipelineOf[j], [job EXCEPT ![j] = s],
                          [attempts EXCEPT ![j][n] = End(attempts[j][n], s)])
    PROVE  NoNewAttempts /\ NoNewJobs
<1> DEFINE J == [job EXCEPT ![j] = s]
           A == [attempts EXCEPT ![j][n] = End(attempts[j][n], s)]
           B == [attempts[j] EXCEPT ![n] = End(attempts[j][n], s)]
<1>1. B \in Seq(Attempt) /\ Kept(attempts[j], B) BY AttemptType, KeptEnd
<1>2. \A k \in Jobs : A[k] = IF k = j THEN B ELSE attempts[k] BY DEF Core
<1>3. \A k \in Jobs : A[k] \in Seq(Attempt) /\ Kept(attempts[k], A[k])
  BY <1>1, <1>2, AttemptType, KeptSame
<1>4. \A k \in Jobs : open(J[k]) => open(job[k]) BY DEF Core, open
<1>5. \/ job' = J /\ attempts' = A
      \/ /\ job' = CancelledJobs({PipelineOf[j]}, J)
         /\ attempts' = CancelledAttempts({PipelineOf[j]}, J, A)
  BY DEF updatePipeline
<1> HIDE DEF J, A
<1>6. \A k \in Jobs : Kept(A[k], attempts'[k]) /\ (open(job'[k]) => open(J[k]))
  BY <1>3, <1>5, KeptSame, KeptByCancellation
<1>7. \A k \in Jobs : Kept(attempts[k], attempts'[k])
  BY <1>3, <1>6 DEF Kept
<1> QED BY <1>4, <1>6, <1>7 DEF NoNewAttempts, NoNewJobs

\* Every step but ScheduleOne leaves no attempt active that was not, and every
\* step but Submit leaves no job open that was not.
LEMMA StepShape ==
    ASSUME Core, [Next]_vars
    PROVE  /\ NoNewAttempts \/ \E j \in Jobs, w \in Workers : ScheduleOne(j, w)
           /\ NoNewJobs \/ \E p \in Pipelines : Submit(p)
<1> DEFINE Goal == NoNewAttempts /\ NoNewJobs
<1>1. ASSUME UNCHANGED <<job, attempts>> PROVE Goal
  BY <1>1, KeptSame DEF NoNewAttempts, NoNewJobs
<1>2. ASSUME NEW P, cancelPipelines(P) PROVE Goal
  BY <1>2, AttemptType, KeptByCancellation DEF cancelPipelines, NoNewAttempts, NoNewJobs
<1>3. ASSUME NEW p \in Pipelines, Submit(p) PROVE NoNewAttempts
  <2>1. PICK P : attempts' = CancelledAttempts(P, job, attempts) BY <1>3 DEF Submit
  <2> QED BY <2>1, AttemptType, KeptByCancellation DEF NoNewAttempts
<1>4. ASSUME NEW pr \in PullRequests, ClosePR(pr) PROVE Goal BY <1>2, <1>4 DEF ClosePR
<1>5. ASSUME NEW j \in Jobs, CancelJob(j) PROVE Goal BY <1>2, <1>5 DEF CancelJob
<1>6. ASSUME NEW w \in Workers, RegisterWorker(w) \/ HeartbeatWorker(w) PROVE Goal
  BY <1>1, <1>6 DEF RegisterWorker, HeartbeatWorker
<1>7. ASSUME NEW j \in Jobs, NEW n \in DOMAIN attempts[j], HeartbeatAttempt(j, n) PROVE Goal
  <2> DEFINE a == attempts[j][n]
             B == [attempts[j] EXCEPT ![n] = Renewed(j, a)]
  <2>1. active(a.status) BY <1>7 DEF HeartbeatAttempt, Current
  <2>2. open(job[j]) BY <2>1, ActiveJob DEF open, terminal, active
  <2>3. \A k \in Jobs : attempts'[k] = IF k = j THEN B ELSE attempts[k]
    BY <1>7 DEF HeartbeatAttempt, Core
  <2>4. \A k \in Jobs : k # j => job'[k] = job[k] BY <1>7 DEF HeartbeatAttempt, Core
  <2>5. a \in Attempt BY AttemptType
  <2>6. Renewed(j, a).worker = a.worker BY <2>5 DEF Renewed, Attempt
  <2>7. Kept(attempts[j], B) BY <2>1, <2>6, AttemptType DEF Kept
  <2> QED BY <2>2, <2>3, <2>4, <2>7, KeptSame DEF NoNewAttempts, NoNewJobs
<1>8. ASSUME NEW j \in Jobs, NEW n \in DOMAIN attempts[j],
             NEW s \in {"SUCCEEDED", "FAILED"}, Finish(j, n, s) PROVE Goal
  BY <1>8, KeptByCommit DEF Finish
<1>9. ASSUME NEW j \in Jobs, NEW n \in DOMAIN attempts[j], ExpireAttempt(j, n) PROVE Goal
  <2> DEFINE a == attempts[j][n]
             B == [attempts[j] EXCEPT ![n] = End(a, "LOST")]
  <2>1. CASE OutOfTries(j, n, a) BY <1>9, <2>1, KeptByCommit DEF ExpireAttempt
  <2>2. CASE ~OutOfTries(j, n, a)
    <3>1. active(a.status) BY <1>9 DEF ExpireAttempt, Expired
    <3>2. open(job[j]) BY <3>1, ActiveJob DEF open, terminal, active
    <3>3. \A k \in Jobs : attempts'[k] = IF k = j THEN B ELSE attempts[k]
      BY <1>9, <2>2 DEF ExpireAttempt, Core
    <3>4. \A k \in Jobs : k # j => job'[k] = job[k]
      BY <1>9, <2>2 DEF ExpireAttempt, Core
    <3>5. Kept(attempts[j], B) BY AttemptType, KeptEnd
    <3> QED BY <3>2, <3>3, <3>4, <3>5, KeptSame DEF NoNewAttempts, NoNewJobs
  <2> QED BY <2>1, <2>2
<1>10. ASSUME NEW retained \in SUBSET Pipelines, Prune(retained) PROVE Goal
  <2>1. \A j \in Jobs : \/ job'[j] = "NONE" /\ attempts'[j] = << >>
                        \/ job'[j] = job[j] /\ attempts'[j] = attempts[j]
    BY <1>10 DEF Prune
  <2> QED BY <2>1, KeptSame DEF NoNewAttempts, NoNewJobs, Kept, open
<1>11. ASSUME NEW j \in Jobs, NEW w \in Workers, ScheduleOne(j, w) PROVE NoNewJobs
  <2>1. open(job[j]) BY <1>11 DEF ScheduleOne, Schedulable, Runnable, open
  <2> QED BY <1>11, <2>1 DEF ScheduleOne, NoNewJobs, Core
<1>12. CASE BeginTick \/ EndTick BY <1>1, <1>12 DEF BeginTick, EndTick
<1>13. CASE Advance
  <2>1. \A j \in Jobs : /\ DOMAIN attempts'[j] = DOMAIN attempts[j]
                        /\ \A n \in DOMAIN attempts[j] :
                              attempts'[j][n] = Aged(attempts[j][n])
    BY <1>13 DEF Advance
  <2>2. \A a \in Attempt : Aged(a).status = a.status /\ Aged(a).worker = a.worker
    BY DEF Aged, Attempt
  <2>3. NoNewAttempts BY <2>1, <2>2, AttemptType DEF NoNewAttempts, Kept
  <2> QED BY <1>13, <2>3 DEF Advance, NoNewJobs
<1>14. CASE UNCHANGED vars BY <1>1, <1>14 DEF vars
<1> QED BY <1>3, <1>4, <1>5, <1>6, <1>7, <1>8, <1>9, <1>10, <1>11, <1>12, <1>13, <1>14
        DEF Next, Request, TickStep

-----------------------------------------------------------------------------
(* Counting active attempts. *)

HeldBy(w) == {a \in ActiveIds : attempts[a[1]][a[2]].worker = w}
OfTenant(t) == {a \in ActiveIds : TenantOf[PipelineOf[a[1]]] = t}
ActiveJobs(t) == {j \in Jobs : TenantOf[PipelineOf[j]] = t /\ active(job[j])}

\* The members of ActiveIds.
LEMMA ActiveIdsMeaning ==
    /\ \A a \in ActiveIds : \E j \in Jobs : \E n \in DOMAIN attempts[j] :
          a = <<j, n>> /\ active(attempts[j][n].status)
    /\ \A j \in Jobs : \A n \in DOMAIN attempts[j] :
          active(attempts[j][n].status) => <<j, n>> \in ActiveIds
BY DEF ActiveIds, AttemptIds

\* A job has one active attempt at most, so a tenant has no more active attempts
\* than active jobs (activeForTenantLocked counts the jobs).
LEMMA OneActivePerJob ==
    ASSUME Core
    PROVE  /\ IsFiniteSet(ActiveIds)
           /\ \A t : /\ IsFiniteSet(OfTenant(t))
                     /\ Cardinality(OfTenant(t)) <= activeForTenant(t)
<1>1. \A a \in ActiveIds : /\ a[1] \in Jobs /\ active(job[a[1]])
                           /\ a = <<a[1], Len(attempts[a[1]])>>
  <2> SUFFICES ASSUME NEW j \in Jobs, NEW n \in DOMAIN attempts[j],
                      active(attempts[j][n].status)
               PROVE  active(job[j]) /\ n = Len(attempts[j])
    BY ActiveIdsMeaning
  <2> QED BY ActiveIsLast DEF Core
<1>2. \A a, b \in ActiveIds : a[1] = b[1] => a = b BY <1>1
<1>3. IsFiniteSet(Jobs) BY PipelineAssumption
<1>4. IsFiniteSet(ActiveIds)
  <2>1. [a \in ActiveIds |-> a[1]] \in Injection(ActiveIds, Jobs)
    BY <1>1, <1>2 DEF Injection, IsInjective
  <2> QED BY <1>3, <2>1, FS_Injection
<1>5. ASSUME NEW t
      PROVE  /\ IsFiniteSet(OfTenant(t))
             /\ Cardinality(OfTenant(t)) <= Cardinality(ActiveJobs(t))
  <2>1. IsFiniteSet(ActiveJobs(t)) BY <1>3, FS_Subset DEF ActiveJobs
  <2>2. [a \in OfTenant(t) |-> a[1]] \in Injection(OfTenant(t), ActiveJobs(t))
    BY <1>1, <1>2 DEF Injection, IsInjective, OfTenant, ActiveJobs
  <2> QED BY <2>1, <2>2, FS_Injection
<1> QED BY <1>4, <1>5 DEF ActiveJobs, activeForTenant

\* A step that makes no attempt active adds none to a worker or to a tenant.
LEMMA NothingAdded ==
    ASSUME NoNewAttempts
    PROVE  /\ \A w : HeldBy(w)' \subseteq HeldBy(w)
           /\ \A t : OfTenant(t)' \subseteq OfTenant(t)
<1>1. \A a \in ActiveIds' : /\ a \in ActiveIds
                            /\ attempts'[a[1]][a[2]].worker = attempts[a[1]][a[2]].worker
  <2> SUFFICES ASSUME NEW j \in Jobs, NEW n \in DOMAIN attempts'[j],
                      active(attempts'[j][n].status)
               PROVE  /\ <<j, n>> \in ActiveIds
                      /\ attempts'[j][n].worker = attempts[j][n].worker
    BY DEF ActiveIds, AttemptIds
  <2> QED BY ActiveIdsMeaning DEF NoNewAttempts, Kept
<1> QED BY <1>1 DEF HeldBy, OfTenant

\* A lease adds one attempt, to its worker and to its tenant.
LEMMA OneAdded ==
    ASSUME Core, NEW j \in Jobs, NEW w \in Workers, ScheduleOne(j, w)
    PROVE  LET new == <<j, Len(attempts[j]) + 1>>
           IN  /\ \A v : HeldBy(v)' \subseteq HeldBy(v) \cup {new}
               /\ \A v : v # w => HeldBy(v)' \subseteq HeldBy(v)
               /\ \A t : OfTenant(t)' \subseteq OfTenant(t) \cup {new}
               /\ \A t : t # TenantOf[PipelineOf[j]] => OfTenant(t)' \subseteq OfTenant(t)
<1> DEFINE new == <<j, Len(attempts[j]) + 1>>
           a == [worker |-> w, status |-> "LEASED", lease |-> LeaseTTL, left |-> jobTimeout(j)]
<1>1. \A k \in Jobs : attempts'[k] = IF k = j THEN Append(attempts[j], a) ELSE attempts[k]
  BY DEF ScheduleOne, Core
<1>2. ASSUME NEW k \in Jobs, NEW n \in DOMAIN attempts'[k]
      PROVE  \/ <<k, n>> = new /\ attempts'[k][n].worker = w
             \/ n \in DOMAIN attempts[k] /\ attempts'[k][n] = attempts[k][n]
  <2>1. k # j => attempts'[k] = attempts[k] BY <1>1
  <2>2. attempts[j] \in Seq(Attempt) BY AttemptType
  <2>3. /\ DOMAIN Append(attempts[j], a) = 1 .. Len(attempts[j]) + 1
        /\ Append(attempts[j], a)[Len(attempts[j]) + 1] = a
        /\ \A i \in 1 .. Len(attempts[j]) : Append(attempts[j], a)[i] = attempts[j][i]
    BY <2>2
  <2>4. k = j => attempts'[k] = Append(attempts[j], a) /\ a.worker = w BY <1>1
  <2>5. DOMAIN attempts[j] = 1 .. Len(attempts[j]) /\ Len(attempts[j]) \in Nat BY <2>2
  <2> HIDE DEF a
  <2> QED BY <2>1, <2>3, <2>4, <2>5
<1>3. \A b \in ActiveIds' :
        \/ b = new /\ attempts'[b[1]][b[2]].worker = w
        \/ b \in ActiveIds /\ attempts'[b[1]][b[2]] = attempts[b[1]][b[2]]
  <2> SUFFICES ASSUME NEW k \in Jobs, NEW n \in DOMAIN attempts'[k],
                      active(attempts'[k][n].status)
               PROVE  \/ <<k, n>> = new /\ attempts'[k][n].worker = w
                      \/ <<k, n>> \in ActiveIds /\ attempts'[k][n] = attempts[k][n]
    BY DEF ActiveIds, AttemptIds
  <2> QED BY <1>2, ActiveIdsMeaning
<1> HIDE DEF a
<1> QED BY <1>3 DEF HeldBy, OfTenant

\* A set that grows by one member at most, if it was below its limit.
LEMMA GrowsByOne ==
    ASSUME NEW S, IsFiniteSet(S), NEW T, NEW x, T \subseteq S \cup {x},
           NEW n \in Nat, Cardinality(S) < n
    PROVE  Cardinality(T) <= n
<1>1. IsFiniteSet(S \cup {x}) /\ Cardinality(S \cup {x}) <= Cardinality(S) + 1
  <2>1. Cardinality(S) \in Nat BY FS_CardinalityType
  <2>2. /\ IsFiniteSet(S \cup {x})
        /\ Cardinality(S \cup {x}) = IF x \in S THEN Cardinality(S) ELSE Cardinality(S) + 1
    BY FS_AddElement
  <2> QED BY <2>1, <2>2
<1>2. IsFiniteSet(T) /\ Cardinality(T) <= Cardinality(S \cup {x}) BY <1>1, FS_Subset
<1> QED BY <1>1, <1>2, FS_CardinalityType

LEMMA DoesNotGrow ==
    ASSUME NEW S, IsFiniteSet(S), NEW T, T \subseteq S,
           NEW n \in Nat, Cardinality(S) <= n
    PROVE  Cardinality(T) <= n
BY FS_Subset, FS_CardinalityType

-----------------------------------------------------------------------------
(* What attempts reserve together.  Used is a fold, a recursion over a     *)
(* finite set: the lemmas of this section are proved by looking at a       *)
(* smallest set they would fail for.                                       *)

\* A family of subsets of a finite set has a smallest member.
LEMMA SmallestMember ==
    ASSUME NEW S, IsFiniteSet(S), NEW F \in SUBSET (SUBSET S), F # {}
    PROVE  \E U \in F : \A V \in SUBSET U : V # U => V \notin F
<1>1. IsWellFoundedOn(StrictSubsetOrdering(S), SUBSET S)
  BY FS_StrictSubsetOrderingWellFounded, FS_FiniteSubsetsOfFinite
<1>2. PICK U \in F : \A V \in F : ~ (<<V, U>> \in StrictSubsetOrdering(S))
  BY <1>1, WFMin
<1> QED BY <1>2 DEF StrictSubsetOrdering

cost(a, k) == Resources[a[1]][k]
first(s) == CHOOSE a \in s : TRUE

\* g adds up what the attempts of every subset of S reserve of k.
Adds(g, S, k) ==
    g = [s \in SUBSET S |-> IF s = {} THEN 0 ELSE cost(first(s), k) + g[s \ {first(s)}]]
Sums(S, k) == {g \in [SUBSET S -> Nat] : Adds(g, S, k)}
Costs(S, k) == \A a \in S : cost(a, k) \in Nat

LEMMA UsedMeaning ==
    ASSUME NEW S, NEW k
    PROVE  Used(S, k) = (CHOOSE g : Adds(g, S, k))[S]
BY DEF Used, MapThenSumSet, MapThenFoldSet, Adds, cost, first

\* The value of a sum at one set.
LEMMA SumAt ==
    ASSUME NEW S, NEW k, NEW g, Adds(g, S, k), NEW s \in SUBSET S
    PROVE  /\ s = {} => g[s] = 0
           /\ s # {} => /\ first(s) \in s
                        /\ g[s] = cost(first(s), k) + g[s \ {first(s)}]
<1>1. s # {} => first(s) \in s BY DEF first
<1> HIDE DEF first
<1> QED BY <1>1 DEF Adds

\* Two sums agree on the sets they share.
LEMMA SumsAgree ==
    ASSUME NEW k, NEW S, IsFiniteSet(S), NEW T, NEW g, Adds(g, S, k), NEW h, Adds(h, T, k),
           S \subseteq T
    PROVE  \A s \in SUBSET S : g[s] = h[s]
<1> DEFINE F == {s \in SUBSET S : g[s] # h[s]}
<1> SUFFICES ASSUME F # {} PROVE FALSE OBVIOUS
<1>1. PICK U \in F : \A V \in SUBSET U : V # U => V \notin F
  <2>1. F \in SUBSET (SUBSET S) OBVIOUS
  <2> HIDE DEF F
  <2> QED BY <2>1, SmallestMember
<1> DEFINE x == first(U)
<1>2. U \in SUBSET S /\ U \in SUBSET T /\ g[U] # h[U] OBVIOUS
<1> HIDE DEF F
<1>3. /\ U = {} => g[U] = 0 /\ h[U] = 0
      /\ U # {} => /\ x \in U
                   /\ g[U] = cost(x, k) + g[U \ {x}] /\ h[U] = cost(x, k) + h[U \ {x}]
  <2>1. /\ U = {} => g[U] = 0
        /\ U # {} => x \in U /\ g[U] = cost(x, k) + g[U \ {x}]
    BY <1>2, SumAt
  <2>2. /\ U = {} => h[U] = 0
        /\ U # {} => h[U] = cost(x, k) + h[U \ {x}]
    BY <1>2, SumAt
  <2> QED BY <2>1, <2>2
<1> HIDE DEF x
<1>4. U # {} => U \ {x} \in SUBSET U /\ U \ {x} # U BY <1>3
<1>5. U # {} => g[U \ {x}] = h[U \ {x}] BY <1>1, <1>2, <1>4 DEF F
<1>6. U = {} => g[U] = h[U] BY <1>3
<1>7. U # {} => g[U] = h[U]
  <2> DEFINE gx == g[U \ {x}]
             hx == h[U \ {x}]
  <2>1. U # {} => g[U] = cost(x, k) + gx /\ h[U] = cost(x, k) + hx /\ gx = hx
    BY <1>3, <1>5
  <2> HIDE DEF gx, hx
  <2> QED BY <2>1
<1> QED BY <1>2, <1>6, <1>7

\* Every finite set of attempts has its sums: the recursion of the fold is well
\* founded.
LEMMA SumsExist ==
    ASSUME NEW k, NEW S, IsFiniteSet(S), Costs(S, k)
    PROVE  Sums(S, k) # {}
<1> DEFINE F == {U \in SUBSET S : Sums(U, k) = {}}
<1> SUFFICES ASSUME F # {} PROVE FALSE BY DEF Sums
<1>1. PICK U \in F : \A V \in SUBSET U : V # U => V \notin F
  <2>1. F \in SUBSET (SUBSET S) OBVIOUS
  <2> HIDE DEF F
  <2> QED BY <2>1, SmallestMember
<1>2. U \in SUBSET S /\ Sums(U, k) = {} OBVIOUS
<1>3. \A V \in SUBSET U : V # U => Sums(V, k) # {} BY <1>1, <1>2
<1> HIDE DEF F
<1> DEFINE sum(V) == (CHOOSE g : g \in Sums(V, k))[V]
           x == first(U)
           G == [V \in SUBSET U |-> IF V # U THEN sum(V)
                                    ELSE IF U = {} THEN 0 ELSE cost(x, k) + sum(U \ {x})]
<1>4. ASSUME NEW V \in SUBSET U, V # U
      PROVE  /\ sum(V) \in Nat
             /\ V = {} => sum(V) = 0
             /\ V # {} => /\ first(V) \in V
                          /\ sum(V) = cost(first(V), k) + sum(V \ {first(V)})
  <2> DEFINE g == CHOOSE g : g \in Sums(V, k)
  <2>1. g \in [SUBSET V -> Nat] /\ Adds(g, V, k) BY <1>3, <1>4 DEF Sums
  <2>2. sum(V) = g[V] OBVIOUS
  <2> HIDE DEF g
  <2>3. CASE V = {} BY <2>1, <2>2, <2>3, SumAt
  <2>4. CASE V # {}
    <3> DEFINE W == V \ {first(V)}
               h == CHOOSE h : h \in Sums(W, k)
    <3>1. first(V) \in V /\ g[V] = cost(first(V), k) + g[W] BY <2>1, <2>4, SumAt
    <3>2. W \in SUBSET U /\ W # U BY <1>4
    <3>3. Adds(h, W, k) BY <1>3, <3>2 DEF Sums
    <3>4. sum(W) = h[W] OBVIOUS
    <3>5. IsFiniteSet(W) /\ W \subseteq V BY <1>2, FS_Subset
    <3> HIDE DEF h, W
    <3>6. h[W] = g[W] BY <2>1, <3>3, <3>5, SumsAgree
    <3> QED BY <2>1, <2>2, <2>4, <3>1, <3>4, <3>6 DEF W
  <2> QED BY <2>3, <2>4
<1> HIDE DEF sum
<1>5. U # {} => x \in U BY DEF first
<1> HIDE DEF x
<1>6. U # {} => /\ U \ {x} \in SUBSET U /\ U \ {x} # U
                /\ sum(U \ {x}) \in Nat /\ cost(x, k) \in Nat
  BY <1>2, <1>4, <1>5 DEF Costs
<1>7. G \in [SUBSET U -> Nat]
  <2> SUFFICES ASSUME NEW V \in SUBSET U
               PROVE  (IF V # U THEN sum(V)
                       ELSE IF U = {} THEN 0 ELSE cost(x, k) + sum(U \ {x})) \in Nat
    OBVIOUS
  <2>1. CASE V # U BY <1>4, <2>1
  <2>2. CASE V = U /\ U = {} BY <2>2
  <2>3. CASE V = U /\ U # {}
    <3> DEFINE a == cost(x, k)
               b == sum(U \ {x})
    <3>1. a \in Nat /\ b \in Nat BY <1>6, <2>3
    <3> HIDE DEF a, b
    <3>2. a + b \in Nat BY <3>1
    <3> QED BY <2>3, <3>2 DEF a, b
  <2> QED BY <2>1, <2>2, <2>3
<1>8. ASSUME NEW V \in SUBSET U
      PROVE  G[V] = IF V = {} THEN 0 ELSE cost(first(V), k) + G[V \ {first(V)}]
  <2>1. CASE V = U BY <1>5, <1>6, <2>1 DEF x
  <2>2. CASE V # U
    <3>1. G[V] = sum(V) BY <2>2
    <3>2. V # {} => V \ {first(V)} \in SUBSET U /\ V \ {first(V)} # U BY <2>2
    <3>3. V # {} => G[V \ {first(V)}] = sum(V \ {first(V)}) BY <3>2
    <3> QED BY <1>4, <2>2, <3>1, <3>3
  <2> QED BY <2>1, <2>2
<1>9. Adds(G, U, k) BY <1>7, <1>8 DEF Adds
<1> QED BY <1>2, <1>7, <1>9 DEF Sums

\* Used is the value of any sum.
LEMMA UsedIsSum ==
    ASSUME NEW k, NEW S, IsFiniteSet(S), Costs(S, k)
    PROVE  \E g \in Sums(S, k) : \A s \in SUBSET S : Used(s, k) = g[s]
<1>1. PICK g : g \in Sums(S, k) BY SumsExist
<1>2. ASSUME NEW s \in SUBSET S PROVE Used(s, k) = g[s]
  <2> DEFINE h == CHOOSE h : Adds(h, s, k)
  <2>1. IsFiniteSet(s) /\ Costs(s, k) BY FS_Subset DEF Costs
  <2>2. \E f : Adds(f, s, k) BY <2>1, SumsExist DEF Sums
  <2>3. Adds(h, s, k) BY <2>2
  <2>4. Used(s, k) = h[s] BY UsedMeaning
  <2> HIDE DEF h
  <2>5. Adds(g, S, k) BY <1>1 DEF Sums
  <2> QED BY <2>1, <2>3, <2>4, <2>5, SumsAgree
<1> QED BY <1>1, <1>2

\* The order of the fold does not matter: any attempt may come first.
LEMMA AnyFirst ==
    ASSUME NEW k, NEW S, IsFiniteSet(S), Costs(S, k), NEW g \in Sums(S, k)
    PROVE  \A s \in SUBSET S : \A y \in s : g[s] = cost(y, k) + g[s \ {y}]
<1> DEFINE F == {s \in SUBSET S : \E y \in s : g[s] # cost(y, k) + g[s \ {y}]}
<1> SUFFICES ASSUME F # {} PROVE FALSE OBVIOUS
<1>1. PICK U \in F : \A V \in SUBSET U : V # U => V \notin F
  <2>1. F \in SUBSET (SUBSET S) OBVIOUS
  <2> HIDE DEF F
  <2> QED BY <2>1, SmallestMember
<1>2. PICK y \in U : g[U] # cost(y, k) + g[U \ {y}] OBVIOUS
<1>3. U \in SUBSET S /\ U # {} BY <1>2
<1>4. \A V \in SUBSET U : V # U => \A z \in V : g[V] = cost(z, k) + g[V \ {z}]
  BY <1>1, <1>3
<1> HIDE DEF F
<1>5. g \in [SUBSET S -> Nat] /\ Adds(g, S, k) BY DEF Sums
<1> DEFINE x == first(U)
<1>6. x \in U /\ g[U] = cost(x, k) + g[U \ {x}]
  <2>1. U \in SUBSET S /\ U # {} /\ Adds(g, S, k) BY <1>3, <1>5
  <2> QED BY <2>1, SumAt
<1> HIDE DEF x
<1>7. x # y BY <1>2, <1>6
<1>8. g[U \ {x}] = cost(y, k) + g[(U \ {x}) \ {y}] BY <1>2, <1>4, <1>6, <1>7
<1>9. g[U \ {y}] = cost(x, k) + g[(U \ {y}) \ {x}] BY <1>2, <1>4, <1>6, <1>7
<1> DEFINE r == g[(U \ {x}) \ {y}]
<1>10. r \in Nat /\ cost(x, k) \in Nat /\ cost(y, k) \in Nat
  BY <1>2, <1>3, <1>5, <1>6 DEF Costs
<1>11. (U \ {y}) \ {x} = (U \ {x}) \ {y} OBVIOUS
<1>12. g[U \ {x}] = cost(y, k) + r /\ g[U \ {y}] = cost(x, k) + r BY <1>8, <1>9, <1>11
<1> HIDE DEF r
<1> QED BY <1>2, <1>6, <1>10, <1>12

\* What one attempt adds to the rest.
LEMMA UsedWith ==
    ASSUME NEW k, NEW S, IsFiniteSet(S), Costs(S, k), NEW y \in S
    PROVE  /\ Used(S, k) = cost(y, k) + Used(S \ {y}, k)
           /\ Used(S, k) \in Nat /\ Used(S \ {y}, k) \in Nat /\ cost(y, k) \in Nat
<1>1. PICK g \in Sums(S, k) : \A s \in SUBSET S : Used(s, k) = g[s] BY UsedIsSum
<1>2. S \in SUBSET S /\ S \ {y} \in SUBSET S OBVIOUS
<1>3. g[S] = cost(y, k) + g[S \ {y}] BY <1>2, AnyFirst
<1>4. g \in [SUBSET S -> Nat] BY DEF Sums
<1> QED BY <1>1, <1>2, <1>3, <1>4 DEF Costs

LEMMA UsedType ==
    ASSUME NEW k, NEW S, IsFiniteSet(S), Costs(S, k)
    PROVE  Used(S, k) \in Nat /\ Used({}, k) = 0
<1>1. PICK g \in Sums(S, k) : \A s \in SUBSET S : Used(s, k) = g[s] BY UsedIsSum
<1>2. g \in [SUBSET S -> Nat] /\ Adds(g, S, k) BY DEF Sums
<1>3. S \in SUBSET S /\ {} \in SUBSET S OBVIOUS
<1>4. g[{}] = 0 BY <1>2, <1>3, SumAt
<1> QED BY <1>1, <1>2, <1>3, <1>4

\* Fewer attempts reserve no more.
LEMMA UsedShrinks ==
    ASSUME NEW k, NEW S, IsFiniteSet(S), Costs(S, k), NEW T, T \subseteq S
    PROVE  Used(T, k) <= Used(S, k)
<1> DEFINE F == {U \in SUBSET S : T \subseteq U /\ ~(Used(T, k) <= Used(U, k))}
<1> SUFFICES ASSUME F # {} PROVE FALSE OBVIOUS
<1>1. PICK U \in F : \A V \in SUBSET U : V # U => V \notin F
  <2>1. F \in SUBSET (SUBSET S) OBVIOUS
  <2> HIDE DEF F
  <2> QED BY <2>1, SmallestMember
<1>2. U \in SUBSET S /\ T \subseteq U /\ ~(Used(T, k) <= Used(U, k)) OBVIOUS
<1>3. \A V \in SUBSET U : V # U /\ T \subseteq V => Used(T, k) <= Used(V, k)
  BY <1>1, <1>2
<1> HIDE DEF F
<1>4. IsFiniteSet(U) /\ Costs(U, k) /\ IsFiniteSet(T) /\ Costs(T, k)
  BY <1>2, FS_Subset DEF Costs
<1>5. Used(U, k) \in Nat /\ Used(T, k) \in Nat BY <1>4, UsedType
<1>6. U # T BY <1>2, <1>5
<1>7. PICK y \in U : y \notin T BY <1>2, <1>6
<1>8. Used(T, k) <= Used(U \ {y}, k) BY <1>2, <1>3, <1>7
<1>9. /\ Used(U, k) = cost(y, k) + Used(U \ {y}, k)
      /\ Used(U \ {y}, k) \in Nat /\ cost(y, k) \in Nat
  BY <1>4, UsedWith
<1> QED BY <1>2, <1>5, <1>8, <1>9

\* One attempt more reserves no more than it needs.
LEMMA UsedGrows ==
    ASSUME NEW k, NEW S, IsFiniteSet(S), Costs(S, k), NEW y, cost(y, k) \in Nat,
           NEW T, T \subseteq S \cup {y}
    PROVE  Used(T, k) <= Used(S, k) + cost(y, k)
<1> DEFINE U == S \cup {y}
<1>1. IsFiniteSet(U) /\ Costs(U, k) BY FS_AddElement DEF Costs
<1>2. Used(T, k) <= Used(U, k) BY <1>1, UsedShrinks
<1>3. Used(S, k) \in Nat /\ Used(U, k) \in Nat BY <1>1, UsedType
<1>4. Used(U, k) <= Used(S, k) + cost(y, k)
  <2>1. y \in U /\ (y \in S => U = S) /\ (y \notin S => U \ {y} = S) OBVIOUS
  <2> HIDE DEF U
  <2>2. CASE y \in S
    <3>1. U = S BY <2>1, <2>2
    <3> QED BY <1>3, <3>1
  <2>3. CASE y \notin S
    <3>1. U \ {y} = S /\ y \in U BY <2>1, <2>3
    <3>2. Used(U, k) = cost(y, k) + Used(U \ {y}, k) BY <1>1, <3>1, UsedWith
    <3>3. Used(U, k) = cost(y, k) + Used(S, k) BY <3>1, <3>2
    <3> DEFINE a == cost(y, k)
               b == Used(S, k)
               c == Used(U, k)
    <3>4. a \in Nat /\ b \in Nat /\ c = a + b BY <1>3, <3>3
    <3> HIDE DEF a, b, c
    <3>5. c <= b + a BY <3>4
    <3> QED BY <3>5 DEF a, b, c
  <2> QED BY <2>2, <2>3
<1>5. Used(T, k) \in Nat
  <2>1. IsFiniteSet(T) /\ Costs(T, k) BY <1>1, FS_Subset DEF Costs
  <2> QED BY <2>1, UsedType
<1> QED BY <1>2, <1>3, <1>4, <1>5

-----------------------------------------------------------------------------
(* The limits. *)

LEMMA CapacityStep ==
    ASSUME Core, WorkerWithinCapacity, [Next]_vars
    PROVE  WorkerWithinCapacity'
<1> SUFFICES ASSUME NEW w \in Workers PROVE Cardinality(HeldBy(w)') <= Capacity[w]
  BY DEF WorkerWithinCapacity, HeldBy
<1>1. /\ IsFiniteSet(HeldBy(w)) /\ Capacity[w] \in Nat
      /\ Cardinality(HeldBy(w)) <= Capacity[w]
      /\ Cardinality(HeldBy(w)) = activeForWorker(w)
  BY OneActivePerJob, FS_Subset, ConfigAssumption
  DEF HeldBy, WorkerWithinCapacity, activeForWorker
<1>2. CASE NoNewAttempts BY <1>1, <1>2, NothingAdded, DoesNotGrow
<1>3. ASSUME NEW j \in Jobs, NEW v \in Workers, ScheduleOne(j, v)
      PROVE  Cardinality(HeldBy(w)') <= Capacity[w]
  <2>1. CASE v = w
    <3>1. Cardinality(HeldBy(w)) < Capacity[w] BY <1>1, <1>3, <2>1 DEF ScheduleOne, Eligible
    <3>2. HeldBy(w)' \subseteq HeldBy(w) \cup {<<j, Len(attempts[j]) + 1>>}
      BY <1>3, OneAdded
    <3> QED BY <1>1, <3>1, <3>2, GrowsByOne
  <2>2. CASE v # w
    <3>1. HeldBy(w)' \subseteq HeldBy(w) BY <1>3, <2>2, OneAdded
    <3> QED BY <1>1, <3>1, DoesNotGrow
  <2> QED BY <2>1, <2>2
<1> QED BY <1>2, <1>3, StepShape

LEMMA TenantStep ==
    ASSUME Core, TenantWithinLimit, [Next]_vars
    PROVE  TenantWithinLimit'
<1> SUFFICES ASSUME NEW t \in Tenants PROVE Cardinality(OfTenant(t)') <= TenantLimit
  BY DEF TenantWithinLimit, OfTenant
<1>1. /\ IsFiniteSet(OfTenant(t)) /\ TenantLimit \in Nat
      /\ Cardinality(OfTenant(t)) <= TenantLimit
      /\ Cardinality(OfTenant(t)) <= activeForTenant(t)
  BY OneActivePerJob, ConfigAssumption DEF OfTenant, TenantWithinLimit
<1>2. CASE NoNewAttempts BY <1>1, <1>2, NothingAdded, DoesNotGrow
<1>3. ASSUME NEW j \in Jobs, NEW w \in Workers, ScheduleOne(j, w)
      PROVE  Cardinality(OfTenant(t)') <= TenantLimit
  <2>1. CASE TenantOf[PipelineOf[j]] = t
    <3>1. activeForTenant(t) < TenantLimit BY <1>3, <2>1 DEF ScheduleOne, Schedulable
    <3>2. activeForTenant(t) \in Nat
      BY PipelineAssumption, FS_Subset, FS_CardinalityType DEF activeForTenant
    <3>3. Cardinality(OfTenant(t)) < TenantLimit
      BY <1>1, <3>1, <3>2, FS_CardinalityType
    <3>4. OfTenant(t)' \subseteq OfTenant(t) \cup {<<j, Len(attempts[j]) + 1>>}
      BY <1>3, OneAdded
    <3> QED BY <1>1, <3>3, <3>4, GrowsByOne
  <2>2. CASE TenantOf[PipelineOf[j]] # t
    <3>1. OfTenant(t)' \subseteq OfTenant(t) BY <1>3, <2>2, OneAdded
    <3> QED BY <1>1, <3>1, DoesNotGrow
  <2> QED BY <2>1, <2>2
<1> QED BY <1>2, <1>3, StepShape

\* The attempts of a worker or tenant reserve what the fold says, in any order.
LEMMA ReservationStep ==
    ASSUME Core, WithinResources, [Next]_vars
    PROVE  WithinResources'
<1> SUFFICES ASSUME NEW k \in Kinds
             PROVE  /\ \A t \in Tenants : Used(OfTenant(t)', k) <= TenantQuota[k]
                    /\ \A w \in Workers : WorkerRes[w][k] > 0 =>
                          Used(HeldBy(w)', k) <= WorkerRes[w][k]
  BY DEF WithinResources, tenantUse, workerUse, OfTenant, HeldBy
<1>1. \A j \in Jobs : Resources[j][k] \in Nat BY ResourceAssumption
<1>2. TenantQuota[k] \in Nat /\ \A w \in Workers : WorkerRes[w][k] \in Int
  BY ResourceAssumption
<1>3. Costs(ActiveIds, k) BY <1>1, ActiveIdsMeaning DEF Costs, cost
<1>4. ASSUME NEW t \in Tenants
      PROVE  /\ IsFiniteSet(OfTenant(t)) /\ Costs(OfTenant(t), k)
             /\ tenantUse(t, k) = Used(OfTenant(t), k)
             /\ Used(OfTenant(t), k) \in Nat /\ Used(OfTenant(t), k) <= TenantQuota[k]
  <2>1. IsFiniteSet(OfTenant(t)) /\ Costs(OfTenant(t), k)
    BY <1>3, OneActivePerJob DEF OfTenant, Costs
  <2>2. Used(OfTenant(t), k) \in Nat BY <2>1, UsedType
  <2> QED BY <2>1, <2>2 DEF WithinResources, OfTenant, tenantUse
<1>5. ASSUME NEW w \in Workers
      PROVE  /\ IsFiniteSet(HeldBy(w)) /\ Costs(HeldBy(w), k)
             /\ workerUse(w, k) = Used(HeldBy(w), k)
             /\ Used(HeldBy(w), k) \in Nat
             /\ WorkerRes[w][k] > 0 => Used(HeldBy(w), k) <= WorkerRes[w][k]
  <2>1. IsFiniteSet(HeldBy(w)) /\ Costs(HeldBy(w), k)
    BY <1>3, OneActivePerJob, FS_Subset DEF HeldBy, Costs
  <2>2. Used(HeldBy(w), k) \in Nat BY <2>1, UsedType
  <2> QED BY <2>1, <2>2 DEF WithinResources, HeldBy, workerUse
<1>6. ASSUME NEW S, IsFiniteSet(S), Costs(S, k), NEW T, T \subseteq S,
             NEW n \in Int, Used(S, k) <= n
      PROVE  Used(T, k) <= n
  <2>1. Used(T, k) <= Used(S, k) BY <1>6, UsedShrinks
  <2>2. IsFiniteSet(T) /\ Costs(T, k) BY <1>6, FS_Subset DEF Costs
  <2>3. Used(S, k) \in Nat /\ Used(T, k) \in Nat BY <1>6, <2>2, UsedType
  <2> QED BY <1>6, <2>1, <2>3
<1>7. CASE NoNewAttempts
  <2>1. \A t : OfTenant(t)' \subseteq OfTenant(t) BY <1>7, NothingAdded
  <2>2. \A w : HeldBy(w)' \subseteq HeldBy(w) BY <1>7, NothingAdded
  <2>3. \A t \in Tenants : Used(OfTenant(t)', k) <= TenantQuota[k]
    BY <1>2, <1>4, <1>6, <2>1
  <2>4. \A w \in Workers : WorkerRes[w][k] > 0 => Used(HeldBy(w)', k) <= WorkerRes[w][k]
    BY <1>2, <1>5, <1>6, <2>2
  <2> QED BY <2>3, <2>4
<1>8. ASSUME NEW j \in Jobs, NEW v \in Workers, ScheduleOne(j, v)
      PROVE  /\ \A t \in Tenants : Used(OfTenant(t)', k) <= TenantQuota[k]
             /\ \A w \in Workers : WorkerRes[w][k] > 0 =>
                   Used(HeldBy(w)', k) <= WorkerRes[w][k]
  <2> DEFINE new == <<j, Len(attempts[j]) + 1>>
  <2>1. cost(new, k) = Resources[j][k] BY DEF cost
  <2>2. /\ \A w : HeldBy(w)' \subseteq HeldBy(w) \cup {new}
        /\ \A w : w # v => HeldBy(w)' \subseteq HeldBy(w)
        /\ \A t : OfTenant(t)' \subseteq OfTenant(t) \cup {new}
        /\ \A t : t # TenantOf[PipelineOf[j]] => OfTenant(t)' \subseteq OfTenant(t)
    BY <1>8, OneAdded
  <2> HIDE DEF new
  <2>3. ASSUME NEW S, IsFiniteSet(S), Costs(S, k), NEW T, T \subseteq S \cup {new},
               NEW n \in Int, Used(S, k) + Resources[j][k] <= n
        PROVE  Used(T, k) <= n
    <3>1. Used(T, k) <= Used(S, k) + cost(new, k) BY <1>1, <2>1, <2>3, UsedGrows
    <3>2. IsFiniteSet(S \cup {new}) /\ Costs(S \cup {new}, k)
      BY <1>1, <2>1, <2>3, FS_AddElement DEF Costs
    <3>3. IsFiniteSet(T) /\ Costs(T, k) BY <2>3, <3>2, FS_Subset DEF Costs
    <3>4. Used(S, k) \in Nat /\ Used(T, k) \in Nat BY <2>3, <3>3, UsedType
    <3> QED BY <1>1, <2>1, <2>3, <3>1, <3>4
  <2>4. ASSUME NEW t \in Tenants PROVE Used(OfTenant(t)', k) <= TenantQuota[k]
    <3>1. CASE t = TenantOf[PipelineOf[j]]
      <4>1. Used(OfTenant(t), k) + Resources[j][k] <= TenantQuota[k]
        BY <1>4, <1>8, <3>1 DEF ScheduleOne, Schedulable
      <4> QED BY <1>2, <1>4, <2>2, <2>3, <4>1
    <3>2. CASE t # TenantOf[PipelineOf[j]] BY <1>2, <1>4, <1>6, <2>2, <3>2
    <3> QED BY <3>1, <3>2
  <2>5. ASSUME NEW w \in Workers, WorkerRes[w][k] > 0
        PROVE  Used(HeldBy(w)', k) <= WorkerRes[w][k]
    <3>1. CASE w = v
      <4>1. Used(HeldBy(w), k) + Resources[j][k] <= WorkerRes[w][k]
        BY <1>5, <1>8, <2>5, <3>1 DEF ScheduleOne, Eligible, HasRoom
      <4> QED BY <1>2, <1>5, <2>2, <2>3, <4>1
    <3>2. CASE w # v BY <1>2, <1>5, <1>6, <2>2, <2>5, <3>2
    <3> QED BY <3>1, <3>2
  <2> QED BY <2>4, <2>5
<1> QED BY <1>7, <1>8, StepShape

OpenJobs == {j \in Jobs : open(job[j])}

LEMMA QueueStep ==
    ASSUME Core, QueueBounded, [Next]_vars
    PROVE  QueueBounded'
<1>1. /\ IsFiniteSet(OpenJobs) /\ MaxQueuedJobs \in Nat
      /\ Cardinality(OpenJobs) <= MaxQueuedJobs
      /\ Cardinality(OpenJobs) = queuedCount
  <2>1. OpenJobs = {j \in Jobs : job[j] \in State /\ ~terminal(job[j])}
    BY DEF OpenJobs, open, terminal, State
  <2>2. IsFiniteSet(OpenJobs) BY PipelineAssumption, FS_Subset DEF OpenJobs
  <2> QED BY <2>1, <2>2, ConfigAssumption DEF OpenJobs, open, QueueBounded, queuedCount
<1>2. CASE NoNewJobs
  <2>1. OpenJobs' \subseteq OpenJobs BY <1>2 DEF NoNewJobs, OpenJobs
  <2>2. Cardinality(OpenJobs') <= MaxQueuedJobs BY <1>1, <2>1, DoesNotGrow
  <2> QED BY <2>2 DEF QueueBounded, OpenJobs, open
<1>3. ASSUME NEW p \in Pipelines, Submit(p) PROVE QueueBounded'
  <2>1. \A j \in Jobs : open(job'[j]) => j \in JobsOf(p) \/ open(job[j])
    BY <1>3, AttemptType, KeptByCancellation DEF Submit
  <2>2. OpenJobs' \subseteq OpenJobs \cup JobsOf(p) BY <2>1 DEF OpenJobs
  <2>3. IsFiniteSet(JobsOf(p)) BY PipelineAssumption, FS_Subset DEF JobsOf
  <2>4. /\ IsFiniteSet(OpenJobs \cup JobsOf(p))
        /\ Cardinality(OpenJobs \cup JobsOf(p)) <= Cardinality(OpenJobs) + Cardinality(JobsOf(p))
    <3>1. IsFiniteSet(OpenJobs \cap JobsOf(p)) BY <1>1, FS_Intersection
    <3>2. /\ Cardinality(OpenJobs) \in Nat /\ Cardinality(JobsOf(p)) \in Nat
          /\ Cardinality(OpenJobs \cap JobsOf(p)) \in Nat
      BY <1>1, <2>3, <3>1, FS_CardinalityType
    <3>3. /\ IsFiniteSet(OpenJobs \cup JobsOf(p))
          /\ Cardinality(OpenJobs \cup JobsOf(p)) =
                Cardinality(OpenJobs) + Cardinality(JobsOf(p))
                   - Cardinality(OpenJobs \cap JobsOf(p))
      BY <1>1, <2>3, FS_Union
    <3> QED BY <3>2, <3>3
  <2>5. Cardinality(OpenJobs) + Cardinality(JobsOf(p)) <= MaxQueuedJobs
    BY <1>1, <1>3 DEF Submit
  <2>6. /\ Cardinality(OpenJobs \cup JobsOf(p)) \in Nat
        /\ Cardinality(OpenJobs) \in Nat /\ Cardinality(JobsOf(p)) \in Nat
    BY <1>1, <2>3, <2>4, FS_CardinalityType
  <2>7. Cardinality(OpenJobs \cup JobsOf(p)) <= MaxQueuedJobs
    BY <1>1, <2>4, <2>5, <2>6
  <2>8. Cardinality(OpenJobs') <= MaxQueuedJobs BY <1>1, <2>2, <2>4, <2>7, DoesNotGrow
  <2> QED BY <2>8 DEF QueueBounded, OpenJobs, open
<1> QED BY <1>2, <1>3, StepShape

\* Prune waits until nothing is expired, and until EndTick nothing but a lease,
\* with its full time, changes an attempt: the clock stands still in a tick.
LEMMA ExpiryStep ==
    ASSUME Core, RestOK, NothingExpiredWhileScheduling, [Next]_vars
    PROVE  NothingExpiredWhileScheduling'
<1> DEFINE Good(a) == active(a.status) => a.lease > 0 /\ a.left > 0
           AllGood == \A j \in Jobs : \A n \in DOMAIN attempts[j] : Good(attempts[j][n])
<1>1. tick = "schedule" => AllGood
  BY ActiveIdsMeaning DEF NothingExpiredWhileScheduling
<1>2. SUFFICES ASSUME tick' = "schedule" PROVE AllGood'
  BY DEF NothingExpiredWhileScheduling, ActiveIds, AttemptIds
<1>3. ASSUME NEW retained \in SUBSET Pipelines, Prune(retained) PROVE AllGood'
  <2>1. AllGood
    <3> SUFFICES ASSUME NEW j \in Jobs, NEW n \in DOMAIN attempts[j],
                        active(attempts[j][n].status)
                 PROVE  attempts[j][n].lease > 0 /\ attempts[j][n].left > 0
      OBVIOUS
    <3>1. <<j, n>> \in AttemptIds BY DEF AttemptIds
    <3>2. ~Expired(attempts[j][n])
      <4>1. \A a \in AttemptIds : ~Expired(attempts[a[1]][a[2]]) BY <1>3 DEF Prune
      <4> QED BY <3>1, <4>1
    <3>3. attempts[j][n].lease \in Nat /\ attempts[j][n].left \in Nat
      BY AttemptType DEF Attempt
    <3> QED BY <3>2, <3>3 DEF Expired
  <2>2. \A j \in Jobs : attempts'[j] = << >> \/ attempts'[j] = attempts[j]
    BY <1>3 DEF Prune
  <2> QED BY <2>1, <2>2
<1>4. ASSUME NEW j \in Jobs, NEW w \in Workers, ScheduleOne(j, w) PROVE AllGood'
  <2> DEFINE a == [worker |-> w, status |-> "LEASED", lease |-> LeaseTTL,
                   left |-> jobTimeout(j)]
  <2>1. AllGood BY <1>1, <1>4 DEF ScheduleOne
  <2>2. LeaseTTL > 0 /\ jobTimeout(j) > 0
    BY PipelineAssumption, ConfigAssumption DEF jobTimeout
  <2>3. Good(a) BY <2>2
  <2>4. \A k \in Jobs : attempts'[k] = IF k = j THEN Append(attempts[j], a) ELSE attempts[k]
    BY <1>4 DEF ScheduleOne, Core
  <2> HIDE DEF a
  <2>5. attempts[j] \in Seq(Attempt) BY AttemptType
  <2>6. \A n \in DOMAIN Append(attempts[j], a) :
          \/ Append(attempts[j], a)[n] = a
          \/ n \in DOMAIN attempts[j] /\ Append(attempts[j], a)[n] = attempts[j][n]
    <3>1. /\ DOMAIN Append(attempts[j], a) = 1 .. Len(attempts[j]) + 1
          /\ Append(attempts[j], a)[Len(attempts[j]) + 1] = a
          /\ \A i \in 1 .. Len(attempts[j]) : Append(attempts[j], a)[i] = attempts[j][i]
      BY <2>5
    <3>2. DOMAIN attempts[j] = 1 .. Len(attempts[j]) /\ Len(attempts[j]) \in Nat BY <2>5
    <3> QED BY <3>1, <3>2
  <2>7. \A n \in DOMAIN Append(attempts[j], a) : Good(Append(attempts[j], a)[n])
    BY <2>1, <2>3, <2>6
  <2> QED BY <2>1, <2>4, <2>7
<1>5. CASE UNCHANGED vars BY <1>1, <1>2, <1>5 DEF vars
<1>6. ASSUME Request \/ Advance \/ BeginTick \/ EndTick PROVE FALSE
  BY <1>2, <1>6 DEF Request, Submit, ClosePR, CancelJob, RegisterWorker, HeartbeatWorker,
                    HeartbeatAttempt, Finish, Advance, BeginTick, EndTick
<1>7. ASSUME NEW j \in Jobs, NEW n \in DOMAIN attempts[j], ExpireAttempt(j, n) PROVE FALSE
  BY <1>2, <1>7 DEF ExpireAttempt
<1> QED BY <1>3, <1>4, <1>5, <1>6, <1>7 DEF Next, TickStep

\* Everything the scheduler keeps.
Limits ==
    /\ NothingExpiredWhileScheduling /\ QueueBounded
    /\ TenantWithinLimit /\ WorkerWithinCapacity /\ WithinResources

LEMMA InitLimits == Init => Limits
<1> SUFFICES ASSUME Init PROVE Limits OBVIOUS
<1>1. ActiveIds = {} /\ ~(tick = "schedule") BY DEF Init, ActiveIds, AttemptIds
<1>2. {j \in Jobs : job[j] \in {"QUEUED", "LEASED", "RUNNING"}} = {} BY DEF Init
<1>3. \A n \in Nat : Cardinality({}) <= n BY FS_EmptySet
<1>4. QueueBounded BY <1>2, <1>3, ConfigAssumption DEF QueueBounded
<1>5. TenantWithinLimit BY <1>1, <1>3, ConfigAssumption DEF TenantWithinLimit
<1>6. WorkerWithinCapacity
  <2>1. \A w \in Workers : {a \in ActiveIds : attempts[a[1]][a[2]].worker = w} = {}
    BY <1>1
  <2> QED BY <1>3, <2>1, ConfigAssumption DEF WorkerWithinCapacity
<1>7. WithinResources
  <2>1. \A k \in Kinds : \A S : S = {} => Used(S, k) = 0
    BY FS_EmptySet, UsedType DEF Costs
  <2>2. \A k \in Kinds : /\ \A t : tenantUse(t, k) = 0
                         /\ \A w : workerUse(w, k) = 0
    BY <1>1, <2>1 DEF tenantUse, workerUse
  <2>3. \A k \in Kinds : TenantQuota[k] \in Nat /\ \A w \in Workers : WorkerRes[w][k] \in Int
    BY ResourceAssumption
  <2> QED BY <2>2, <2>3 DEF WithinResources
<1> QED BY <1>1, <1>4, <1>5, <1>6, <1>7 DEF Limits, NothingExpiredWhileScheduling

LEMMA LimitsStep == Inv /\ Limits /\ [Next]_vars => Limits'
BY InvMeaning, ExpiryStep, QueueStep, TenantStep, CapacityStep, ReservationStep
DEF Limits

\* The limits hold in every state the store can reach.
THEOREM LimitsHold == Spec => []Limits
<1>1. Inv /\ Limits /\ [Next]_vars => Limits' BY LimitsStep
<1> QED BY <1>1, InitLimits, InvariantHolds, PTL DEF Spec

\* ScheduleOne never meets an attempt whose lease or time-out has passed: the
\* reconcileExpiredLocked call it starts with changes nothing.
THEOREM NothingToReconcile == Spec => []NothingExpiredWhileScheduling
BY LimitsHold, PTL DEF Limits

\* The jobs that are not over never exceed MaxQueuedJobs (Submit).
THEOREM QueueStaysBounded == Spec => []QueueBounded
BY LimitsHold, PTL DEF Limits

\* A tenant's active attempts never exceed its limit (ScheduleOne).
THEOREM TenantsStayWithinLimit == Spec => []TenantWithinLimit
BY LimitsHold, PTL DEF Limits

\* A worker's active attempts never exceed its capacity (selectWorkerLocked).
THEOREM WorkersStayWithinCapacity == Spec => []WorkerWithinCapacity
BY LimitsHold, PTL DEF Limits

\* What the attempts of a tenant or worker reserve never exceeds the tenant's
\* quota or the worker's CPU and memory (usedResourcesLocked).
THEOREM ReservationsFit == Spec => []WithinResources
BY LimitsHold, PTL DEF Limits

-----------------------------------------------------------------------------
(* The turns of the tenants. *)

\* u was served while t waited, once at most, and t has its turn before u.
Waiting ==
    /\ overtakes \in [Tenants -> [Tenants -> 0 .. 1]]
    /\ \A t, u \in Tenants : overtakes[t][u] = 1 => TurnBefore(lastTenant, t, u)

\* The rotation: the tenant just served comes last, and the tenants that have
\* not been passed stay in order when the rotation moves on to v.
LEMMA TurnsRotate ==
    ASSUME NEW l \in Nat, NEW t \in Nat, NEW u \in Nat, NEW v \in Nat
    PROVE  /\ ~(TurnBefore(l, t, u) /\ TurnBefore(l, u, t))
           /\ t # u => TurnBefore(u, t, u)
           /\ TurnBefore(l, v, t) /\ TurnBefore(l, t, u) => TurnBefore(v, t, u)
BY DEF TurnBefore

\* Only ScheduleOne serves a tenant.
LEMMA ServedByLease ==
    ASSUME RestOK, [Next]_vars
    PROVE  \/ leased' <= leased /\ lastTenant' = lastTenant
           \/ ~(leased' <= leased) /\ \E j \in Jobs, w \in Workers : ScheduleOne(j, w)
<1>1. leased \in Nat BY ConfigAssumption DEF RestOK
<1>2. ASSUME UNCHANGED <<leased, lastTenant>>
      PROVE  leased' <= leased /\ lastTenant' = lastTenant
  BY <1>1, <1>2
<1>3. Request \/ BeginTick \/ Advance \/ UNCHANGED vars => UNCHANGED <<leased, lastTenant>>
  BY DEF Request, Submit, ClosePR, CancelJob, RegisterWorker, HeartbeatWorker,
         HeartbeatAttempt, Finish, Advance, BeginTick, vars
<1>4. ASSUME NEW j \in Jobs, NEW n \in DOMAIN attempts[j], ExpireAttempt(j, n)
      PROVE  UNCHANGED <<leased, lastTenant>>
  BY <1>4 DEF ExpireAttempt
<1>5. ASSUME NEW retained \in SUBSET Pipelines, Prune(retained)
      PROVE  UNCHANGED <<leased, lastTenant>>
  BY <1>5 DEF Prune
<1>6. EndTick => leased' <= leased /\ lastTenant' = lastTenant BY <1>1 DEF EndTick
<1>7. ASSUME NEW j \in Jobs, NEW w \in Workers, ScheduleOne(j, w) PROVE ~(leased' <= leased)
  BY <1>1, <1>7 DEF ScheduleOne
<1> QED BY <1>2, <1>3, <1>4, <1>5, <1>6, <1>7 DEF Next, TickStep

\* A tenant that is passed over has its turn after the one that is served.
LEMMA ServedFirst ==
    ASSUME NEW j \in Jobs, NEW w \in Workers, ScheduleOne(j, w),
           NEW t \in Tenants, Ready(t), t # lastTenant'
    PROVE  TurnBefore(lastTenant, lastTenant', t)
<1>1. lastTenant' = TenantOf[PipelineOf[j]] BY DEF ScheduleOne
<1>2. PICK k \in Jobs : TenantOf[PipelineOf[k]] = t /\ Schedulable(k) BY DEF Ready
<1>3. Before(j, k) BY <1>1, <1>2 DEF ScheduleOne
<1> QED BY <1>1, <1>2, <1>3 DEF Before

LEMMA WaitingStep ==
    ASSUME RestOK, Waiting, [FairNext]_<<vars, overtakes>>
    PROVE  Waiting'
<1>1. [Next]_vars BY DEF FairNext, vars
<1>2. CASE overtakes' = overtakes /\ lastTenant' = lastTenant BY <1>2 DEF Waiting
<1>3. CASE FairNext /\ ~(leased' <= leased)
  <2>1. PICK j \in Jobs, w \in Workers : ScheduleOne(j, w)
    BY <1>1, <1>3, ServedByLease
  <2>2. lastTenant' \in Tenants /\ Tenants \subseteq Nat /\ lastTenant \in Nat
    BY <2>1, PipelineAssumption DEF ScheduleOne, Tenants, RestOK
  <2>3. overtakes' =
          [t \in Tenants |->
              IF t = lastTenant' \/ ~Ready(t) THEN Fresh
              ELSE [overtakes[t] EXCEPT ![lastTenant'] = IF @ < 2 THEN @ + 1 ELSE 2]]
    BY <1>3 DEF FairNext
  <2>4. ASSUME NEW t \in Tenants
        PROVE  /\ overtakes'[t] \in [Tenants -> 0 .. 1]
               /\ \A u \in Tenants : overtakes'[t][u] = 1 => TurnBefore(lastTenant', t, u)
    <3>1. CASE t = lastTenant' \/ ~Ready(t) BY <2>3, <3>1 DEF Fresh
    <3>2. CASE t # lastTenant' /\ Ready(t)
      <4>1. TurnBefore(lastTenant, lastTenant', t) BY <2>1, <3>2, ServedFirst
      <4>2. overtakes[t] \in [Tenants -> 0 .. 1] BY DEF Waiting
      <4>3. overtakes[t][lastTenant'] = 0
        <5>1. overtakes[t][lastTenant'] = 1 => FALSE
          BY <2>2, <4>1, TurnsRotate DEF Waiting
        <5> QED BY <2>2, <4>2, <5>1
      <4>4. overtakes'[t] = [overtakes[t] EXCEPT ![lastTenant'] = 1]
        BY <2>3, <3>2, <4>3
      <4>5. ASSUME NEW u \in Tenants, overtakes'[t][u] = 1
            PROVE  TurnBefore(lastTenant', t, u)
        <5>1. CASE u = lastTenant' BY <2>2, <3>2, <5>1, TurnsRotate
        <5>2. CASE u # lastTenant'
          <6>1. TurnBefore(lastTenant, t, u) BY <2>2, <4>2, <4>4, <4>5, <5>2 DEF Waiting
          <6> QED BY <2>2, <4>1, <6>1, TurnsRotate
        <5> QED BY <5>1, <5>2
      <4> QED BY <2>2, <4>2, <4>4, <4>5
    <3> QED BY <3>1, <3>2
  <2> QED BY <2>3, <2>4 DEF Waiting
<1>4. CASE FairNext /\ leased' <= leased
  BY <1>1, <1>2, <1>4, ServedByLease DEF FairNext
<1>5. CASE UNCHANGED <<vars, overtakes>> BY <1>2, <1>5 DEF vars
<1> QED BY <1>3, <1>4, <1>5

\* The invariant of the rotation, over the steps of all ticks.
THEOREM WaitingHolds == FairSpec => []Waiting
<1>1. FairSpec => Spec
  <2>1. [FairNext]_<<vars, overtakes>> => [Next]_vars BY DEF FairNext, vars
  <2> QED BY <2>1, PTL DEF FairSpec, Spec, FairInit
<1>2. FairInit => Waiting BY DEF FairInit, Waiting, Fresh
<1>3. Inv /\ Waiting /\ [FairNext]_<<vars, overtakes>> => Waiting'
  BY InvMeaning, WaitingStep
<1> QED BY <1>1, <1>2, <1>3, InvariantHolds, PTL DEF FairSpec

\* No tenant with a job that could run is passed over twice for the same tenant
\* (ScheduleOne's rotation), for any number of tenants, jobs and workers.
THEOREM RotationIsFair == FairSpec => []NotOvertakenTwice
<1>1. Waiting => NotOvertakenTwice BY DEF Waiting, NotOvertakenTwice
<1> QED BY <1>1, WaitingHolds, PTL

=============================================================================
