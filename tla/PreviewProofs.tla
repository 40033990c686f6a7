----------------------------- MODULE PreviewProofs -----------------------------
(***************************************************************************)
(* Proofs about PreviewController.  The controller acts on what it read    *)
(* some time ago, so the invariant puts the readings in order.  The        *)
(* previews of a pull request follow each other: an owner of a later       *)
(* generation comes after one of an earlier generation, and of the same    *)
(* owner the removal comes after the preview (NotAfter); no pipeline gets  *)
(* the preview back once it has lost it (Spent).  Then                     *)
(*                                                                         *)
(*    Lifetimes  the store's previews follow that order,                   *)
(*    Views      an observation is no newer than the reading the           *)
(*               controller still has to act on, which is no newer than    *)
(*               the preview of the store, and                             *)
(*    Truth      what was observed, of the preview that is still stored,   *)
(*               is still so, and nothing left to do will change it.       *)
(***************************************************************************)
EXTENDS PreviewController, PullRequestsProofs

\* Pipeline p has ended, and it will not get the preview any more.
Ended(p) == status[p] \notin {"NONE", "OPEN"}
Spent(p) == /\ Ended(p)
            /\ gen[p] < prState[PRNumber[p]].gen \/ now >= created[p] + TTL[p]

\* The preview was in state v no later than in state w.
NotAfter(v, w) ==
    \/ gen[v.owner] < gen[w.owner]
    \/ v.owner = w.owner /\ (v.desired = "DELETING" => w.desired = "DELETING")

\* The owner of v is an ended pipeline of the pull request.
Owned(pr, v) == v.owner \in Messages /\ PRNumber[v.owner] = pr /\ Ended(v.owner)

Lifetimes ==
    /\ \A p, q \in Messages : p # q /\ PRNumber[p] = PRNumber[q] /\ PRNumber[p] > 0
                                /\ status[p] # "NONE" /\ status[q] # "NONE" => gen[p] # gen[q]
    /\ \A p \in Messages : created[p] <= now
    /\ \A pr \in PRs : preview[pr] # NoPreview =>
          LET p == preview[pr].owner
          IN  /\ Owned(pr, preview[pr])
              /\ created[p] + TTL[p] <= preview[pr].expires
              /\ preview[pr].desired = "DELETING" => Spent(p)

\* v is a reading of the preview of pr, now or in the past.
Past(pr, v) ==
    /\ Owned(pr, v)
    /\ preview[pr] = NoPreview => Spent(v.owner)
    /\ preview[pr] # NoPreview => NotAfter(v, preview[pr])

Views ==
    /\ \A e \in todo : Past(e[1], e[2])
    /\ \A r \in report \cup late : Past(r.pr, r.seen)
    /\ \A e, f \in todo : e[1] = f[1] => e = f
    /\ \A r \in report \cup late : \A e \in todo : r.pr = e[1] => NotAfter(r.seen, e[2])

\* The namespace of pr runs pipeline p, or is gone.
Up(pr, p) == namespace[pr].phase = "live" /\ namespace[pr].app = p
Down(pr) == namespace[pr].phase = "absent"

\* What was observed is so while the preview is still the one that was read.
ReportTrue(r) ==
    /\ r.actual = "ACTIVE" =>
          /\ r.seen.desired = "ACTIVE"
          /\ preview[r.pr].desired = "ACTIVE" /\ preview[r.pr].owner = r.seen.owner =>
                Up(r.pr, r.seen.owner)
    /\ r.actual = "DELETED" =>
          /\ r.seen.desired = "DELETING"
          /\ preview[r.pr].owner = r.seen.owner => Down(r.pr)

\* What the store believes is so, and no entry of this round will undo it.
StateTrue(pr) ==
    /\ preview[pr].desired = "ACTIVE" /\ preview[pr].actual = "ACTIVE" =>
          /\ Up(pr, preview[pr].owner)
          /\ \A e \in todo : e[1] = pr => e[2].owner = preview[pr].owner
    /\ preview[pr].actual = "DELETED" =>
          /\ preview[pr].desired = "DELETING" /\ Down(pr)
          /\ \A e \in todo : e[1] = pr =>
                e[2].owner = preview[pr].owner /\ e[2].desired = "DELETING"
    /\ preview[pr] = NoPreview =>
          Down(pr) /\ \A e \in todo : e[1] = pr => e[2].desired = "DELETING"

Truth ==
    /\ \A r \in report \cup late : ReportTrue(r)
    /\ \A pr \in PRs : StateTrue(pr)

ControllerInv == ControllerTypeOK /\ Inv /\ Lifetimes /\ Views /\ Truth

-----------------------------------------------------------------------------
(* The order of the readings. *)

\* The order has no cycles: of two readings each no later than the other, the owner
\* is the same.
LEMMA SameOwner ==
    ASSUME gen \in [Messages -> Nat], NEW v, NEW w, NEW u,
           v.owner \in Messages, w.owner \in Messages, u.owner = v.owner,
           NotAfter(v, w), NotAfter(w, u)
    PROVE  /\ w.owner = v.owner
           /\ v.desired = "DELETING" => w.desired = "DELETING"
           /\ w.desired = "DELETING" => u.desired = "DELETING"
<1>1. gen[v.owner] \in Nat /\ gen[w.owner] \in Nat /\ gen[u.owner] = gen[v.owner] OBVIOUS
<1>2. ~(gen[v.owner] < gen[w.owner] /\ gen[w.owner] < gen[v.owner]) BY <1>1
<1>3. ~(gen[v.owner] < gen[v.owner]) BY <1>1
<1> QED BY <1>1, <1>2, <1>3 DEF NotAfter

\* The owner of a stored preview is an ended pipeline of the pull request.
LEMMA OwnerFacts ==
    ASSUME Inv, Lifetimes, NEW pr \in PRs, preview[pr] # NoPreview
    PROVE  /\ preview[pr] \in Preview
           /\ preview[pr].owner \in Messages /\ PRNumber[preview[pr].owner] = pr
           /\ Ended(preview[pr].owner) /\ pr > 0
BY MessageFacts DEF Inv, TypeOK, Lifetimes, Owned, PRs

\* A pull request's number is positive.
LEMMA NumberPositive == ASSUME NEW pr \in PRs PROVE pr \in Nat /\ pr > 0
BY MessageAssumption DEF PRs

-----------------------------------------------------------------------------
(* What a step of the store does to ended pipelines. *)

\* An ended pipeline stays ended and keeps its generation and its creation; the
\* generations and the clock only rise.
Onwards ==
    /\ \A p \in Messages : Ended(p) => Ended(p)' /\ gen'[p] = gen[p] /\ created'[p] = created[p]
    /\ \A pr \in PRs : prState[pr].gen <= prState'[pr].gen
    /\ now <= now'

\* Every step of the store goes onwards.
LEMMA StoreOnwards ==
    ASSUME Inv, StoreNext
    PROVE  Onwards
<1> USE DEF Inv
<1>1. now \in Nat BY MessageAssumption DEF TypeOK
<1>2. \A pr \in PRs : prState[pr].gen \in Nat BY DEF TypeOK
<1>3. ASSUME UNCHANGED submitVars, now <= now',
             \A p \in Messages : status'[p] = status[p]
                \/ (status[p] \in {"OPEN", "SUCCEEDED", "FAILED", "CANCELLED"}
                      /\ status'[p] \in {"SUCCEEDED", "FAILED", "CANCELLED", "PRUNED"})
      PROVE  Onwards
  BY <1>2, <1>3 DEF Onwards, Ended, submitVars
<1>4. ASSUME NEW m \in Messages, Submit(m) PROVE Onwards
  <2>1. now' = now BY <1>4 DEF Submit, IgnoreStale, Share, Accept, Close
  <2>2. status[m] = "NONE" BY <1>4, FreshFacts DEF Submit, IgnoreStale, Share, Accept, Close
  <2>3. \A p \in Messages : Ended(p) =>
          status'[p] = status[p] /\ gen'[p] = gen[p] /\ created'[p] = created[p]
    <3> SUFFICES ASSUME NEW p \in Messages, Ended(p)
                 PROVE  status'[p] = status[p] /\ gen'[p] = gen[p] /\ created'[p] = created[p]
      OBVIOUS
    <3>1. p # m BY <2>2 DEF Ended
    <3>2. CancelOlder(m)[p] = status[p] BY DEF CancelOlder, Ended
    <3>3. [CancelOlder(m) EXCEPT ![m] = "OPEN"][p] = status[p] BY <3>1, <3>2 DEF CancelOlder
    <3>4. CASE IgnoreStale(m) \/ Share(m) BY <3>4 DEF IgnoreStale, Share
    <3>5. CASE Accept(m) BY <3>1, <3>3, <3>5 DEF Accept, TypeOK
    <3>6. CASE Close(m) BY <3>2, <3>6 DEF Close
    <3> QED BY <1>4, <3>4, <3>5, <3>6 DEF Submit
  <2>4. \A pr \in PRs : prState[pr].gen <= prState'[pr].gen
    <3> SUFFICES ASSUME NEW pr \in PRs PROVE prState[pr].gen <= prState'[pr].gen OBVIOUS
    <3>1. prState[pr].gen \in Nat BY <1>2
    <3>2. CASE IgnoreStale(m) BY <3>1, <3>2 DEF IgnoreStale
    <3>3. CASE Share(m)
      <4>1. prState'[pr].gen = prState[pr].gen BY <3>3 DEF Share, TypeOK
      <4> QED BY <3>1, <4>1
    <3>4. CASE Accept(m) \/ Close(m)
      <4>1. supersede(m) BY <3>4 DEF Accept, Close
      <4>2. prState'[pr].gen = prState[pr].gen
            \/ (PRNumber[m] > 0 /\ pr = PRNumber[m] /\ prState'[pr].gen = Previous(m).gen + 1)
        BY <4>1, MessageFacts DEF supersede, TypeOK
      <4>3. PRNumber[m] > 0 /\ pr = PRNumber[m] => Previous(m).gen = prState[pr].gen
        BY DEF Previous
      <4> QED BY <3>1, <4>2, <4>3
    <3> QED BY <1>4, <3>2, <3>3, <3>4 DEF Submit
  <2> QED BY <1>1, <2>1, <2>3, <2>4 DEF Onwards, Ended
<1>5. ASSUME NEW p \in Messages, Succeed(p) \/ Fail(p) \/ CancelJob(p) PROVE Onwards
  <2>1. UNCHANGED <<now, submitVars>> BY <1>5 DEF Succeed, Fail, CancelJob
  <2>2. \A q \in Messages : status'[q] = status[q]
          \/ (status[q] = "OPEN" /\ status'[q] \in {"SUCCEEDED", "FAILED", "CANCELLED"})
    BY <1>5 DEF Succeed, Fail, CancelJob, TypeOK
  <2> QED BY <1>1, <1>3, <2>1, <2>2
<1>6. CASE Tick
  <2>1. UNCHANGED <<now, submitVars>> BY <1>6 DEF Tick
  <2>2. \E gone : /\ \A p \in gone : Over(p)
                  /\ status' = [p \in Messages |-> IF p \in gone THEN "PRUNED" ELSE status[p]]
    BY <1>6 DEF Tick, Pruned
  <2>3. \A q \in Messages : status'[q] = status[q]
          \/ (status[q] \in {"SUCCEEDED", "FAILED", "CANCELLED"} /\ status'[q] = "PRUNED")
    BY <2>2 DEF Over
  <2> QED BY <1>1, <1>3, <2>1, <2>3
<1>7. CASE Advance
  <2>1. now' = now + 1 /\ UNCHANGED <<submitVars, status>> BY <1>7 DEF Advance
  <2> QED BY <1>1, <1>3, <2>1
<1> QED BY <1>4, <1>5, <1>6, <1>7 DEF StoreNext

\* A pipeline that was spent stays so.
LEMMA SpentStays ==
    ASSUME Inv, Inv', Onwards, NEW p \in Messages, PRNumber[p] \in PRs, Spent(p)
    PROVE  Spent(p)'
<1> DEFINE a == prState[PRNumber[p]].gen
           b == prState'[PRNumber[p]].gen
           c == created[p] + TTL[p]
<1>1. a \in Nat /\ b \in Nat /\ gen[p] \in Nat /\ c \in Nat /\ now \in Nat /\ now' \in Nat
  BY MessageFacts, MessageAssumption DEF Inv, TypeOK
<1>2. a <= b /\ now <= now' /\ Ended(p)' /\ gen'[p] = gen[p] /\ created'[p] + TTL[p] = c
  BY DEF Onwards, Spent
<1>3. gen[p] < a \/ now >= c BY DEF Spent
<1> HIDE DEF a, b, c
<1>4. gen[p] < b \/ now' >= c BY <1>1, <1>2, <1>3
<1> QED BY <1>2, <1>4 DEF Spent, b, c

-----------------------------------------------------------------------------
(* What a step of the store does to the preview of a pull request. *)

\* Its removal is asked for, and its owner will not have it again.
TakenDown(pr) ==
    /\ preview[pr] # NoPreview /\ preview'[pr] # NoPreview
    /\ preview'[pr].desired = "DELETING" /\ preview'[pr].actual = preview[pr].actual
    /\ preview'[pr].expires = preview[pr].expires
    /\ \E q \in Messages : preview[pr].owner = q /\ preview'[pr].owner = q /\ Spent(q)'

\* It is gone from the namespace and is forgotten.
Forgotten(pr) ==
    /\ preview[pr].desired = "DELETING" /\ preview[pr].actual = "DELETED"
    /\ preview'[pr] = NoPreview

\* Pipeline p gets it, which no pipeline that is spent comes after.
RaisedFor(pr, p) ==
    /\ preview[pr] = NoPreview
       \/ (preview[pr].desired = "DELETING" /\ preview[pr].actual = "DELETED")
    /\ PRNumber[p] = pr
    /\ preview'[pr] # NoPreview
    /\ preview'[pr].desired = "ACTIVE" /\ preview'[pr].actual = "PENDING"
    /\ preview'[pr].owner = p /\ preview'[pr].expires = now + TTL[p]
    /\ Ended(p)'
    /\ gen'[p] = gen[p]
    /\ \A q \in Messages : PRNumber[q] = pr /\ Spent(q) => gen[q] < gen[p]
Raised(pr) == \E p \in Messages : RaisedFor(pr, p)

PreviewStep(pr) ==
    preview'[pr] = preview[pr] \/ TakenDown(pr) \/ Forgotten(pr) \/ Raised(pr)

\* A record that is to be removed keeps all but the request.
LEMMA DeletingFacts ==
    ASSUME NEW v \in Preview, NEW g \in Nat
    PROVE  LET w == Deleting(v, g)
           IN  /\ w.desired = "DELETING" /\ w.owner = v.owner /\ w.actual = v.actual
               /\ w.expires = v.expires /\ w # NoPreview
BY PreviewTypes DEF Deleting, Preview

\* A newer event takes the preview down (supersede).
LEMMA SupersedeSteps ==
    ASSUME Inv, Lifetimes, Inv', Onwards, NEW m \in Messages, supersede(m), NEW pr \in PRs
    PROVE  PreviewStep(pr)
<1> USE DEF Inv
<1> DEFINE g == Previous(m).gen + 1
<1>1. CASE PRNumber[m] # pr
  BY <1>1, MessageFacts DEF supersede, PreviewStep, TypeOK
<1>2. CASE PRNumber[m] = pr /\ preview[pr] = NoPreview
  BY <1>2 DEF supersede, PreviewStep, Superseded, TypeOK
<1>3. CASE PRNumber[m] = pr /\ preview[pr] # NoPreview
  <2>1. preview[pr] \in Preview /\ preview[pr].owner \in Messages
        /\ PRNumber[preview[pr].owner] = pr /\ Ended(preview[pr].owner) /\ pr > 0
    BY <1>3, OwnerFacts
  <2> PICK q \in Messages : q = preview[pr].owner BY <2>1
  <2>2. Previous(m).gen = prState[pr].gen /\ prState[pr].gen \in Nat
    BY <1>3, <2>1 DEF Previous, TypeOK
  <2>3. g \in Nat BY <2>2
  <2>4. preview'[pr] = Deleting(preview[pr], g) /\ prState'[pr].gen = g
    BY <1>3, <2>1 DEF supersede, Superseded, TypeOK
  <2>5. gen[q] <= prState[pr].gen /\ gen[q] \in Nat BY <2>1 DEF Bookkeeping, TypeOK
  <2>6. Ended(q)' /\ gen'[q] = gen[q] BY <2>1 DEF Onwards
  <2>7. gen'[q] < prState'[pr].gen BY <2>2, <2>4, <2>5, <2>6
  <2>8. Spent(q)' BY <2>1, <2>6, <2>7 DEF Spent
  <2> HIDE DEF g
  <2>9. TakenDown(pr) BY <1>3, <2>1, <2>3, <2>4, <2>8, DeletingFacts DEF TakenDown
  <2> QED BY <2>9 DEF PreviewStep
<1> QED BY <1>1, <1>2, <1>3

\* While a preview is to be up no other pipeline of its pull request is open.
LEMMA NoneOpenBesideActive ==
    ASSUME Inv, Lifetimes, NEW p \in Messages, status[p] = "OPEN",
           NEW pr \in PRs, PRNumber[p] = pr
    PROVE  preview[pr].desired # "ACTIVE"
<1> SUFFICES ASSUME preview[pr].desired = "ACTIVE" PROVE FALSE OBVIOUS
<1> DEFINE q == preview[pr].owner
<1>1. preview[pr] # NoPreview BY DEF NoPreview
<1>2. q \in Messages /\ PRNumber[q] = pr /\ Ended(q) /\ pr > 0 BY <1>1, OwnerFacts
<1>3. gen[q] = prState[pr].gen BY DEF Inv, ActiveIsCurrent
<1>4. q # p BY <1>2 DEF Ended
<1>5. gen[p] = prState[pr].gen /\ gen[q] # gen[p] BY <1>2, <1>4 DEF Inv, OneOpenPipeline
<1> QED BY <1>3, <1>5

\* A pipeline that may have the preview and is not spent comes after all that are.
LEMMA AfterAllSpent ==
    ASSUME Inv, Lifetimes, NEW p \in Messages, MayActivate(p), ~Spent(p), status[p] # "NONE",
           NEW q \in Messages, PRNumber[q] = PRNumber[p], Spent(q)
    PROVE  gen[q] < gen[p]
<1>1. PRNumber[p] > 0 /\ gen[p] = prState[PRNumber[p]].gen BY DEF MayActivate
<1>2. q # p /\ status[q] # "NONE" BY DEF Spent, Ended
<1>3. gen[q] # gen[p] BY <1>1, <1>2 DEF Lifetimes
<1>4. gen[q] <= gen[p] BY <1>1 DEF Inv, Bookkeeping
<1>5. gen[q] \in Nat /\ gen[p] \in Nat BY DEF Inv, TypeOK
<1> QED BY <1>3, <1>4, <1>5

\* activatePreviewLocked raises the preview.
LEMMA ActivationRaises ==
    ASSUME Inv, Lifetimes, Onwards, UNCHANGED submitVars,
           NEW pr \in PRs, NEW p \in Messages, PRNumber[p] = pr, MayActivate(p),
           status[p] # "NONE", ~Spent(p), Ended(p)', preview'[pr] = Activated(p),
           preview[pr] = NoPreview
              \/ (preview[pr].desired = "DELETING" /\ preview[pr].actual = "DELETED")
    PROVE  PreviewStep(pr)
<1>1. \A q \in Messages : PRNumber[q] = pr /\ Spent(q) => gen[q] < gen[p] BY AfterAllSpent
<1>2. gen'[p] = gen[p] BY DEF submitVars
<1>3. Activated(p) # NoPreview
  <2>1. Activated(p).desired # NoPreview.desired BY DEF Activated, NoPreview
  <2> QED BY <2>1
<1>4. /\ preview'[pr].desired = "ACTIVE" /\ preview'[pr].actual = "PENDING"
      /\ preview'[pr].owner = p /\ preview'[pr].expires = now + TTL[p]
  BY DEF Activated
<1>5. preview'[pr] # NoPreview BY <1>3
<1>6. RaisedFor(pr, p) BY <1>1, <1>2, <1>4, <1>5 DEF RaisedFor
<1> QED BY <1>6 DEF PreviewStep, Raised

\* A result may raise the preview, if none is stored (Finish).
LEMMA SucceedSteps ==
    ASSUME Inv, Lifetimes, Onwards, NEW m \in Messages, Succeed(m), NEW pr \in PRs
    PROVE  PreviewStep(pr)
<1> USE DEF Inv
<1>1. status[m] = "OPEN" /\ UNCHANGED submitVars BY DEF Succeed
<1>2. CASE preview'[pr] = preview[pr] BY <1>2 DEF PreviewStep
<1>3. CASE preview'[pr] # preview[pr]
  <2>1. pr = PRNumber[m] /\ MayActivate(m) /\ preview[pr].desired # "DELETING"
        /\ preview'[pr] = Activated(m)
    BY <1>3 DEF Succeed, TypeOK
  <2>2. preview[pr].desired # "ACTIVE" BY <1>1, <2>1, NoneOpenBesideActive
  <2>3. preview[pr] = NoPreview BY <2>1, <2>2 DEF TypeOK, Preview
  <2>4. ~Spent(m) BY <1>1 DEF Spent, Ended
  <2>5. Ended(m)' BY <1>1 DEF Succeed, Ended, TypeOK
  <2> QED BY <1>1, <2>1, <2>3, <2>4, <2>5, ActivationRaises
<1> QED BY <1>2, <1>3

\* A cancelled job finds no preview of its pull request that is to be up.
LEMMA CancelJobSteps ==
    ASSUME Inv, Lifetimes, NEW m \in Messages, CancelJob(m), NEW pr \in PRs
    PROVE  PreviewStep(pr)
<1> USE DEF Inv
<1>1. CASE pr # PRNumber[m] BY <1>1, MessageFacts DEF CancelJob, PreviewStep, TypeOK
<1>2. CASE pr = PRNumber[m]
  <2>1. preview[pr].desired # "ACTIVE" BY <1>2, NoneOpenBesideActive DEF CancelJob
  <2> QED BY <1>2, <2>1 DEF CancelJob, PreviewStep
<1> QED BY <1>1, <1>2

\* A tick takes down what has expired, forgets what is gone and raises what waited.
LEMMA TickSteps ==
    ASSUME Inv, Lifetimes, Onwards, Tick, NEW pr \in PRs,
           preview[pr].actual = "DELETED" => preview[pr].desired = "DELETING"
    PROVE  PreviewStep(pr)
<1> USE DEF Inv
<1> DEFINE reconciled == [q \in PRs |-> Reconciled(preview[q])]
           gone == Pruned(reconciled)
           v == preview[pr]
           w == Deleting(v, v.gen + 1)
<1>1. UNCHANGED <<now, submitVars>> BY DEF Tick
<1>2. preview'[pr] = Reconciled(v)
      \/ (Reconciled(v) = NoPreview
            /\ \E p \in Deferred(pr, gone) : preview'[pr] = Activated(p))
  BY DEF Tick
<1>3. Reconciled(v) = NoPreview =>
        v = NoPreview \/ (v.desired = "DELETING" /\ v.actual = "DELETED")
  <2>1. CASE v.desired = "ACTIVE" /\ now >= v.expires
    <3>1. v \in Preview BY <2>1, OwnerType
    <3>2. v.gen + 1 \in Nat BY <3>1 DEF Preview
    <3>3. w # NoPreview /\ w.actual = v.actual BY <3>1, <3>2, DeletingFacts
    <3>4. Reconciled(v) = Removed(w) BY <2>1 DEF Reconciled
    <3>5. v.actual # "DELETED" BY <2>1
    <3> HIDE DEF w
    <3> QED BY <3>3, <3>4, <3>5 DEF Removed
  <2>2. CASE ~(v.desired = "ACTIVE" /\ now >= v.expires)
    <3>1. Reconciled(v) = Removed(v) BY <2>2 DEF Reconciled
    <3> QED BY <3>1 DEF Removed
  <2> QED BY <2>1, <2>2
<1>4. CASE preview'[pr] = Reconciled(v)
  <2>1. CASE v.desired = "ACTIVE" /\ now >= v.expires
    <3>1. v \in Preview BY <2>1, OwnerType
    <3>2. v.gen + 1 \in Nat BY <3>1 DEF Preview
    <3>3. w # NoPreview /\ w.actual = v.actual /\ w.owner = v.owner /\ w.desired = "DELETING"
          /\ w.expires = v.expires
      BY <3>1, <3>2, DeletingFacts
    <3>4. Reconciled(v) = w
      <4>1. Reconciled(v) = Removed(w) BY <2>1 DEF Reconciled
      <4>2. v.actual # "DELETED" BY <2>1
      <4> HIDE DEF w
      <4> QED BY <3>3, <4>1, <4>2 DEF Removed
    <3>5. v # NoPreview BY <2>1 DEF NoPreview
    <3> PICK q \in Messages : q = v.owner BY <3>1 DEF Preview
    <3>6. Ended(q) /\ created[q] + TTL[q] <= v.expires BY <3>5, OwnerFacts DEF Lifetimes
    <3>7. Ended(q)' /\ created'[q] = created[q] /\ now' = now BY <1>1, <3>6 DEF Onwards
    <3>8. now' >= created'[q] + TTL[q]
      <4> DEFINE c == created[q] + TTL[q]
                 x == v.expires
      <4>1. c \in Nat BY <3>6, MessageFacts DEF TypeOK
      <4>2. x \in Nat /\ now \in Nat BY <3>1, MessageAssumption DEF Preview, TypeOK
      <4>3. c <= x /\ now >= x BY <2>1, <3>6
      <4> HIDE DEF c, x
      <4>4. now >= c BY <4>1, <4>2, <4>3
      <4> QED BY <3>7, <4>4 DEF c
    <3>9. Spent(q)' BY <3>7, <3>8 DEF Spent
    <3> HIDE DEF w
    <3> QED BY <1>4, <3>3, <3>4, <3>5, <3>9 DEF TakenDown, PreviewStep
  <2>2. CASE ~(v.desired = "ACTIVE" /\ now >= v.expires)
    <3>1. Reconciled(v) = Removed(v) BY <2>2 DEF Reconciled
    <3> QED BY <1>4, <3>1 DEF Removed, Forgotten, PreviewStep
  <2> QED BY <2>1, <2>2
<1>5. ASSUME Reconciled(v) = NoPreview, NEW p \in Deferred(pr, gone), preview'[pr] = Activated(p)
      PROVE  PreviewStep(pr)
  <2>1. p \in Messages /\ PRNumber[p] = pr /\ status[p] = "SUCCEEDED" /\ MayActivate(p)
        /\ now < created[p] + TTL[p]
    BY <1>5 DEF Deferred, Window
  <2>2. ~Spent(p)
    <3>1. gen[p] = prState[pr].gen /\ gen[p] \in Nat BY <2>1 DEF MayActivate, TypeOK
    <3>2. now \in Nat /\ created[p] + TTL[p] \in Nat
      BY <2>1, MessageFacts, MessageAssumption DEF TypeOK
    <3> QED BY <2>1, <3>1, <3>2 DEF Spent
  <2>3. Ended(p)' BY <2>1 DEF Onwards, Ended
  <2> QED BY <1>1, <1>3, <1>5, <2>1, <2>2, <2>3, ActivationRaises
<1> QED BY <1>2, <1>4, <1>5

\* Every step of the store leaves the preview, takes it down, forgets or raises it.
LEMMA PreviewSteps ==
    ASSUME Inv, Lifetimes, Inv', Onwards, StoreNext, NEW pr \in PRs,
           preview[pr].actual = "DELETED" => preview[pr].desired = "DELETING"
    PROVE  PreviewStep(pr)
<1>1. ASSUME NEW m \in Messages, Submit(m) PROVE PreviewStep(pr)
  <2>1. CASE IgnoreStale(m) \/ Share(m) BY <2>1 DEF IgnoreStale, Share, PreviewStep
  <2>2. CASE Accept(m) \/ Close(m) BY <2>2, SupersedeSteps DEF Accept, Close
  <2> QED BY <1>1, <2>1, <2>2 DEF Submit
<1>2. ASSUME NEW m \in Messages, Fail(m) PROVE PreviewStep(pr) BY <1>2 DEF Fail, PreviewStep
<1>3. CASE Advance BY <1>3 DEF Advance, PreviewStep
<1> QED BY <1>1, <1>2, <1>3, SucceedSteps, CancelJobSteps, TickSteps DEF StoreNext

-----------------------------------------------------------------------------
(* What a step of the store does to the invariant. *)

\* Two readings keep their order.
LEMMA OrderStays ==
    ASSUME Onwards, NEW v, NEW w, v.owner \in Messages, w.owner \in Messages,
           Ended(v.owner), Ended(w.owner), NotAfter(v, w)
    PROVE  NotAfter(v, w)'
<1>1. gen'[v.owner] = gen[v.owner] /\ gen'[w.owner] = gen[w.owner] BY DEF Onwards
<1> QED BY <1>1 DEF NotAfter

\* A reading of the past stays one.
LEMMA PastStays ==
    ASSUME Inv, Lifetimes, Inv', Onwards, NEW pr \in PRs, PreviewStep(pr), NEW v, Past(pr, v)
    PROVE  Past(pr, v)'
<1> DEFINE p == v.owner
<1> p \in Messages /\ PRNumber[p] = pr /\ Ended(p) BY DEF Past, Owned
<1> pr \in Nat /\ pr > 0 BY NumberPositive
<1> HIDE DEF p
<1>1. Ended(p)' /\ gen'[p] = gen[p] /\ gen[p] \in Nat BY DEF Onwards, Inv, TypeOK
<1>2. Owned(pr, v)' BY <1>1 DEF Owned, p
<1>3. Spent(p) => Spent(p)' BY SpentStays
<1>4. CASE preview'[pr] = preview[pr] /\ preview[pr] = NoPreview
  BY <1>2, <1>3, <1>4 DEF Past, p
<1>5. CASE preview'[pr] = preview[pr] /\ preview[pr] # NoPreview
  <2> PICK q \in Messages : q = preview[pr].owner BY <1>5, OwnerFacts
  <2>1. gen'[q] = gen[q] BY <1>5, OwnerFacts DEF Onwards
  <2>2. NotAfter(v, preview[pr]) BY <1>5 DEF Past
  <2>3. gen[p] < gen[q] \/ (p = q /\ (v.desired = "DELETING" => preview[pr].desired = "DELETING"))
    BY <2>2 DEF NotAfter, p
  <2>4. NotAfter(v, preview[pr])' BY <1>1, <1>5, <2>1, <2>3 DEF NotAfter, p
  <2> QED BY <1>2, <1>5, <2>4 DEF Past
<1>6. CASE TakenDown(pr)
  <2> PICK q \in Messages : preview[pr].owner = q /\ preview'[pr].owner = q /\ Spent(q)'
    BY <1>6 DEF TakenDown
  <2>1. preview[pr] # NoPreview /\ preview'[pr] # NoPreview /\ preview'[pr].desired = "DELETING"
    BY <1>6 DEF TakenDown
  <2>2. gen'[q] = gen[q] BY <2>1, OwnerFacts DEF Onwards
  <2>3. gen[p] < gen[q] \/ p = q BY <2>1 DEF Past, NotAfter, p
  <2>4. NotAfter(v, preview[pr])' BY <1>1, <2>1, <2>2, <2>3 DEF NotAfter, p
  <2> QED BY <1>2, <2>1, <2>4 DEF Past
<1>7. CASE Forgotten(pr)
  <2>1. preview[pr] # NoPreview /\ preview[pr].desired = "DELETING" /\ preview'[pr] = NoPreview
    BY <1>7 DEF Forgotten, NoPreview
  <2> PICK q \in Messages : q = preview[pr].owner BY <2>1, OwnerFacts
  <2>2. Spent(q) BY <2>1 DEF Lifetimes
  <2>3. gen[p] < gen[q] \/ p = q BY <2>1 DEF Past, NotAfter, p
  <2>4. Spent(p)
    <3>1. CASE p = q BY <2>2, <3>1
    <3>2. CASE gen[p] < gen[q]
      <4>1. PRNumber[q] = pr BY <2>1, OwnerFacts
      <4>2. gen[q] <= prState[pr].gen /\ gen[q] \in Nat /\ prState[pr].gen \in Nat
        BY <4>1 DEF Inv, Bookkeeping, TypeOK
      <4>3. gen[p] < prState[pr].gen BY <1>1, <3>2, <4>2
      <4> QED BY <4>3 DEF Spent
    <3> QED BY <2>3, <3>1, <3>2
  <2> QED BY <1>2, <1>3, <2>1, <2>4 DEF Past, p
<1>8. CASE Raised(pr)
  <2> PICK q \in Messages : RaisedFor(pr, q) BY <1>8 DEF Raised
  <2>1. preview'[pr] # NoPreview /\ preview'[pr].owner = q /\ gen'[q] = gen[q] BY DEF RaisedFor
  <2>2. gen[p] < gen[q]
    <3>1. CASE preview[pr] = NoPreview
      <4>1. Spent(p) BY <3>1 DEF Past, p
      <4> QED BY <4>1 DEF RaisedFor
    <3>2. CASE preview[pr] # NoPreview
      <4> PICK o \in Messages : o = preview[pr].owner BY <3>2, OwnerFacts
      <4>1. preview[pr].desired = "DELETING" BY <3>2 DEF RaisedFor
      <4>2. Spent(o) /\ PRNumber[o] = pr BY <3>2, <4>1, OwnerFacts DEF Lifetimes
      <4>3. gen[o] < gen[q] BY <4>2 DEF RaisedFor
      <4>4. gen[p] < gen[o] \/ p = o BY <3>2 DEF Past, NotAfter, p
      <4>5. gen[o] \in Nat /\ gen[q] \in Nat BY DEF Inv, TypeOK
      <4> QED BY <1>1, <4>3, <4>4, <4>5
    <3> QED BY <3>1, <3>2
  <2>3. NotAfter(v, preview[pr])' BY <1>1, <2>1, <2>2 DEF NotAfter, p
  <2> QED BY <1>2, <2>1, <2>3 DEF Past
<1> QED BY <1>4, <1>5, <1>6, <1>7, <1>8 DEF PreviewStep

\* A reading of a preview that was raised is none of the one that was read before.
LEMMA RaisedIsNew ==
    ASSUME Inv, Lifetimes, NEW pr \in PRs, NEW q \in Messages, RaisedFor(pr, q),
           NEW v, Past(pr, v)
    PROVE  v.owner # q
<1> SUFFICES ASSUME v.owner = q PROVE FALSE OBVIOUS
<1>1. gen[q] \in Nat BY DEF Inv, TypeOK
<1>2. ~(gen[q] < gen[q]) BY <1>1
<1>3. CASE preview[pr] = NoPreview
  <2>1. Spent(q) /\ PRNumber[q] = pr BY <1>3 DEF Past, RaisedFor
  <2> QED BY <1>2, <2>1 DEF RaisedFor
<1>4. CASE preview[pr] # NoPreview
  <2> PICK o \in Messages : o = preview[pr].owner BY <1>4, OwnerFacts
  <2>1. preview[pr].desired = "DELETING" BY <1>4 DEF RaisedFor
  <2>2. Spent(o) /\ PRNumber[o] = pr BY <1>4, <2>1, OwnerFacts DEF Lifetimes
  <2>3. gen[o] < gen[q] BY <2>2 DEF RaisedFor
  <2>4. gen[q] < gen[o] \/ q = o BY <1>4 DEF Past, NotAfter
  <2>5. gen[o] \in Nat BY DEF Inv, TypeOK
  <2> QED BY <1>1, <2>3, <2>4, <2>5
<1> QED BY <1>3, <1>4

\* The generation of a new pipeline is its own.
LEMMA StoreKeepsDistinct ==
    ASSUME Inv, Lifetimes, StoreNext
    PROVE  \A p, q \in Messages : p # q /\ PRNumber[p] = PRNumber[q] /\ PRNumber[p] > 0
              /\ status'[p] # "NONE" /\ status'[q] # "NONE" => gen'[p] # gen'[q]
<1> USE DEF Inv
<1>1. ASSUME UNCHANGED gen, \A p \in Messages : status[p] = "NONE" => status'[p] = "NONE"
      PROVE  \A p, q \in Messages : p # q /\ PRNumber[p] = PRNumber[q] /\ PRNumber[p] > 0
               /\ status'[p] # "NONE" /\ status'[q] # "NONE" => gen'[p] # gen'[q]
  BY <1>1 DEF Lifetimes
<1>2. ASSUME NEW m \in Messages, Accept(m)
      PROVE  \A p, q \in Messages : p # q /\ PRNumber[p] = PRNumber[q] /\ PRNumber[p] > 0
               /\ status'[p] # "NONE" /\ status'[q] # "NONE" => gen'[p] # gen'[q]
  <2>1. \A p \in Messages \ {m} : gen'[p] = gen[p] /\ (status[p] = "NONE" => status'[p] = "NONE")
    <3>1. \A p \in Messages : status[p] = "NONE" => CancelOlder(m)[p] = "NONE"
      BY DEF CancelOlder
    <3>2. \A p \in Messages \ {m} : status'[p] = CancelOlder(m)[p]
      BY <1>2 DEF Accept, CancelOlder
    <3> QED BY <1>2, <3>1, <3>2 DEF Accept, TypeOK
  <2>2. PRNumber[m] > 0 =>
          \A p \in Messages \ {m} : PRNumber[p] = PRNumber[m] => gen'[p] < gen'[m]
    <3> SUFFICES ASSUME PRNumber[m] > 0, NEW p \in Messages \ {m}, PRNumber[p] = PRNumber[m]
                 PROVE  gen'[p] < gen'[m]
      OBVIOUS
    <3>1. gen'[m] = prState[PRNumber[m]].gen + 1 BY <1>2 DEF Accept, Previous, TypeOK
    <3>2. gen[p] <= prState[PRNumber[m]].gen BY DEF Bookkeeping
    <3>3. gen[p] \in Nat /\ prState[PRNumber[m]].gen \in Nat BY MessageFacts DEF TypeOK
    <3> QED BY <2>1, <3>1, <3>2, <3>3
  <2>3. \A p \in Messages : gen'[p] \in Nat
    <3>1. prState[PRNumber[m]].gen + 1 \in Nat \/ ~(PRNumber[m] > 0)
      BY MessageFacts DEF TypeOK
    <3>2. gen'[m] \in Nat BY <1>2, <3>1 DEF Accept, Previous, TypeOK
    <3> QED BY <2>1, <3>2 DEF TypeOK
  <2> SUFFICES ASSUME NEW p \in Messages, NEW q \in Messages, p # q,
                      PRNumber[p] = PRNumber[q], PRNumber[p] > 0,
                      status'[p] # "NONE", status'[q] # "NONE"
               PROVE  gen'[p] # gen'[q]
    OBVIOUS
  <2>4. CASE p = m BY <2>2, <2>3, <2>4
  <2>5. CASE q = m BY <2>2, <2>3, <2>5
  <2>6. CASE p # m /\ q # m BY <2>1, <2>6 DEF Lifetimes
  <2> QED BY <2>4, <2>5, <2>6
<1>3. ASSUME NEW m \in Messages, IgnoreStale(m) \/ Share(m) \/ Close(m)
      PROVE  UNCHANGED gen /\ \A p \in Messages : status[p] = "NONE" => status'[p] = "NONE"
  <2>1. \A p \in Messages : status[p] = "NONE" => CancelOlder(m)[p] = "NONE"
    BY DEF CancelOlder
  <2> QED BY <1>3, <2>1 DEF IgnoreStale, Share, Close
<1>4. ASSUME NEW m \in Messages, Succeed(m) \/ Fail(m) \/ CancelJob(m)
      PROVE  UNCHANGED gen /\ \A p \in Messages : status[p] = "NONE" => status'[p] = "NONE"
  BY <1>4 DEF Succeed, Fail, CancelJob, submitVars, TypeOK
<1>5. ASSUME Tick
      PROVE  UNCHANGED gen /\ \A p \in Messages : status[p] = "NONE" => status'[p] = "NONE"
  <2>1. \E gone : /\ \A p \in gone : Over(p)
                  /\ status' = [p \in Messages |-> IF p \in gone THEN "PRUNED" ELSE status[p]]
    BY <1>5 DEF Tick, Pruned
  <2>2. UNCHANGED gen BY <1>5 DEF Tick, submitVars
  <2> QED BY <2>1, <2>2 DEF Over
<1>6. ASSUME Advance
      PROVE  UNCHANGED gen /\ \A p \in Messages : status[p] = "NONE" => status'[p] = "NONE"
  BY <1>6 DEF Advance, submitVars
<1> QED BY <1>1, <1>2, <1>3, <1>4, <1>5, <1>6 DEF StoreNext, Submit

\* No pipeline was created in the future.
LEMMA StoreKeepsCreated ==
    ASSUME Inv, Lifetimes, StoreNext
    PROVE  \A p \in Messages : created'[p] <= now'
<1> USE DEF Inv
<1>1. now \in Nat BY MessageAssumption DEF TypeOK
<1>2. \A p \in Messages : created[p] \in Nat /\ created[p] <= now BY DEF TypeOK, Lifetimes
<1>3. ASSUME NEW m \in Messages, Accept(m) PROVE \A p \in Messages : created'[p] <= now'
  <2>1. now' = now /\ \A p \in Messages : created'[p] = created[p] \/ created'[p] = now
    BY <1>3 DEF Accept, TypeOK
  <2> QED BY <1>1, <1>2, <2>1
<1>4. ASSUME UNCHANGED created, now' = now \/ now' = now + 1
      PROVE  \A p \in Messages : created'[p] <= now'
  BY <1>1, <1>2, <1>4
<1> QED BY <1>3, <1>4 DEF StoreNext, Submit, IgnoreStale, Share, Close, Succeed, Fail, CancelJob,
                          Tick, Advance, submitVars

\* The previews that are stored go on in order.
LEMMA StoreKeepsLifetimes ==
    ASSUME Inv, Lifetimes, Inv', Onwards, StoreNext, \A pr \in PRs : PreviewStep(pr)
    PROVE  Lifetimes'
<1> SUFFICES ASSUME NEW pr \in PRs, preview'[pr] # NoPreview
             PROVE  /\ Owned(pr, preview[pr])'
                    /\ created'[preview'[pr].owner] + TTL[preview'[pr].owner] <= preview'[pr].expires
                    /\ preview'[pr].desired = "DELETING" => Spent(preview[pr].owner)'
  BY StoreKeepsDistinct, StoreKeepsCreated DEF Lifetimes
<1>1. CASE preview'[pr] = preview[pr]
  <2> PICK q \in Messages : q = preview[pr].owner BY <1>1, OwnerFacts
  <2>1. PRNumber[q] = pr /\ Ended(q) BY <1>1, OwnerFacts
  <2>2. Ended(q)' /\ created'[q] = created[q] BY <2>1 DEF Onwards
  <2>3. created[q] + TTL[q] <= preview[pr].expires BY <1>1 DEF Lifetimes
  <2>4. preview[pr].desired = "DELETING" => Spent(q) BY <1>1 DEF Lifetimes
  <2>5. preview[pr].desired = "DELETING" => Spent(q)' BY <2>1, <2>4, SpentStays
  <2> QED BY <1>1, <2>1, <2>2, <2>3, <2>5 DEF Owned
<1>2. CASE TakenDown(pr)
  <2> PICK q \in Messages : preview[pr].owner = q /\ preview'[pr].owner = q /\ Spent(q)'
    BY <1>2 DEF TakenDown
  <2>1. preview[pr] # NoPreview /\ preview'[pr].expires = preview[pr].expires
    BY <1>2 DEF TakenDown
  <2>2. PRNumber[q] = pr /\ Ended(q) BY <2>1, OwnerFacts
  <2>3. Ended(q)' /\ created'[q] = created[q] BY <2>2 DEF Onwards
  <2>4. created[q] + TTL[q] <= preview[pr].expires BY <2>1 DEF Lifetimes
  <2> QED BY <2>1, <2>2, <2>3, <2>4 DEF Owned
<1>3. CASE Forgotten(pr) BY <1>3 DEF Forgotten
<1>4. CASE Raised(pr)
  <2> PICK q \in Messages : RaisedFor(pr, q) BY <1>4 DEF Raised
  <2>1. PRNumber[q] = pr /\ preview'[pr].owner = q /\ preview'[pr].expires = now + TTL[q]
        /\ Ended(q)' /\ preview'[pr].desired = "ACTIVE"
    BY DEF RaisedFor
  <2>2. created'[q] <= now
    <3>1. now' = now
      <4>1. ~Advance
        <5>1. preview'[pr] # preview[pr] BY <2>1 DEF RaisedFor, NoPreview
        <5> QED BY <5>1 DEF Advance
      <4> QED BY <4>1 DEF StoreNext, Submit, IgnoreStale, Share, Accept, Close, Succeed, Fail,
                          CancelJob, Tick
    <3> QED BY <3>1, StoreKeepsCreated
  <2>3. created'[q] \in Nat /\ now \in Nat /\ TTL[q] \in Nat
    BY MessageFacts, MessageAssumption DEF Inv, TypeOK
  <2> DEFINE c == created'[q]
             t == TTL[q]
  <2>4. c + t <= now + t
    <3>1. c \in Nat /\ t \in Nat /\ c <= now BY <2>2, <2>3
    <3> HIDE DEF c, t
    <3> QED BY <2>3, <3>1
  <2> QED BY <2>1, <2>4 DEF Owned
<1> QED BY <1>1, <1>2, <1>3, <1>4 DEF PreviewStep

\* What was read is still in the past, in the same order.
LEMMA StoreKeepsViews ==
    ASSUME ControllerTypeOK, Inv, Lifetimes, Views, Inv', Onwards, \A pr \in PRs : PreviewStep(pr),
           UNCHANGED <<todo, report, late>>
    PROVE  Views'
<1>1. \A e \in todo : e[1] \in PRs BY DEF ControllerTypeOK
<1>2. \A r \in report \cup late : r.pr \in PRs BY DEF ControllerTypeOK
<1>3. \A e \in todo : Past(e[1], e[2])' BY <1>1, PastStays DEF Views
<1>4. \A r \in report \cup late : Past(r.pr, r.seen)' BY <1>2, PastStays DEF Views
<1>5. \A r \in report \cup late : \A e \in todo :
        r.pr = e[1] => NotAfter(r.seen, e[2])'
  <2> SUFFICES ASSUME NEW r \in report \cup late, NEW e \in todo, r.pr = e[1]
               PROVE  NotAfter(r.seen, e[2])'
    OBVIOUS
  <2>1. NotAfter(r.seen, e[2]) /\ Owned(r.pr, r.seen) /\ Owned(e[1], e[2])
    BY DEF Views, Past
  <2> QED BY <2>1, OrderStays DEF Owned
<1> QED BY <1>3, <1>4, <1>5 DEF Views

\* What was observed of a preview that is still stored stays so.
LEMMA StoreKeepsReports ==
    ASSUME Inv, Lifetimes, Onwards, UNCHANGED namespace,
           NEW r, r.pr \in PRs, Past(r.pr, r.seen), ReportTrue(r), PreviewStep(r.pr)
    PROVE  ReportTrue(r)'
<1> DEFINE pr == r.pr
<1>1. r.seen.owner \in Messages BY DEF Past, Owned
<1>2. CASE preview'[pr] = preview[pr] BY <1>2 DEF ReportTrue, Up, Down
<1>3. CASE TakenDown(pr)
  <2>1. preview'[pr].desired = "DELETING" /\ preview'[pr].owner = preview[pr].owner
    BY <1>3 DEF TakenDown
  <2> QED BY <2>1 DEF ReportTrue, Down
<1>4. CASE Forgotten(pr)
  <2>1. preview'[pr].desired = "NONE" /\ preview'[pr].owner \notin Messages
    BY <1>4, MessageAssumption DEF Forgotten, NoPreview
  <2> QED BY <1>1, <2>1 DEF ReportTrue
<1>5. CASE Raised(pr)
  <2> PICK q \in Messages : RaisedFor(pr, q) BY <1>5 DEF Raised
  <2>1. r.seen.owner # q BY RaisedIsNew
  <2>2. preview'[pr].owner = q BY DEF RaisedFor
  <2> QED BY <2>1, <2>2 DEF ReportTrue
<1> QED BY <1>2, <1>3, <1>4, <1>5 DEF PreviewStep

\* What the store believes stays so.
LEMMA StoreKeepsState ==
    ASSUME UNCHANGED <<namespace, todo>>, NEW pr \in PRs, StateTrue(pr), PreviewStep(pr)
    PROVE  StateTrue(pr)'
<1>1. CASE preview'[pr] = preview[pr] BY <1>1 DEF StateTrue, Up, Down
<1>2. CASE TakenDown(pr)
  <2>1. /\ preview'[pr].desired = "DELETING" /\ preview'[pr].owner = preview[pr].owner
        /\ preview'[pr].actual = preview[pr].actual /\ preview'[pr] # NoPreview
    BY <1>2 DEF TakenDown
  <2> QED BY <2>1 DEF StateTrue, Down
<1>3. CASE Forgotten(pr)
  <2>1. /\ preview[pr].actual = "DELETED"
        /\ preview'[pr].desired = "NONE" /\ preview'[pr].actual = "NONE"
    BY <1>3 DEF Forgotten, NoPreview
  <2> QED BY <2>1 DEF StateTrue, Down
<1>4. CASE Raised(pr)
  <2>1. preview'[pr].actual = "PENDING" /\ preview'[pr] # NoPreview
    BY <1>4 DEF Raised, RaisedFor
  <2> QED BY <2>1 DEF StateTrue
<1> QED BY <1>1, <1>2, <1>3, <1>4 DEF PreviewStep

\* A step of the store keeps the invariant, whatever the controller is doing.
LEMMA StoreStep ==
    ASSUME ControllerInv, StoreNext, UNCHANGED <<namespace, controllerVars>>
    PROVE  ControllerInv'
<1> USE DEF ControllerInv
<1>1. Inv' BY NextInv
<1>2. UNCHANGED <<namespace, todo, report, late>> BY DEF controllerVars
<1>3. ControllerTypeOK' BY <1>1, <1>2 DEF ControllerTypeOK, Inv
<1>4. Onwards BY StoreOnwards
<1>5. \A pr \in PRs : PreviewStep(pr) BY <1>1, <1>4, PreviewSteps DEF Truth, StateTrue
<1>6. Lifetimes' BY <1>1, <1>4, <1>5, StoreKeepsLifetimes
<1>7. Views' BY <1>1, <1>2, <1>4, <1>5, StoreKeepsViews
<1>8. \A r \in report \cup late : ReportTrue(r)'
  <2> SUFFICES ASSUME NEW r \in report \cup late PROVE ReportTrue(r)' OBVIOUS
  <2>1. r.pr \in PRs BY DEF ControllerTypeOK
  <2> QED BY <1>2, <1>4, <1>5, <2>1, StoreKeepsReports DEF Views, Truth
<1>9. \A pr \in PRs : StateTrue(pr)' BY <1>2, <1>5, StoreKeepsState DEF Truth
<1>10. Truth' BY <1>2, <1>8, <1>9 DEF Truth
<1> QED BY <1>1, <1>3, <1>6, <1>7, <1>10

-----------------------------------------------------------------------------
(* What a report that is applied does to the invariant. *)

\* An observation the store accepts is of the preview that is stored, and changes
\* what the store believes alone.
LEMMA ObservationFacts ==
    ASSUME Inv, NEW r, r.pr \in PRs, ObservePreview(r.pr, r.seen, r.actual)
    PROVE  /\ preview[r.pr] # NoPreview /\ preview[r.pr] \in Preview
           /\ preview[r.pr].owner = r.seen.owner /\ preview[r.pr].desired = r.seen.desired
           /\ preview'[r.pr].actual = r.actual /\ preview'[r.pr] # NoPreview
           /\ \A pr \in PRs : /\ preview'[pr].owner = preview[pr].owner
                              /\ preview'[pr].desired = preview[pr].desired
                              /\ preview'[pr].expires = preview[pr].expires
                              /\ preview'[pr] = NoPreview <=> preview[pr] = NoPreview
                              /\ pr # r.pr => preview'[pr] = preview[pr]
           /\ UNCHANGED <<now, submitVars, status>>
<1> USE DEF Inv
<1> DEFINE v == preview[r.pr]
           w == [v EXCEPT !.actual = r.actual]
<1>1. v # NoPreview /\ SameRequest(v, r.seen) /\ preview' = [preview EXCEPT ![r.pr].actual = r.actual]
      /\ UNCHANGED <<now, submitVars, status>>
  BY DEF ObservePreview
<1>2. v \in Preview BY <1>1 DEF TypeOK
<1>3. preview'[r.pr] = w /\ \A pr \in PRs \ {r.pr} : preview'[pr] = preview[pr]
  BY <1>1 DEF TypeOK
<1>4. w.owner = v.owner /\ w.desired = v.desired /\ w.expires = v.expires /\ w.actual = r.actual
  BY <1>2 DEF Preview
<1>5. w # NoPreview
  <2>1. w.desired # "NONE" BY <1>2, <1>4 DEF Preview
  <2>2. NoPreview.desired = "NONE" BY DEF NoPreview
  <2> HIDE DEF w
  <2> QED BY <2>1, <2>2
<1> HIDE DEF w
<1> QED BY <1>1, <1>2, <1>3, <1>4, <1>5 DEF SameRequest

\* The store believes a report only while it is true.
LEMMA ReportStep ==
    ASSUME ControllerInv, NEW r \in report \cup late, ObservePreview(r.pr, r.seen, r.actual),
           UNCHANGED <<namespace, todo>>,
           report' \cup late' \subseteq report \cup late
    PROVE  ControllerInv'
<1> USE DEF ControllerInv
<1>1. r.pr \in PRs /\ r.actual \in {"PENDING", "ACTIVE", "DELETED"} BY DEF ControllerTypeOK
<1>2. /\ preview[r.pr] # NoPreview /\ preview[r.pr] \in Preview
      /\ preview[r.pr].owner = r.seen.owner /\ preview[r.pr].desired = r.seen.desired
      /\ preview'[r.pr].actual = r.actual /\ preview'[r.pr] # NoPreview
      /\ \A pr \in PRs : /\ preview'[pr].owner = preview[pr].owner
                         /\ preview'[pr].desired = preview[pr].desired
                         /\ preview'[pr].expires = preview[pr].expires
                         /\ preview'[pr] = NoPreview <=> preview[pr] = NoPreview
                         /\ pr # r.pr => preview'[pr] = preview[pr]
      /\ UNCHANGED <<now, submitVars, status>>
  BY <1>1, ObservationFacts DEF Inv
<1>3. UNCHANGED <<now, prState, gen, created, status>> BY <1>2 DEF submitVars
<1>4. Inv'
  <2>1. ObservePreview(r.pr, preview[r.pr], r.actual) BY DEF ObservePreview, SameRequest
  <2> QED BY <1>1, <2>1, AnyReportStep DEF AnyReport
<1>5. ControllerTypeOK'
  <2>1. UNCHANGED <<namespace, todo>> OBVIOUS
  <2> QED BY <1>4, <2>1 DEF ControllerTypeOK, Inv
<1>6. Lifetimes'
  <2>1. \A p \in Messages : Spent(p) => Spent(p)' BY <1>3 DEF Spent, Ended
  <2> SUFFICES ASSUME NEW pr \in PRs, preview'[pr] # NoPreview
               PROVE  /\ Owned(pr, preview[pr])'
                      /\ created'[preview'[pr].owner] + TTL[preview'[pr].owner]
                            <= preview'[pr].expires
                      /\ preview'[pr].desired = "DELETING" => Spent(preview[pr].owner)'
    BY <1>3 DEF Lifetimes
  <2> PICK q \in Messages : q = preview[pr].owner BY <1>2, OwnerFacts
  <2>2. preview[pr] # NoPreview BY <1>2
  <2>3. Owned(pr, preview[pr]) /\ created[q] + TTL[q] <= preview[pr].expires
        /\ (preview[pr].desired = "DELETING" => Spent(q))
    BY <2>2 DEF Lifetimes
  <2>4. preview'[pr].owner = q /\ preview'[pr].desired = preview[pr].desired
        /\ preview'[pr].expires = preview[pr].expires
    BY <1>2
  <2> QED BY <1>3, <2>1, <2>3, <2>4 DEF Owned, Ended
<1>7. \A pr \in PRs : \A v : Past(pr, v) => Past(pr, v)'
  <2> SUFFICES ASSUME NEW pr \in PRs, NEW v, Past(pr, v) PROVE Past(pr, v)' OBVIOUS
  <2>1. Owned(pr, v)' BY <1>3 DEF Past, Owned, Ended
  <2>2. preview'[pr] = NoPreview => Spent(v.owner)' BY <1>2, <1>3 DEF Past, Spent, Ended
  <2>3. preview'[pr] # NoPreview => NotAfter(v, preview[pr])'
    BY <1>2, <1>3 DEF Past, NotAfter
  <2> QED BY <2>1, <2>2, <2>3 DEF Past
<1>8. Views'
  <2>1. \A e \in todo' : e[1] \in PRs BY <1>5 DEF ControllerTypeOK
  <2>2. \A x \in report' \cup late' : x \in report \cup late /\ x.pr \in PRs
    BY DEF ControllerTypeOK
  <2>3. \A e \in todo' : Past(e[1], e[2])' BY <1>7, <2>1 DEF Views
  <2>4. \A x \in report' \cup late' : Past(x.pr, x.seen)' BY <1>7, <2>2 DEF Views
  <2>5. \A x \in report' \cup late' : \A e \in todo' : x.pr = e[1] => NotAfter(x.seen, e[2])'
    BY <1>3, <2>2 DEF Views, NotAfter
  <2> QED BY <2>3, <2>4, <2>5 DEF Views
<1>9. \A x \in report' \cup late' : ReportTrue(x)'
  <2> SUFFICES ASSUME NEW x \in report \cup late PROVE ReportTrue(x)' OBVIOUS
  <2>1. x.pr \in PRs BY DEF ControllerTypeOK
  <2> QED BY <1>2, <2>1 DEF Truth, ReportTrue, Up, Down
<1>10. \A e \in todo : e[1] = r.pr =>
         e[2].owner = r.seen.owner /\ (r.seen.desired = "DELETING" => e[2].desired = "DELETING")
  <2> SUFFICES ASSUME NEW e \in todo, e[1] = r.pr
               PROVE  e[2].owner = r.seen.owner
                      /\ (r.seen.desired = "DELETING" => e[2].desired = "DELETING")
    OBVIOUS
  <2>1. NotAfter(r.seen, e[2]) /\ NotAfter(e[2], preview[r.pr])
        /\ r.seen.owner \in Messages /\ e[2].owner \in Messages
    BY <1>2 DEF Views, Past, Owned
  <2> QED BY <1>2, <2>1, SameOwner DEF Inv, TypeOK
<1>11. StateTrue(r.pr)'
  <2>1. ReportTrue(r) BY DEF Truth
  <2>2. CASE r.actual = "PENDING" BY <1>2, <2>2 DEF StateTrue
  <2>3. CASE r.actual = "ACTIVE"
    <3>1. Up(r.pr, r.seen.owner) BY <1>2, <2>1, <2>3 DEF ReportTrue
    <3> QED BY <1>1, <1>2, <1>10, <2>3, <3>1 DEF StateTrue, Up
  <2>4. CASE r.actual = "DELETED"
    <3>1. Down(r.pr) /\ r.seen.desired = "DELETING" BY <1>2, <2>1, <2>4 DEF ReportTrue
    <3> QED BY <1>1, <1>2, <1>10, <2>4, <3>1 DEF StateTrue, Down
  <2> QED BY <1>1, <2>2, <2>3, <2>4
<1>12. \A pr \in PRs : StateTrue(pr)'
  <2> SUFFICES ASSUME NEW pr \in PRs, pr # r.pr PROVE StateTrue(pr)' BY <1>11
  <2>1. preview'[pr] = preview[pr] BY <1>2
  <2> QED BY <2>1 DEF Truth, StateTrue, Up, Down
<1> QED BY <1>4, <1>5, <1>6, <1>8, <1>9, <1>12 DEF Truth

-----------------------------------------------------------------------------
(* What a step of the controller does to the invariant. *)

\* While the store stands still the readings keep their order.
LEMMA StoreStands ==
    ASSUME UNCHANGED storeVars
    PROVE  /\ \A pr, v : Past(pr, v) => Past(pr, v)'
           /\ \A v, w : NotAfter(v, w) => NotAfter(v, w)'
           /\ Lifetimes => Lifetimes'
           /\ Inv => Inv'
<1>1. UNCHANGED <<now, prState, gen, created, status, preview, deliveries, stamp>>
  BY DEF storeVars, submitVars
<1>2. \A p : Spent(p) <=> Spent(p)' BY <1>1 DEF Spent, Ended
<1>3. \A pr, v : Owned(pr, v) <=> Owned(pr, v)' BY <1>1 DEF Owned, Ended
<1>4. \A v, w : NotAfter(v, w) <=> NotAfter(v, w)' BY <1>1 DEF NotAfter
<1>5. \A pr, v : Past(pr, v) => Past(pr, v)'
  <2> SUFFICES ASSUME NEW pr, NEW v, Past(pr, v) PROVE Past(pr, v)' OBVIOUS
  <2>1. Owned(pr, v)' BY <1>3 DEF Past
  <2>2. preview'[pr] = NoPreview => Spent(v.owner)' BY <1>1 DEF Past, Spent, Ended
  <2>3. preview'[pr] # NoPreview => NotAfter(v, preview[pr])' BY <1>1 DEF Past, NotAfter
  <2> QED BY <2>1, <2>2, <2>3 DEF Past
<1>6. Lifetimes => Lifetimes' BY <1>1 DEF Lifetimes, Owned, Ended, Spent
<1>7. Inv => Inv' BY NextInv
<1> QED BY <1>4, <1>5, <1>6, <1>7

\* The controller forgets some of what it read or observed, or moves a report to
\* those that are late.
LEMMA ForgetStep ==
    ASSUME ControllerInv, UNCHANGED <<storeVars, namespace>>,
           todo' \subseteq todo, report' \cup late' \subseteq report \cup late
    PROVE  ControllerInv'
<1> USE DEF ControllerInv
<1>1. UNCHANGED preview BY DEF storeVars
<1>2. Inv' /\ Lifetimes' BY StoreStands
<1>3. ControllerTypeOK' BY <1>2 DEF ControllerTypeOK, Inv
<1>4. Views'
  <2>1. \A e \in todo' : Past(e[1], e[2])' BY StoreStands DEF Views
  <2>2. \A r \in report' \cup late' : Past(r.pr, r.seen)' BY StoreStands DEF Views
  <2>3. \A r \in report' \cup late' : \A e \in todo' :
          r.pr = e[1] => NotAfter(r.seen, e[2])'
    BY StoreStands DEF Views
  <2>4. \A e, f \in todo' : e[1] = f[1] => e = f BY DEF Views
  <2> QED BY <2>1, <2>2, <2>3, <2>4 DEF Views
<1>5. Truth'
  <2>1. \A r \in report' \cup late' : ReportTrue(r)' BY <1>1 DEF Truth, ReportTrue, Up, Down
  <2>2. \A pr \in PRs : StateTrue(pr)' BY <1>1 DEF Truth, StateTrue, Up, Down
  <2> QED BY <2>1, <2>2 DEF Truth
<1> QED BY <1>2, <1>3, <1>4, <1>5

\* A round begins with what the store has.
LEMMA ListStep ==
    ASSUME ControllerInv, List
    PROVE  ControllerInv'
<1> USE DEF ControllerInv
<1>1. todo' = PreviewList /\ UNCHANGED <<storeVars, namespace, report, late>> BY DEF List
<1>2. UNCHANGED preview BY <1>1 DEF storeVars
<1>3. Inv' /\ Lifetimes' BY <1>1, StoreStands
<1>4. \A e \in todo' : /\ e[1] \in PRs /\ e = <<e[1], preview[e[1]]>> /\ e[2] = preview[e[1]]
                       /\ preview[e[1]] # NoPreview
  BY <1>1 DEF PreviewList
<1>5. ControllerTypeOK'
  <2>1. todo' \subseteq PRs \X Preview
    <3> SUFFICES ASSUME NEW e \in todo' PROVE e \in PRs \X Preview OBVIOUS
    <3>1. e[1] \in PRs /\ preview[e[1]] \in Preview /\ e = <<e[1], preview[e[1]]>>
      BY <1>4 DEF Inv, TypeOK
    <3> QED BY <3>1
  <2> QED BY <1>1, <1>3, <2>1 DEF ControllerTypeOK, Inv
<1>6. \A e \in todo' : Past(e[1], e[2])
  <2> SUFFICES ASSUME NEW e \in todo' PROVE Past(e[1], e[2]) OBVIOUS
  <2>1. e[1] \in PRs /\ e[2] = preview[e[1]] /\ preview[e[1]] # NoPreview BY <1>4
  <2>2. Owned(e[1], e[2]) BY <2>1 DEF Lifetimes
  <2>3. NotAfter(e[2], preview[e[1]]) BY <2>1 DEF NotAfter
  <2> QED BY <2>1, <2>2, <2>3 DEF Past
<1>7. Views'
  <2>1. \A e \in todo' : Past(e[1], e[2])' BY <1>1, <1>6, StoreStands
  <2>2. \A r \in report' \cup late' : Past(r.pr, r.seen)' BY <1>1, StoreStands DEF Views
  <2>3. \A r \in report' \cup late' : \A e \in todo' :
          r.pr = e[1] => NotAfter(r.seen, e[2])'
    <3> SUFFICES ASSUME NEW r \in report' \cup late', NEW e \in todo', r.pr = e[1]
                 PROVE  NotAfter(r.seen, e[2])'
      OBVIOUS
    <3>1. Past(r.pr, r.seen) BY <1>1 DEF Views
    <3>2. NotAfter(r.seen, e[2]) BY <1>4, <3>1 DEF Past
    <3> QED BY <1>1, <3>2, StoreStands
  <2>4. \A e, f \in todo' : e[1] = f[1] => e = f
    <3> SUFFICES ASSUME NEW e \in todo', NEW f \in todo', e[1] = f[1] PROVE e = f OBVIOUS
    <3>1. e = <<e[1], preview[e[1]]>> /\ f = <<f[1], preview[f[1]]>> BY <1>4
    <3> QED BY <3>1
  <2> QED BY <2>1, <2>2, <2>3, <2>4 DEF Views
<1>8. Truth'
  <2>1. \A r \in report' \cup late' : ReportTrue(r)'
    BY <1>1, <1>2 DEF Truth, ReportTrue, Up, Down
  <2>2. \A pr \in PRs : StateTrue(pr)'
    <3> SUFFICES ASSUME NEW pr \in PRs PROVE StateTrue(pr)' OBVIOUS
    <3>1. StateTrue(pr) BY DEF Truth
    <3>2. \A e \in todo' : e[1] = pr => e[2] = preview[pr] /\ preview[pr] # NoPreview
      BY <1>4
    <3> QED BY <1>1, <1>2, <3>1, <3>2 DEF StateTrue, Up, Down
  <2> QED BY <2>1, <2>2 DEF Truth
<1> QED BY <1>3, <1>5, <1>7, <1>8

\* The controller deals with entry e: what it reports is so, it takes the deployment
\* of a preview down only on request, and brings one up only on request.
LEMMA EntryStep ==
    ASSUME ControllerInv, NEW pr \in PRs, NEW e \in todo, e[1] = pr,
           NEW actual \in {"PENDING", "ACTIVE", "DELETED"}, Found(e, actual),
           namespace' \in [PRs -> [phase : Phase, app : Messages \cup {0}, ready : BOOLEAN]],
           \A q \in PRs \ {pr} : namespace'[q] = namespace[q],
           e[2].desired = "DELETING" => (Down(pr) => Down(pr)'),
           e[2].desired = "ACTIVE" =>
              \A q \in Messages : q = e[2].owner /\ Up(pr, q) => Up(pr, q)',
           actual = "ACTIVE" => e[2].desired = "ACTIVE"
              /\ \A q \in Messages : q = e[2].owner => Up(pr, q)',
           actual = "DELETED" => e[2].desired = "DELETING" /\ Down(pr)'
    PROVE  ControllerInv'
<1> USE DEF ControllerInv
<1> DEFINE w == e[2]
           new == [pr |-> e[1], seen |-> e[2], actual |-> actual]
<1>1. /\ todo' = todo \ {e} /\ UNCHANGED <<storeVars, late>>
      /\ \A r \in report' : r = new
  BY DEF Found
<1>2. UNCHANGED preview BY <1>1 DEF storeVars
<1>3. Inv' /\ Lifetimes' BY <1>1, StoreStands
<1>4. w \in Preview /\ w.owner \in Messages /\ w.desired \in {"ACTIVE", "DELETING"}
  <2>1. e \in PRs \X Preview BY DEF ControllerTypeOK
  <2>2. w \in Preview BY <2>1
  <2> QED BY <2>2 DEF Preview
<1>5. Past(pr, w) BY DEF Views
<1>6. \A f \in todo' : f \in todo /\ f[1] # pr BY <1>1 DEF Views
<1>7. ControllerTypeOK'
  <2>1. new \in [pr : PRs, seen : Preview, actual : {"PENDING", "ACTIVE", "DELETED"}]
    BY <1>4
  <2> QED BY <1>1, <1>3, <2>1 DEF ControllerTypeOK, Inv
<1>8. Views'
  <2>1. \A f \in todo' : Past(f[1], f[2])' BY <1>1, <1>6, StoreStands DEF Views
  <2>2. \A r \in report' \cup late' : Past(r.pr, r.seen)'
    <3> SUFFICES ASSUME NEW r \in report' \cup late' PROVE Past(r.pr, r.seen) BY <1>1, StoreStands
    <3>1. CASE r = new BY <1>5, <3>1
    <3>2. CASE r \in late BY <3>2 DEF Views
    <3> QED BY <1>1, <3>1, <3>2
  <2>3. \A r \in report' \cup late' : \A f \in todo' :
          r.pr = f[1] => NotAfter(r.seen, f[2])'
    <3> SUFFICES ASSUME NEW r \in report' \cup late', NEW f \in todo', r.pr = f[1]
                 PROVE  NotAfter(r.seen, f[2])
      BY <1>1, StoreStands
    <3>1. r \in late BY <1>1, <1>6
    <3> QED BY <1>6, <3>1 DEF Views
  <2>4. \A f, h \in todo' : f[1] = h[1] => f = h BY <1>6 DEF Views
  <2> QED BY <2>1, <2>2, <2>3, <2>4 DEF Views
<1>9. preview[pr] # NoPreview => NotAfter(w, preview[pr]) BY <1>5 DEF Past
<1>10. gen \in [Messages -> Nat] /\ NoPreview.owner \notin Messages /\ NoPreview.desired = "NONE"
       /\ NoPreview.actual = "NONE"
  BY MessageAssumption DEF Inv, TypeOK, NoPreview
<1>11. \A r \in report' \cup late' : ReportTrue(r)'
  <2>1. new.pr = pr /\ new.seen = w /\ new.actual = actual OBVIOUS
  <2>2. ReportTrue(new)'
    <3>1. \A q \in Messages : q = w.owner /\ actual = "ACTIVE" => Up(pr, q)' OBVIOUS
    <3>2. actual = "ACTIVE" => Up(pr, w.owner)' BY <1>4, <3>1 DEF Up
    <3> HIDE DEF new, w
    <3>3. ReportTrue(new)' BY <2>1, <3>2 DEF ReportTrue, Up, Down, w
    <3> QED BY <3>3
  <2>3. ASSUME NEW r \in late PROVE ReportTrue(r)'
    <3>1. ReportTrue(r) /\ r.pr \in PRs /\ Past(r.pr, r.seen) /\ r.seen.owner \in Messages
      BY DEF Truth, ControllerTypeOK, Views, Past, Owned
    <3>2. CASE r.pr # pr
      <4>1. namespace'[r.pr] = namespace[r.pr] BY <3>1, <3>2
      <4> QED BY <1>2, <3>1, <4>1 DEF ReportTrue, Up, Down
    <3>3. CASE r.pr = pr
      <4>1. NotAfter(r.seen, w) BY <3>3 DEF Views
      <4>2. preview[pr].owner = r.seen.owner =>
              /\ w.owner = r.seen.owner
              /\ r.seen.desired = "DELETING" => w.desired = "DELETING"
              /\ w.desired = "DELETING" => preview[pr].desired = "DELETING"
        <5> SUFFICES ASSUME preview[pr].owner = r.seen.owner
                     PROVE  /\ w.owner = r.seen.owner
                            /\ r.seen.desired = "DELETING" => w.desired = "DELETING"
                            /\ w.desired = "DELETING" => preview[pr].desired = "DELETING"
          OBVIOUS
        <5>1. preview[pr] # NoPreview BY <1>10, <3>1
        <5>2. NotAfter(w, preview[pr]) BY <1>9, <5>1
        <5> HIDE DEF w
        <5> QED BY <1>4, <1>10, <3>1, <4>1, <5>2, SameOwner
      <4>3. ASSUME r.actual = "ACTIVE", preview[pr].desired = "ACTIVE",
                   preview[pr].owner = r.seen.owner
            PROVE  Up(pr, r.seen.owner)'
        <5>1. w.owner = r.seen.owner /\ w.desired = "ACTIVE" BY <1>4, <4>2, <4>3
        <5>2. Up(pr, r.seen.owner) BY <3>1, <3>3, <4>3 DEF ReportTrue
        <5> QED BY <3>1, <5>1, <5>2
      <4>4. ASSUME r.actual = "DELETED", preview[pr].owner = r.seen.owner
            PROVE  Down(pr)'
        <5>1. w.desired = "DELETING" /\ Down(pr) BY <3>1, <3>3, <4>2, <4>4 DEF ReportTrue
        <5> QED BY <5>1
      <4> QED BY <1>2, <3>1, <3>3, <4>3, <4>4 DEF ReportTrue
    <3> QED BY <3>2, <3>3
  <2> HIDE DEF new
  <2> QED BY <1>1, <2>2, <2>3
<1>12. \A q \in PRs : StateTrue(q)'
  <2> SUFFICES ASSUME NEW q \in PRs PROVE StateTrue(q)' OBVIOUS
  <2>1. StateTrue(q) /\ \A f \in todo' : f \in todo BY <1>1 DEF Truth
  <2>2. CASE q # pr
    <3>1. namespace'[q] = namespace[q] BY <2>2
    <3> QED BY <1>2, <2>1, <3>1 DEF StateTrue, Up, Down
  <2>3. CASE q = pr
    <3>1. ASSUME preview[pr].desired = "ACTIVE", preview[pr].actual = "ACTIVE"
          PROVE  Up(pr, preview[pr].owner)'
      <4>1. Up(pr, preview[pr].owner) /\ w.owner = preview[pr].owner
        BY <2>1, <2>3, <3>1 DEF StateTrue
      <4>2. w.desired = "ACTIVE" BY <1>4, <1>9, <1>10, <3>1, <4>1 DEF NotAfter
      <4>3. \A o \in Messages : o = w.owner /\ Up(pr, o) => Up(pr, o)' BY <4>2
      <4> QED BY <1>2, <1>4, <4>1, <4>3 DEF Up
    <3>2. ASSUME preview[pr].actual = "DELETED" \/ preview[pr] = NoPreview PROVE Down(pr)'
      BY <2>1, <2>3, <3>2 DEF StateTrue
    <3>3. \A f \in todo' : f[1] # q BY <1>6, <2>3
    <3> HIDE DEF w
    <3> QED BY <1>2, <2>1, <2>3, <3>1, <3>2, <3>3 DEF StateTrue
  <2> QED BY <2>2, <2>3
<1> QED BY <1>3, <1>7, <1>8, <1>11, <1>12 DEF Truth

\* A namespace is a record with a deployment of a pipeline or none.
LEMMA NamespaceFacts ==
    ASSUME ControllerTypeOK, NEW pr \in PRs
    PROVE  namespace[pr] \in [phase : Phase, app : Messages \cup {0}, ready : BOOLEAN]
BY DEF ControllerTypeOK

\* An updated namespace is that of one pull request.
LEMMA OneNamespace ==
    ASSUME ControllerTypeOK, NEW pr \in PRs,
           NEW ns \in [phase : Phase, app : Messages \cup {0}, ready : BOOLEAN],
           namespace' = [namespace EXCEPT ![pr] = ns]
    PROVE  /\ namespace' \in [PRs -> [phase : Phase, app : Messages \cup {0}, ready : BOOLEAN]]
           /\ namespace'[pr] = ns
           /\ \A q \in PRs \ {pr} : namespace'[q] = namespace[q]
BY DEF ControllerTypeOK

\* A deployed namespace runs the pipeline.
LEMMA DeployedFacts ==
    ASSUME NEW ns \in [phase : Phase, app : Messages \cup {0}, ready : BOOLEAN],
           NEW p \in Messages
    PROVE  LET d == Deployed([ns EXCEPT !.phase = "live"], p)
           IN  /\ d \in [phase : Phase, app : Messages \cup {0}, ready : BOOLEAN]
               /\ d.phase = "live" /\ d.app = p
BY DEF Deployed, Phase

\* The entries of a round are previews.
LEMMA EntryFacts ==
    ASSUME ControllerTypeOK, NEW e \in todo
    PROVE  e[1] \in PRs /\ e[2] \in Preview /\ e[2].owner \in Messages
<1>1. e \in PRs \X Preview BY DEF ControllerTypeOK
<1>2. e[1] \in PRs /\ e[2] \in Preview BY <1>1
<1> QED BY <1>2 DEF Preview

\* What Found is about is no more than what it reports.
LEMMA FoundKeepsNothing ==
    ASSUME ControllerInv, NEW pr \in PRs, NEW e \in todo, e[1] = pr,
           NEW actual \in {"PENDING", "ACTIVE", "DELETED"}, Found(e, actual), UNCHANGED namespace,
           actual # "ACTIVE", actual = "DELETED" => e[2].desired = "DELETING" /\ Down(pr)
    PROVE  ControllerInv'
<1>1. namespace' \in [PRs -> [phase : Phase, app : Messages \cup {0}, ready : BOOLEAN]]
  BY DEF ControllerInv, ControllerTypeOK
<1>2. /\ Down(pr) => Down(pr)'
      /\ \A q \in Messages : Up(pr, q) => Up(pr, q)'
  BY DEF Down, Up
<1> QED BY <1>1, <1>2, EntryStep

\* Removing a namespace keeps the invariant.
LEMMA RemoveNamespaceStep ==
    ASSUME ControllerInv, NEW pr \in PRs, RemoveNamespace(pr)
    PROVE  ControllerInv'
<1> USE DEF ControllerInv
<1> PICK e \in todo :
       /\ e[1] = pr /\ e[2].desired = "DELETING"
       /\ \/ namespace[pr].phase = "absent" /\ Found(e, "DELETED") /\ UNCHANGED namespace
          \/ /\ namespace[pr].phase # "absent"
             /\ namespace' = [namespace EXCEPT ![pr].phase = "terminating"]
             /\ Found(e, "PENDING")
  BY DEF RemoveNamespace
<1>1. CASE namespace[pr].phase = "absent" /\ Found(e, "DELETED") /\ UNCHANGED namespace
  BY <1>1, FoundKeepsNothing DEF Down
<1>2. CASE namespace[pr].phase # "absent" /\ Found(e, "PENDING")
           /\ namespace' = [namespace EXCEPT ![pr].phase = "terminating"]
  <2> DEFINE ns == [namespace[pr] EXCEPT !.phase = "terminating"]
  <2>1. ns \in [phase : Phase, app : Messages \cup {0}, ready : BOOLEAN]
    BY NamespaceFacts DEF Phase
  <2>2. namespace' = [namespace EXCEPT ![pr] = ns] BY <1>2
  <2> HIDE DEF ns
  <2> QED BY <1>2, <2>1, <2>2, OneNamespace, EntryStep DEF Down
<1> QED BY <1>1, <1>2

\* Bringing a preview up keeps the invariant: no older request is acted on.
LEMMA ApplyPreviewStep ==
    ASSUME ControllerInv, NEW pr \in PRs, ApplyPreview(pr)
    PROVE  ControllerInv'
<1> USE DEF ControllerInv
<1> DEFINE applied(e) == Deployed([namespace[pr] EXCEPT !.phase = "live"], e[2].owner)
<1> PICK e \in todo :
       /\ e[1] = pr /\ e[2].desired = "ACTIVE"
       /\ namespace' = [namespace EXCEPT ![pr] = applied(e)]
       /\ Found(e, IF applied(e).ready THEN "ACTIVE" ELSE "PENDING")
  BY DEF ApplyPreview
<1> DEFINE actual == IF applied(e).ready THEN "ACTIVE" ELSE "PENDING"
<1>1. actual \in {"PENDING", "ACTIVE", "DELETED"} /\ actual # "DELETED" /\ Found(e, actual)
  OBVIOUS
<1>2. /\ applied(e) \in [phase : Phase, app : Messages \cup {0}, ready : BOOLEAN]
      /\ applied(e).phase = "live" /\ applied(e).app = e[2].owner
  BY EntryFacts, NamespaceFacts, DeployedFacts
<1> HIDE DEF actual, applied
<1>3. /\ namespace' \in [PRs -> [phase : Phase, app : Messages \cup {0}, ready : BOOLEAN]]
      /\ namespace'[pr] = applied(e)
      /\ \A q \in PRs \ {pr} : namespace'[q] = namespace[q]
  BY <1>2, OneNamespace
<1>4. \A q \in Messages : q = e[2].owner => Up(pr, q)' BY <1>2, <1>3 DEF Up
<1> QED BY <1>1, <1>3, <1>4, EntryStep

\* A reconciliation that fails on the way keeps the invariant.
LEMMA ReconcileFailsStep ==
    ASSUME ControllerInv, NEW pr \in PRs, ReconcileFails(pr)
    PROVE  ControllerInv'
<1> USE DEF ControllerInv
<1> DEFINE live == [namespace[pr] EXCEPT !.phase = "live"]
           down == [namespace[pr] EXCEPT !.phase = "terminating"]
           applied(e) == Deployed(live, e[2].owner)
<1> PICK e \in todo :
       /\ e[1] = pr /\ Found(e, "PENDING")
       /\ \/ UNCHANGED namespace
          \/ /\ e[2].desired = "ACTIVE" /\ namespace[pr].phase = "absent"
             /\ namespace' = [namespace EXCEPT ![pr].phase = "live"]
          \/ /\ e[2].desired = "ACTIVE"
             /\ namespace' = [namespace EXCEPT ![pr] = applied(e)]
          \/ /\ e[2].desired = "DELETING" /\ namespace[pr].phase = "live"
             /\ namespace' = [namespace EXCEPT ![pr].phase = "terminating"]
  BY DEF ReconcileFails
<1>1. live \in [phase : Phase, app : Messages \cup {0}, ready : BOOLEAN]
      /\ down \in [phase : Phase, app : Messages \cup {0}, ready : BOOLEAN]
  BY NamespaceFacts DEF Phase
<1>2. /\ applied(e) \in [phase : Phase, app : Messages \cup {0}, ready : BOOLEAN]
      /\ applied(e).phase = "live" /\ applied(e).app = e[2].owner
  BY EntryFacts, NamespaceFacts, DeployedFacts
<1>3. CASE UNCHANGED namespace BY <1>3, FoundKeepsNothing
<1>4. CASE e[2].desired = "ACTIVE" /\ namespace[pr].phase = "absent"
           /\ namespace' = [namespace EXCEPT ![pr].phase = "live"]
  <2>1. namespace' = [namespace EXCEPT ![pr] = live] BY <1>4
  <2>2. \A q \in Messages : ~Up(pr, q) BY <1>4 DEF Up
  <2> HIDE DEF live
  <2> QED BY <1>1, <1>4, <2>1, <2>2, OneNamespace, EntryStep
<1>5. CASE e[2].desired = "ACTIVE" /\ namespace' = [namespace EXCEPT ![pr] = applied(e)]
  <2> HIDE DEF applied
  <2>1. /\ namespace' \in [PRs -> [phase : Phase, app : Messages \cup {0}, ready : BOOLEAN]]
        /\ namespace'[pr] = applied(e)
        /\ \A q \in PRs \ {pr} : namespace'[q] = namespace[q]
    BY <1>2, <1>5, OneNamespace
  <2>2. \A q \in Messages : q = e[2].owner => Up(pr, q)' BY <1>2, <2>1 DEF Up
  <2> QED BY <1>5, <2>1, <2>2, EntryStep
<1>6. CASE e[2].desired = "DELETING" /\ namespace[pr].phase = "live"
           /\ namespace' = [namespace EXCEPT ![pr].phase = "terminating"]
  <2>1. namespace' = [namespace EXCEPT ![pr] = down] BY <1>6
  <2> HIDE DEF down
  <2> QED BY <1>1, <1>6, <2>1, OneNamespace, EntryStep DEF Down
<1> QED BY <1>3, <1>4, <1>5, <1>6

-----------------------------------------------------------------------------
(* Kubernetes. *)

\* A namespace that goes on running what it runs, or stays away, keeps the invariant.
LEMMA NamespaceStep ==
    ASSUME ControllerInv, NEW pr \in PRs, UNCHANGED <<storeVars, controllerVars>>,
           NEW ns \in [phase : Phase, app : Messages \cup {0}, ready : BOOLEAN],
           namespace' = [namespace EXCEPT ![pr] = ns],
           namespace[pr].phase = "live" => ns.phase = "live" /\ ns.app = namespace[pr].app,
           namespace[pr].phase = "absent" => ns.phase = "absent"
    PROVE  ControllerInv'
<1> USE DEF ControllerInv
<1>1. UNCHANGED <<preview, todo, report, late>> BY DEF storeVars, controllerVars
<1>2. Inv' /\ Lifetimes' BY StoreStands
<1>3. /\ namespace' \in [PRs -> [phase : Phase, app : Messages \cup {0}, ready : BOOLEAN]]
      /\ namespace'[pr] = ns
      /\ \A q \in PRs \ {pr} : namespace'[q] = namespace[q]
  BY OneNamespace
<1>4. ControllerTypeOK' BY <1>1, <1>2, <1>3 DEF ControllerTypeOK, Inv
<1>5. Views' BY <1>1, StoreStands DEF Views
<1>6. \A q \in PRs : /\ Down(q) => Down(q)'
                     /\ \A p : Up(q, p) => Up(q, p)'
  BY <1>3 DEF Up, Down
<1>7. \A r \in report \cup late : ReportTrue(r)'
  <2> SUFFICES ASSUME NEW r \in report \cup late PROVE ReportTrue(r)' OBVIOUS
  <2>1. ReportTrue(r) /\ r.pr \in PRs BY DEF Truth, ControllerTypeOK
  <2> QED BY <1>1, <1>6, <2>1 DEF ReportTrue
<1>8. \A q \in PRs : StateTrue(q)'
  <2> SUFFICES ASSUME NEW q \in PRs PROVE StateTrue(q)' OBVIOUS
  <2>1. StateTrue(q) BY DEF Truth
  <2>2. Up(q, preview[q].owner) => Up(q, preview[q].owner)' BY <1>1, <1>6 DEF Up
  <2> QED BY <1>1, <1>6, <2>1, <2>2 DEF StateTrue
<1>9. Truth' BY <1>1, <1>7, <1>8 DEF Truth
<1> QED BY <1>2, <1>4, <1>5, <1>9

\* A namespace that is gone was being removed.
LEMMA NamespaceGoneStep ==
    ASSUME ControllerInv, NEW pr \in PRs, NamespaceGone(pr)
    PROVE  ControllerInv'
<1>1. NoNamespace \in [phase : Phase, app : Messages \cup {0}, ready : BOOLEAN]
  BY DEF NoNamespace, Phase
<1>2. namespace[pr].phase = "terminating" /\ namespace' = [namespace EXCEPT ![pr] = NoNamespace]
      /\ UNCHANGED <<storeVars, controllerVars>>
  BY DEF NamespaceGone
<1> QED BY <1>1, <1>2, NamespaceStep

\* A rollout changes the readiness alone.
LEMMA RolloutStep ==
    ASSUME ControllerInv, NEW pr \in PRs, Rollout(pr)
    PROVE  ControllerInv'
<1> DEFINE ns == [namespace[pr] EXCEPT !.ready = ~@]
<1>1. namespace[pr] \in [phase : Phase, app : Messages \cup {0}, ready : BOOLEAN]
  BY NamespaceFacts DEF ControllerInv
<1>2. ns \in [phase : Phase, app : Messages \cup {0}, ready : BOOLEAN]
      /\ ns.phase = namespace[pr].phase /\ ns.app = namespace[pr].app
  BY <1>1
<1>3. namespace' = [namespace EXCEPT ![pr] = ns] /\ UNCHANGED <<storeVars, controllerVars>>
  BY DEF Rollout
<1> HIDE DEF ns
<1> QED BY <1>2, <1>3, NamespaceStep

-----------------------------------------------------------------------------
(* The theorems. *)

\* The invariant holds at the start.
LEMMA ControllerInitInv == ControllerInit => ControllerInv
<1> SUFFICES ASSUME ControllerInit PROVE ControllerInv OBVIOUS
<1>1. Init /\ namespace = [pr \in PRs |-> NoNamespace] /\ todo = {} /\ report = {} /\ late = {}
  BY DEF ControllerInit
<1>2. Inv BY <1>1, InitInv
<1>3. NoNamespace \in [phase : Phase, app : Messages \cup {0}, ready : BOOLEAN]
  BY DEF NoNamespace, Phase
<1>4. ControllerTypeOK BY <1>1, <1>2, <1>3 DEF ControllerTypeOK, Inv
<1>5. \A pr \in PRs : preview[pr] = NoPreview BY <1>1 DEF Init
<1>6. Lifetimes
  <2>1. now = 1 /\ \A m \in Messages : created[m] = 0 /\ status[m] = "NONE"
    BY <1>1 DEF Init
  <2> QED BY <1>5, <2>1 DEF Lifetimes
<1>7. Views BY <1>1 DEF Views
<1>8. Truth
  <2>1. NoPreview.actual = "NONE" BY DEF NoPreview
  <2>2. \A pr \in PRs : Down(pr) BY <1>1 DEF Down, NoNamespace
  <2> QED BY <1>1, <1>5, <2>1, <2>2 DEF Truth, StateTrue
<1> QED BY <1>2, <1>4, <1>6, <1>7, <1>8 DEF ControllerInv

\* Every step keeps the invariant.
LEMMA ControllerNextInv == ControllerInv /\ [Next]_allVars => ControllerInv'
<1> SUFFICES ASSUME ControllerInv, [Next]_allVars PROVE ControllerInv' OBVIOUS
<1>1. CASE UNCHANGED allVars BY <1>1, ForgetStep DEF allVars, controllerVars
<1>2. CASE StoreNext /\ UNCHANGED <<namespace, controllerVars>> BY <1>2, StoreStep
<1>3. CASE SendReport
  <2> PICK r \in report : /\ ObservePreview(r.pr, r.seen, r.actual)
                          /\ report' = {} /\ UNCHANGED <<namespace, todo, late>>
    BY <1>3 DEF SendReport
  <2> QED BY ReportStep
<1>4. CASE LateReport
  <2> PICK r \in late :
         /\ ObservePreview(r.pr, r.seen, r.actual) \/ UNCHANGED storeVars
         /\ late' = late \ {r}
         /\ UNCHANGED <<namespace, todo, report>>
    BY <1>4 DEF LateReport
  <2> QED BY ReportStep, ForgetStep
<1>5. CASE DropReport BY <1>5, ForgetStep DEF DropReport
<1>6. CASE Crash BY <1>6, ForgetStep DEF Crash
<1>7. ASSUME NEW pr \in PRs, RemoveNamespace(pr) \/ ApplyPreview(pr) \/ ReconcileFails(pr)
      PROVE  ControllerInv'
  BY <1>7, RemoveNamespaceStep, ApplyPreviewStep, ReconcileFailsStep
<1>8. ASSUME NEW pr \in PRs, NamespaceGone(pr) \/ Rollout(pr) PROVE ControllerInv'
  BY <1>8, NamespaceGoneStep, RolloutStep
<1> QED BY <1>1, <1>2, <1>3, <1>4, <1>5, <1>6, <1>7, <1>8, ListStep DEF Next, ControllerNext

\* The invariant holds in every state the store, the controller and Kubernetes can
\* reach together, however late a report is and wherever the controller stops.
THEOREM ControllerInvariantHolds == Spec => []ControllerInv
BY ControllerInitInv, ControllerNextInv, PTL DEF Spec

\* What the store believes of a namespace is true (ObservePreview): a preview reported
\* up runs the pipeline that owns it, and one reported gone is gone.
THEOREM ReportsStayTrue == Spec => []ReportsAreTrue
<1>1. ControllerInv => ReportsAreTrue
  BY DEF ControllerInv, Truth, StateTrue, Up, Down, ReportsAreTrue
<1> QED BY <1>1, ControllerInvariantHolds, PTL

\* A namespace never outlives the preview it was made for (Reconcile).
THEOREM NamespacesAreOwned == Spec => []NoAbandonedNamespace
<1>1. ControllerInv => NoAbandonedNamespace
  BY DEF ControllerInv, Truth, StateTrue, Down, NoAbandonedNamespace
<1> QED BY <1>1, ControllerInvariantHolds, PTL

\* With the controller, late reports and Kubernetes the store takes no step but those of
\* StoreSpec: whatever is proved of that holds here as well (ObservePreview).
THEOREM ImplementsStore == Spec => StoreSpec
<1>1. ControllerInit => Init BY DEF ControllerInit
<1>2. ControllerInv /\ [Next]_allVars => [StoreNext \/ AnyReport]_storeVars
  <2> SUFFICES ASSUME ControllerInv, [Next]_allVars
               PROVE  StoreNext \/ AnyReport \/ UNCHANGED storeVars
    OBVIOUS
  <2>1. ASSUME NEW r \in report \cup late, ObservePreview(r.pr, r.seen, r.actual)
        PROVE  AnyReport
    <3>1. r.pr \in PRs /\ r.actual \in {"PENDING", "ACTIVE", "DELETED"}
      BY DEF ControllerInv, ControllerTypeOK
    <3>2. ObservePreview(r.pr, preview[r.pr], r.actual) BY <2>1 DEF ObservePreview, SameRequest
    <3> QED BY <3>1, <3>2 DEF AnyReport
  <2>2. CASE SendReport BY <2>1, <2>2 DEF SendReport
  <2>3. CASE LateReport BY <2>1, <2>3 DEF LateReport
  <2>4. CASE DropReport BY <2>4 DEF DropReport
  <2>5. CASE List \/ Crash BY <2>5 DEF List, Crash
  <2>6. ASSUME NEW pr \in PRs, RemoveNamespace(pr) \/ ApplyPreview(pr) \/ ReconcileFails(pr)
        PROVE  UNCHANGED storeVars
    BY <2>6 DEF RemoveNamespace, ApplyPreview, ReconcileFails, Found
  <2>7. ASSUME NEW pr \in PRs, NamespaceGone(pr) \/ Rollout(pr) PROVE UNCHANGED storeVars
    BY <2>7 DEF NamespaceGone, Rollout
  <2>8. CASE UNCHANGED allVars BY <2>8 DEF allVars
  <2> QED BY <2>2, <2>3, <2>4, <2>5, <2>6, <2>7, <2>8 DEF Next, ControllerNext
<1> QED BY <1>1, <1>2, ControllerInvariantHolds, PTL DEF Spec, StoreSpec

-----------------------------------------------------------------------------
(* No pipeline gets the preview back. *)

RemovedOf(p) == preview[PRNumber[p]].desired = "DELETING" /\ preview[PRNumber[p]].owner = p
ActiveOf(p) == preview[PRNumber[p]].desired = "ACTIVE" /\ preview[PRNumber[p]].owner = p

\* Pipeline p is spent and has not got the preview.
Barred(p) == Spent(p) /\ ~ActiveOf(p)

\* A pipeline whose preview is to be removed is barred.
LEMMA RemovedIsBarred ==
    ASSUME ControllerInv, NEW p \in Messages, PRNumber[p] \in PRs, RemovedOf(p)
    PROVE  Barred(p)
<1>1. preview[PRNumber[p]] # NoPreview BY DEF RemovedOf, NoPreview
<1>2. Spent(p) BY <1>1 DEF ControllerInv, Lifetimes, RemovedOf
<1> QED BY <1>2 DEF Barred, RemovedOf, ActiveOf

\* What is barred stays so.
LEMMA BarredStays ==
    ASSUME ControllerInv, [Next]_allVars, NEW p \in Messages, PRNumber[p] \in PRs, Barred(p)
    PROVE  Barred(p)'
<1> DEFINE pr == PRNumber[p]
<1>1. ControllerInv' BY ControllerNextInv
<1>2. CASE StoreNext
  <2>1. Onwards /\ PreviewStep(pr)
    BY <1>1, <1>2, StoreOnwards, PreviewSteps DEF ControllerInv, Truth, StateTrue
  <2>2. Spent(p)' BY <1>1, <2>1, SpentStays DEF ControllerInv, Barred
  <2>3. CASE preview'[pr] = preview[pr] BY <2>2, <2>3 DEF Barred, ActiveOf
  <2>4. CASE TakenDown(pr) \/ Forgotten(pr)
    <3>1. preview'[pr].desired # "ACTIVE" BY <2>4 DEF TakenDown, Forgotten, NoPreview
    <3> QED BY <2>2, <3>1 DEF Barred, ActiveOf
  <2>5. CASE Raised(pr)
    <3> PICK q \in Messages : RaisedFor(pr, q) BY <2>5 DEF Raised
    <3>1. gen[p] < gen[q] BY DEF RaisedFor, Barred
    <3>2. gen[p] \in Nat /\ gen[q] \in Nat BY DEF ControllerInv, Inv, TypeOK
    <3>3. p # q BY <3>1, <3>2
    <3>4. preview'[pr].owner = q BY DEF RaisedFor
    <3> QED BY <2>2, <3>3, <3>4 DEF Barred, ActiveOf
  <2> QED BY <2>1, <2>3, <2>4, <2>5 DEF PreviewStep
<1>3. ASSUME UNCHANGED <<now, prState, gen, created, status>>,
             preview'[pr].desired = preview[pr].desired, preview'[pr].owner = preview[pr].owner
      PROVE  Barred(p)'
  BY <1>3 DEF Barred, ActiveOf, Spent, Ended
<1>4. ASSUME UNCHANGED storeVars PROVE Barred(p)'
  BY <1>3, <1>4 DEF storeVars, submitVars
<1>5. ASSUME NEW r \in report \cup late, ObservePreview(r.pr, r.seen, r.actual)
      PROVE  Barred(p)'
  <2>1. r.pr \in PRs BY DEF ControllerInv, ControllerTypeOK
  <2>2. preview'[pr].desired = preview[pr].desired /\ preview'[pr].owner = preview[pr].owner
        /\ UNCHANGED <<now, submitVars, status>>
    BY <1>5, <2>1, ObservationFacts DEF ControllerInv
  <2> QED BY <1>3, <2>2 DEF submitVars
<1>6. CASE SendReport BY <1>5, <1>6 DEF SendReport
<1>7. CASE LateReport BY <1>4, <1>5, <1>7 DEF LateReport
<1>8. CASE List \/ DropReport \/ Crash BY <1>4, <1>8 DEF List, DropReport, Crash
<1>9. ASSUME NEW x \in PRs, RemoveNamespace(x) \/ ApplyPreview(x) \/ ReconcileFails(x)
      PROVE  Barred(p)'
  BY <1>4, <1>9 DEF RemoveNamespace, ApplyPreview, ReconcileFails, Found
<1>10. ASSUME NEW x \in PRs, NamespaceGone(x) \/ Rollout(x) PROVE Barred(p)'
  BY <1>4, <1>10 DEF NamespaceGone, Rollout
<1>11. CASE UNCHANGED allVars BY <1>4, <1>11 DEF allVars
<1> QED BY <1>2, <1>6, <1>7, <1>8, <1>9, <1>10, <1>11 DEF Next, ControllerNext

\* No pipeline gets the preview back after its removal was asked for, by a late result,
\* a deferred activation or a late report (activatePreviewLocked, EnsurePreviews).
THEOREM NothingComesBack == Spec => NoResurrection
<1>1. ASSUME NEW p \in Messages, PRNumber[p] \in PRs
      PROVE  Spec => [](RemovedOf(p) => []~ActiveOf(p))
  <2>1. ControllerInv /\ RemovedOf(p) => Barred(p) BY <1>1, RemovedIsBarred
  <2>2. ControllerInv /\ Barred(p) /\ [Next]_allVars => Barred(p)' BY <1>1, BarredStays
  <2>3. Barred(p) => ~ActiveOf(p) BY DEF Barred
  <2> QED BY <2>1, <2>2, <2>3, ControllerInvariantHolds, PTL DEF Spec
<1>2. ASSUME NEW p \in Messages, PRNumber[p] > 0 PROVE PRNumber[p] \in PRs
  BY <1>2, MessageFacts
<1> SUFFICES ASSUME NEW p \in Messages \ Closing, PRNumber[p] > 0
             PROVE  Spec => [](RemovedOf(p) => []~ActiveOf(p))
  BY DEF NoResurrection, RemovedOf, ActiveOf
<1> QED BY <1>1, <1>2

=============================================================================
