------------------------- MODULE PullRequestsProofs -------------------------
(***************************************************************************)
(* Proofs about PullRequests.  The inductive invariant is                  *)
(*                                                                         *)
(*    TypeOK /\ NewestEventWins /\ OneOpenPipeline /\ ActiveIsCurrent      *)
(*           /\ Bookkeeping                                                *)
(*                                                                         *)
(* The pipelines and previews depend on the events only through the        *)
(* generation, so each part has its own lemma for every group of actions.  *)
(***************************************************************************)
EXTENDS PullRequests, TLAPS

\* What the records say of each other: an answered message is in the deliveries,
\* a pipeline has a generation its pull request has reached, and a pull request has
\* a generation exactly if something was heard of it.
Bookkeeping ==
    /\ \A m \in Messages : stamp[m] > 0 \/ status[m] # "NONE" =>
          deliveries[RequestID[m]] # Unseen
    /\ \A m \in Messages : PRNumber[m] > 0 =>
          /\ gen[m] <= prState[PRNumber[m]].gen
          /\ status[m] # "NONE" => gen[m] > 0
          /\ stamp[m] > 0 => prState[PRNumber[m]].gen > 0
    /\ \A pr \in PRs : prState[pr].gen > 0 =>
          \E m \in Messages : PRNumber[m] = pr /\ stamp[m] > 0

Inv == TypeOK /\ NewestEventWins /\ OneOpenPipeline /\ ActiveIsCurrent /\ Bookkeeping

-----------------------------------------------------------------------------
(* Facts about messages. *)

\* Request ID, pull request and times of a message are in their sets.
LEMMA MessageFacts ==
    ASSUME NEW m \in Messages
    PROVE  /\ RequestID[m] \in RequestIDs /\ m \in Nat /\ m # 0
           /\ PRNumber[m] \in Nat /\ EventTime[m] \in Nat /\ TTL[m] \in Nat
           /\ PRNumber[m] > 0 => PRNumber[m] \in PRs
BY MessageAssumption DEF RequestIDs, PRs

\* The event time a message is answered with, and the state it is compared to.
LEMMA AtFacts ==
    ASSUME TypeOK, NEW m \in Messages
    PROVE  /\ At(m) \in Nat /\ At(m) > 0
           /\ Previous(m) \in [at : Nat, closed : BOOLEAN, gen : Nat]
           /\ PRNumber[m] > 0 => Previous(m) = prState[PRNumber[m]]
<1>1. now \in Nat /\ now > 0 BY MessageAssumption DEF TypeOK
<1>2. At(m) \in Nat /\ At(m) > 0 BY <1>1, MessageFacts DEF At
<1>3. CASE PRNumber[m] > 0 BY <1>2, <1>3, MessageFacts DEF TypeOK, Previous
<1>4. CASE ~(PRNumber[m] > 0) BY <1>2, <1>4, MessageFacts DEF Previous
<1> QED BY <1>3, <1>4

\* A message that is answered was not answered before and created nothing.
LEMMA FreshFacts ==
    ASSUME TypeOK, Bookkeeping, NEW m \in Messages, Arrives(m)
    PROVE  /\ stamp[m] = 0 /\ status[m] = "NONE"
           /\ stamp' = [stamp EXCEPT ![m] = At(m)]
           /\ stamp'[m] = At(m) /\ stamp'[m] > 0
           /\ \A n \in Messages \ {m} : stamp'[n] = stamp[n]
           /\ stamp' \in [Messages -> Nat]
           /\ deliveries[RequestID[m]] = Unseen
BY AtFacts DEF Arrives, Fresh, Bookkeeping, TypeOK

-----------------------------------------------------------------------------
(* Types. *)

\* A preview that is to be removed is still a preview.
LEMMA PreviewTypes ==
    ASSUME NEW v \in Preview, NEW g \in Nat
    PROVE  Deleting(v, g) \in Preview /\ v # NoPreview
<1>1. v.desired # "NONE" BY DEF Preview
<1>2. v # NoPreview BY <1>1 DEF NoPreview
<1> QED BY <1>2 DEF Preview, Deleting

\* activatePreviewLocked makes a preview.
LEMMA ActivatedType ==
    ASSUME TypeOK, NEW p \in Messages
    PROVE  Activated(p) \in Preview
<1>1. now + TTL[p] \in Nat /\ gen[p] \in Nat BY MessageAssumption, MessageFacts DEF TypeOK
<1> QED BY <1>1 DEF Activated, Preview

\* Reconcile keeps a preview or removes it.
LEMMA ReconciledType ==
    ASSUME NEW v \in Preview \cup {NoPreview}
    PROVE  Reconciled(v) \in Preview \cup {NoPreview}
<1>1. CASE v = NoPreview BY <1>1 DEF Reconciled, Removed, NoPreview
<1>2. CASE v \in Preview
  <2>1. v.gen + 1 \in Nat BY <1>2 DEF Preview
  <2> QED BY <1>2, <2>1, PreviewTypes DEF Reconciled, Removed
<1> QED BY <1>1, <1>2

-----------------------------------------------------------------------------
(* The newest event. *)

\* NewestEventWins for one pull request in state s, messages being stamped st.
Newest(pr, st, s) ==
    LET heard == {m \in Messages : PRNumber[m] = pr /\ st[m] > 0}
    IN  heard # {} =>
          /\ \A m \in heard : st[m] <= s.at
          /\ \E m \in heard : st[m] = s.at
          /\ s.closed = \E m \in heard \cap Closing : st[m] = s.at

\* NewestEventWins is about each pull request by itself.
LEMMA NewestMeaning ==
    /\ NewestEventWins <=> \A pr \in PRs : Newest(pr, stamp, prState[pr])
    /\ NewestEventWins' <=> \A pr \in PRs : Newest(pr, stamp', prState'[pr])
BY DEF NewestEventWins, Newest

\* Messages of other pull requests are of no account.
LEMMA NewestOther ==
    ASSUME NEW m \in Messages, NEW pr \in PRs, pr # PRNumber[m], NEW st, NEW st2, NEW s,
           Newest(pr, st, s), \A k \in Messages \ {m} : st2[k] = st[k]
    PROVE  Newest(pr, st2, s)
<1> DEFINE heard(f) == {k \in Messages : PRNumber[k] = pr /\ f[k] > 0}
<1>1. heard(st2) = heard(st) /\ \A k \in heard(st) : st2[k] = st[k] OBVIOUS
<1>2. heard(st) # {} =>
        /\ \A k \in heard(st) : st[k] <= s.at
        /\ \E k \in heard(st) : st[k] = s.at
        /\ s.closed = \E k \in heard(st) \cap Closing : st[k] = s.at
  BY DEF Newest
<1> HIDE DEF heard
<1>3. heard(st2) # {} =>
        /\ \A k \in heard(st2) : st2[k] <= s.at
        /\ \E k \in heard(st2) : st2[k] = s.at
        /\ s.closed = \E k \in heard(st2) \cap Closing : st2[k] = s.at
  BY <1>1, <1>2
<1> QED BY <1>3 DEF Newest, heard

\* A late message leaves the state as it is.
LEMMA NewestKept ==
    ASSUME NEW m \in Messages, NEW st \in [Messages -> Nat], NEW st2 \in [Messages -> Nat],
           NEW s \in [at : Nat, closed : BOOLEAN, gen : Nat],
           NEW n \in Messages, n # m, PRNumber[n] = PRNumber[m], st[n] > 0,
           Newest(PRNumber[m], st, s),
           st[m] = 0, st2[m] > 0, \A k \in Messages \ {m} : st2[k] = st[k],
           st2[m] <= s.at, m \notin Closing \/ s.closed \/ st2[m] < s.at
    PROVE  Newest(PRNumber[m], st2, s)
<1> DEFINE heard == {k \in Messages : PRNumber[k] = PRNumber[m] /\ st[k] > 0}
           heard2 == {k \in Messages : PRNumber[k] = PRNumber[m] /\ st2[k] > 0}
<1>1. heard2 = heard \cup {m} OBVIOUS
<1>2. n \in heard /\ m \notin heard OBVIOUS
<1>3. /\ \A k \in heard : st[k] <= s.at
      /\ \E k \in heard : st[k] = s.at
      /\ s.closed = \E k \in heard \cap Closing : st[k] = s.at
  BY <1>2 DEF Newest
<1>4. \A k \in heard : st2[k] = st[k] BY <1>2
<1> HIDE DEF heard, heard2
<1>5. \A k \in heard2 : st2[k] <= s.at BY <1>1, <1>3, <1>4
<1>6. \E k \in heard2 : st2[k] = s.at BY <1>1, <1>3, <1>4
<1>7. s.closed => \E k \in heard2 \cap Closing : st2[k] = s.at BY <1>1, <1>3, <1>4
<1>8. (\E k \in heard2 \cap Closing : st2[k] = s.at) => s.closed
  <2> SUFFICES ASSUME NEW k \in heard2 \cap Closing, st2[k] = s.at PROVE s.closed OBVIOUS
  <2>1. CASE k = m BY <2>1
  <2>2. CASE k \in heard BY <2>2, <1>3, <1>4
  <2> QED BY <1>1, <2>1, <2>2
<1>9. s.closed \in BOOLEAN /\ ((\E k \in heard2 \cap Closing : st2[k] = s.at) \in BOOLEAN) OBVIOUS
<1>10. s.closed = \E k \in heard2 \cap Closing : st2[k] = s.at BY <1>7, <1>8, <1>9
<1> QED BY <1>5, <1>6, <1>10 DEF Newest, heard2

\* A message that is newer than all before, or closes at the same time, decides.
LEMMA NewestTaken ==
    ASSUME NEW m \in Messages, NEW st \in [Messages -> Nat], NEW st2 \in [Messages -> Nat],
           NEW s \in [at : Nat, closed : BOOLEAN, gen : Nat],
           NEW t \in [at : Nat, closed : BOOLEAN, gen : Nat],
           st[m] = 0, st2[m] > 0, \A k \in Messages \ {m} : st2[k] = st[k],
           \A k \in Messages : PRNumber[k] = PRNumber[m] /\ st[k] > 0 =>
              st[k] < st2[m] \/ (st[k] = st2[m] /\ m \in Closing),
           t.at = st2[m], t.closed <=> m \in Closing
    PROVE  Newest(PRNumber[m], st2, t)
<1> DEFINE heard == {k \in Messages : PRNumber[k] = PRNumber[m] /\ st2[k] > 0}
<1>1. m \in heard OBVIOUS
<1>2. \A k \in heard \ {m} : st2[k] < t.at \/ (st2[k] = t.at /\ m \in Closing) OBVIOUS
<1> HIDE DEF heard
<1>3. \A k \in heard : st2[k] <= t.at
  <2> SUFFICES ASSUME NEW k \in heard PROVE st2[k] <= t.at OBVIOUS
  <2>1. st2[k] \in Nat /\ t.at \in Nat BY DEF heard
  <2> QED BY <1>2, <2>1
<1>4. \E k \in heard : st2[k] = t.at BY <1>1
<1>5. t.closed => \E k \in heard \cap Closing : st2[k] = t.at BY <1>1
<1>6. (\E k \in heard \cap Closing : st2[k] = t.at) => t.closed
  <2> SUFFICES ASSUME NEW k \in heard \cap Closing, st2[k] = t.at PROVE m \in Closing OBVIOUS
  <2>1. st2[k] \in Nat /\ t.at \in Nat BY DEF heard
  <2> QED BY <1>2, <2>1
<1>7. t.closed = \E k \in heard \cap Closing : st2[k] = t.at BY <1>5, <1>6
<1> QED BY <1>3, <1>4, <1>7 DEF Newest, heard

-----------------------------------------------------------------------------
(* Submit. *)

\* An answer that is recorded.
LEMMA AnswerRecorded ==
    ASSUME TypeOK, NEW m \in Messages, NEW x \in Messages \cup {Nothing},
           deliveries' = [deliveries EXCEPT ![RequestID[m]] = x]
    PROVE  /\ deliveries' \in [RequestIDs -> Messages \cup {Nothing, Unseen}]
           /\ deliveries'[RequestID[m]] # Unseen
           /\ \A n \in Messages : deliveries[RequestID[n]] # Unseen =>
                 deliveries'[RequestID[n]] # Unseen
<1>1. x # Unseen BY MessageFacts DEF Nothing, Unseen
<1> QED BY <1>1, MessageFacts DEF TypeOK

\* A late event changes nothing but the answers.
LEMMA IgnoreStaleStep ==
    ASSUME Inv, NEW m \in Messages, IgnoreStale(m)
    PROVE  Inv'
<1> USE DEF Inv
<1>1. Arrives(m) /\ Stale(m) /\ deliveries' = [deliveries EXCEPT ![RequestID[m]] = Nothing]
      /\ UNCHANGED <<now, prState, gen, created, status, preview>>
  BY DEF IgnoreStale
<1>2. TypeOK' BY <1>1, FreshFacts, AnswerRecorded DEF TypeOK
<1>3. PRNumber[m] > 0 /\ PRNumber[m] \in PRs /\ prState[PRNumber[m]].gen > 0
      /\ Previous(m) = prState[PRNumber[m]]
  BY <1>1, MessageFacts, AtFacts DEF Stale, Previous
<1>4. Bookkeeping'
  <2>1. \A n \in Messages : stamp[n] > 0 => stamp'[n] > 0 BY <1>1, FreshFacts
  <2>2. /\ deliveries'[RequestID[m]] # Unseen
        /\ \A n \in Messages : deliveries[RequestID[n]] # Unseen =>
              deliveries'[RequestID[n]] # Unseen
    BY <1>1, AnswerRecorded
  <2> QED BY <1>1, <1>3, <2>1, <2>2, FreshFacts DEF Bookkeeping
<1>5. OneOpenPipeline' BY <1>1 DEF OneOpenPipeline
<1>6. ActiveIsCurrent' BY <1>1 DEF ActiveIsCurrent
<1>7. NewestEventWins'
  <2> SUFFICES ASSUME NEW pr \in PRs PROVE Newest(pr, stamp', prState[pr])
    BY <1>1, NewestMeaning
  <2>1. Newest(pr, stamp, prState[pr]) BY NewestMeaning
  <2>2. CASE pr # PRNumber[m] BY <2>1, <2>2, <1>1, FreshFacts, NewestOther
  <2>3. CASE pr = PRNumber[m]
    <3>1. PICK n \in Messages : n # m /\ PRNumber[n] = PRNumber[m] /\ stamp[n] > 0
      BY <1>1, <1>3, FreshFacts DEF Bookkeeping
    <3>2. stamp \in [Messages -> Nat] /\ prState[pr] \in [at : Nat, closed : BOOLEAN, gen : Nat]
      BY DEF TypeOK
    <3>3. stamp'[m] <= prState[pr].at
          /\ (m \notin Closing \/ prState[pr].closed \/ stamp'[m] < prState[pr].at)
      BY <1>1, <1>3, <2>3, FreshFacts DEF Stale
    <3> QED BY <2>1, <2>3, <3>1, <3>2, <3>3, <1>1, FreshFacts, NewestKept
  <2> QED BY <2>2, <2>3
<1> QED BY <1>2, <1>4, <1>5, <1>6, <1>7

\* A shared pipeline exists, so its pull request has a generation, and the message
\* is newer than all before.
LEMMA ShareFacts ==
    ASSUME TypeOK, Bookkeeping, NEW m \in Messages, ~Stale(m), NEW p \in Shared(m),
           PRNumber[m] > 0
    PROVE  /\ prState[PRNumber[m]].gen > 0 /\ ~prState[PRNumber[m]].closed
           /\ At(m) > prState[PRNumber[m]].at /\ m \notin Closing
<1>1. p \in Messages /\ status[p] # "NONE" /\ PRNumber[p] = PRNumber[m]
      /\ gen[p] = Previous(m).gen /\ ~Previous(m).closed /\ m \notin Closing
  BY DEF Shared, Stored
<1>2. Previous(m) = prState[PRNumber[m]] /\ Previous(m).at \in Nat /\ At(m) \in Nat BY AtFacts
<1>3. gen[p] > 0 BY <1>1 DEF Bookkeeping
<1> QED BY <1>1, <1>2, <1>3 DEF Stale

\* A repeated revision moves the clock of its pull request alone.
LEMMA ShareStep ==
    ASSUME Inv, NEW m \in Messages, Share(m)
    PROVE  Inv'
<1> USE DEF Inv
<1>1. /\ Arrives(m) /\ ~Stale(m)
      /\ prState' = IF PRNumber[m] = 0 THEN prState
                    ELSE [prState EXCEPT ![PRNumber[m]].at = At(m)]
      /\ UNCHANGED <<now, gen, created, status, preview>>
  BY DEF Share
<1>2. PICK p \in Shared(m) : deliveries' = [deliveries EXCEPT ![RequestID[m]] = p]
  BY DEF Share
<1>3. p \in Messages BY DEF Shared
<1>4. \A pr \in PRs : /\ prState'[pr].closed = prState[pr].closed
                      /\ prState'[pr].gen = prState[pr].gen
                      /\ pr # PRNumber[m] => prState'[pr] = prState[pr]
  BY <1>1 DEF TypeOK
<1>5. prState' \in [PRs -> [at : Nat, closed : BOOLEAN, gen : Nat]]
  <2>1. At(m) \in Nat BY AtFacts
  <2> QED BY <1>1, <2>1 DEF TypeOK
<1>6. TypeOK' BY <1>1, <1>2, <1>3, <1>5, FreshFacts, AnswerRecorded DEF TypeOK
<1>7. Bookkeeping'
  <2>1. \A n \in Messages : stamp[n] > 0 => stamp'[n] > 0 BY <1>1, FreshFacts
  <2>2. PRNumber[m] > 0 => prState[PRNumber[m]].gen > 0 BY <1>1, ShareFacts
  <2>3. \A n \in Messages : stamp'[n] > 0 \/ status'[n] # "NONE" => deliveries'[RequestID[n]] # Unseen
    <3>1. /\ deliveries'[RequestID[m]] # Unseen
          /\ \A n \in Messages : deliveries[RequestID[n]] # Unseen =>
                deliveries'[RequestID[n]] # Unseen
      BY <1>2, <1>3, AnswerRecorded
    <3> QED BY <1>1, <3>1, FreshFacts DEF Bookkeeping
  <2>4. \A n \in Messages : PRNumber[n] > 0 =>
          /\ gen'[n] <= prState'[PRNumber[n]].gen
          /\ status'[n] # "NONE" => gen'[n] > 0
          /\ stamp'[n] > 0 => prState'[PRNumber[n]].gen > 0
    BY <1>1, <1>4, <2>2, FreshFacts, MessageFacts DEF Bookkeeping
  <2>5. \A pr \in PRs : prState'[pr].gen > 0 =>
          \E n \in Messages : PRNumber[n] = pr /\ stamp'[n] > 0
    BY <1>4, <2>1 DEF Bookkeeping
  <2> QED BY <2>3, <2>4, <2>5 DEF Bookkeeping
<1>8. OneOpenPipeline' BY <1>1, <1>4, MessageFacts DEF OneOpenPipeline
<1>9. ActiveIsCurrent' BY <1>1, <1>4 DEF ActiveIsCurrent
<1>10. NewestEventWins'
  <2> SUFFICES ASSUME NEW pr \in PRs PROVE Newest(pr, stamp', prState'[pr])
    BY NewestMeaning
  <2>1. Newest(pr, stamp, prState[pr]) BY NewestMeaning
  <2>2. CASE pr # PRNumber[m] BY <2>1, <2>2, <1>1, <1>4, FreshFacts, NewestOther
  <2>3. CASE pr = PRNumber[m]
    <3>1. PRNumber[m] > 0 BY <2>3, MessageFacts DEF PRs
    <3>2. /\ prState[pr].gen > 0 /\ ~prState[pr].closed /\ At(m) > prState[pr].at
          /\ m \notin Closing
      BY <1>1, <2>3, <3>1, ShareFacts
    <3>3. \A k \in Messages : PRNumber[k] = PRNumber[m] /\ stamp[k] > 0 => stamp[k] < At(m)
      <4> SUFFICES ASSUME NEW k \in Messages, PRNumber[k] = PRNumber[m], stamp[k] > 0
                   PROVE  stamp[k] < At(m)
        OBVIOUS
      <4>1. stamp[k] <= prState[pr].at BY <2>1, <2>3 DEF Newest
      <4>2. stamp[k] \in Nat /\ prState[pr].at \in Nat /\ At(m) \in Nat BY AtFacts DEF TypeOK
      <4> QED BY <4>1, <4>2, <3>2
    <3>4. prState'[pr].at = At(m) /\ (prState'[pr].closed <=> m \in Closing)
      <4>1. prState'[pr].closed = FALSE BY <1>4, <3>2 DEF TypeOK
      <4>2. prState'[pr].at = At(m) BY <1>1, <2>3, <3>1 DEF TypeOK
      <4> QED BY <4>1, <4>2, <3>2
    <3>5. /\ stamp \in [Messages -> Nat] /\ stamp' \in [Messages -> Nat]
          /\ prState[pr] \in [at : Nat, closed : BOOLEAN, gen : Nat]
          /\ prState'[pr] \in [at : Nat, closed : BOOLEAN, gen : Nat]
      BY <1>5, <1>6 DEF TypeOK
    <3>6. stamp[m] = 0 /\ stamp'[m] = At(m) /\ stamp'[m] > 0
          /\ \A k \in Messages \ {m} : stamp'[k] = stamp[k]
      BY <1>1, FreshFacts
    <3> QED BY <2>3, <3>3, <3>4, <3>5, <3>6, NewestTaken
  <2> QED BY <2>2, <2>3
<1> QED BY <1>6, <1>7, <1>8, <1>9, <1>10

\* A message that is taken starts a generation of its pull request, whose preview,
\* if any, is to be removed, and leaves the other pull requests alone.
LEMMA SupersedeFacts ==
    ASSUME TypeOK, NEW m \in Messages, supersede(m)
    PROVE  /\ prState' \in [PRs -> [at : Nat, closed : BOOLEAN, gen : Nat]]
           /\ preview' \in [PRs -> Preview \cup {NoPreview}]
           /\ \A pr \in PRs \ {PRNumber[m]} :
                 prState'[pr] = prState[pr] /\ preview'[pr] = preview[pr]
           /\ PRNumber[m] > 0 =>
                 /\ prState'[PRNumber[m]] = [at |-> At(m), closed |-> m \in Closing,
                                             gen |-> prState[PRNumber[m]].gen + 1]
                 /\ preview'[PRNumber[m]].desired # "ACTIVE"
<1>1. CASE PRNumber[m] = 0 BY <1>1 DEF supersede, TypeOK, PRs
<1>2. CASE PRNumber[m] > 0
  <2> DEFINE pr == PRNumber[m]
             g == prState[pr].gen + 1
             s == [at |-> At(m), closed |-> m \in Closing, gen |-> g]
             v == Superseded(preview[pr], g)
  <2>1. pr \in PRs /\ g \in Nat /\ Previous(m).gen + 1 = g BY <1>2, MessageFacts, AtFacts DEF TypeOK
  <2>2. s \in [at : Nat, closed : BOOLEAN, gen : Nat] BY <2>1, AtFacts
  <2>3. v \in Preview \cup {NoPreview} /\ v.desired # "ACTIVE"
    <3>1. CASE preview[pr] = NoPreview BY <3>1 DEF Superseded, NoPreview
    <3>2. CASE preview[pr] \in Preview
      <4>1. v = Deleting(preview[pr], g) BY <2>1, <3>2, PreviewTypes DEF Superseded
      <4>2. v.desired = "DELETING" BY <4>1, <3>2 DEF Deleting, Preview
      <4> QED BY <4>1, <4>2, <3>2, <2>1, PreviewTypes
    <3> QED BY <2>1, <3>1, <3>2 DEF TypeOK
  <2>4. prState' = [prState EXCEPT ![pr] = s] /\ preview' = [preview EXCEPT ![pr] = v]
    BY <1>2, <2>1 DEF supersede, TypeOK
  <2> HIDE DEF s, v
  <2>5. prState'[pr] = s /\ preview'[pr] = v BY <2>1, <2>4 DEF TypeOK
  <2> QED BY <2>1, <2>2, <2>3, <2>4, <2>5 DEF TypeOK, s
<1> QED BY <1>1, <1>2, MessageFacts

\* A message that is taken is the newest, or closes at the time of the newest.
LEMMA SupersedeNewest ==
    ASSUME TypeOK, NewestEventWins, Bookkeeping, NEW m \in Messages, Arrives(m), ~Stale(m),
           supersede(m)
    PROVE  NewestEventWins'
<1> SUFFICES ASSUME NEW pr \in PRs PROVE Newest(pr, stamp', prState'[pr])
  BY NewestMeaning
<1>1. Newest(pr, stamp, prState[pr]) BY NewestMeaning
<1>2. CASE pr # PRNumber[m]
  <2>1. prState'[pr] = prState[pr] BY <1>2, SupersedeFacts
  <2>2. \A k \in Messages \ {m} : stamp'[k] = stamp[k] BY FreshFacts
  <2> QED BY <1>1, <1>2, <2>1, <2>2, NewestOther
<1>3. CASE pr = PRNumber[m]
  <2>1. PRNumber[m] > 0 BY <1>3, MessageFacts DEF PRs
  <2>2. prState'[pr].at = At(m) /\ (prState'[pr].closed <=> m \in Closing)
    <3>1. prState'[pr] = [at |-> At(m), closed |-> m \in Closing, gen |-> prState[pr].gen + 1]
      BY <1>3, <2>1, SupersedeFacts
    <3>2. prState'[pr].at = At(m) BY <3>1
    <3>3. prState'[pr].closed <=> m \in Closing
      <4> DEFINE c == m \in Closing
      <4>1. prState'[pr] = [at |-> At(m), closed |-> c, gen |-> prState[pr].gen + 1] BY <3>1
      <4> HIDE DEF c
      <4>2. prState'[pr].closed = c BY <4>1
      <4> QED BY <4>2 DEF c
    <3> QED BY <3>2, <3>3
  <2>3. \A k \in Messages : PRNumber[k] = PRNumber[m] /\ stamp[k] > 0 =>
           stamp[k] < At(m) \/ (stamp[k] = At(m) /\ m \in Closing)
    <3> SUFFICES ASSUME NEW k \in Messages, PRNumber[k] = PRNumber[m], stamp[k] > 0
                 PROVE  stamp[k] < At(m) \/ (stamp[k] = At(m) /\ m \in Closing)
      OBVIOUS
    <3>1. stamp[k] <= prState[pr].at BY <1>1, <1>3 DEF Newest
    <3>2. prState[pr].gen > 0 BY <1>3, <2>1 DEF Bookkeeping
    <3>3. At(m) > prState[pr].at \/ (m \in Closing /\ At(m) >= prState[pr].at)
      BY <1>3, <2>1, <3>2, AtFacts DEF Stale
    <3>4. stamp[k] \in Nat /\ prState[pr].at \in Nat /\ At(m) \in Nat BY AtFacts DEF TypeOK
    <3> QED BY <3>1, <3>3, <3>4
  <2>4. /\ stamp \in [Messages -> Nat] /\ prState[pr] \in [at : Nat, closed : BOOLEAN, gen : Nat]
        /\ prState'[pr] \in [at : Nat, closed : BOOLEAN, gen : Nat]
    BY SupersedeFacts DEF TypeOK
  <2>5. stamp[m] = 0 /\ stamp'[m] = At(m) /\ stamp'[m] > 0 /\ stamp' \in [Messages -> Nat]
        /\ \A k \in Messages \ {m} : stamp'[k] = stamp[k]
    BY FreshFacts
  <2> QED BY <1>3, <2>2, <2>3, <2>4, <2>5, NewestTaken
<1> QED BY <1>2, <1>3

\* The pipelines that a message leaves open belong to other pull requests.
LEMMA CancelOlderFacts ==
    ASSUME TypeOK, NEW m \in Messages
    PROVE  /\ CancelOlder(m) \in [Messages -> Status]
           /\ \A p \in Messages :
                 /\ CancelOlder(m)[p] = "NONE" <=> status[p] = "NONE"
                 /\ status[p] # "OPEN" => CancelOlder(m)[p] = status[p]
                 /\ CancelOlder(m)[p] = "OPEN" =>
                       status[p] = "OPEN" /\ (PRNumber[p] > 0 => PRNumber[p] # PRNumber[m])
BY DEF CancelOlder, TypeOK, Status

\* Accept and Close: what they have in common.  The answer a is the new pipeline or
\* nothing.
LEMMA TakenStep ==
    ASSUME Inv, NEW m \in Messages, Arrives(m), ~Stale(m), supersede(m),
           NEW a \in Messages \cup {Nothing},
           deliveries' = [deliveries EXCEPT ![RequestID[m]] = a],
           now' = now,
           status' \in [Messages -> Status], gen' \in [Messages -> Nat],
           created' \in [Messages -> Nat],
           \A p \in Messages \ {m} : status'[p] = CancelOlder(m)[p] /\ gen'[p] = gen[p],
           \/ status'[m] = "NONE" /\ gen'[m] = gen[m]
           \/ /\ status'[m] = "OPEN" /\ m \notin Closing
              /\ PRNumber[m] > 0 => gen'[m] = prState[PRNumber[m]].gen + 1
    PROVE  Inv'
<1> USE DEF Inv
<1> DEFINE pr == PRNumber[m]
<1>1. stamp[m] = 0 /\ status[m] = "NONE" /\ stamp'[m] > 0 /\ stamp' \in [Messages -> Nat]
      /\ \A n \in Messages \ {m} : stamp'[n] = stamp[n]
  BY FreshFacts
<1>2. /\ prState' \in [PRs -> [at : Nat, closed : BOOLEAN, gen : Nat]]
      /\ preview' \in [PRs -> Preview \cup {NoPreview}]
      /\ \A q \in PRs \ {pr} : prState'[q] = prState[q] /\ preview'[q] = preview[q]
  BY SupersedeFacts
<1>3. ASSUME pr > 0
      PROVE  /\ pr \in PRs /\ prState[pr].gen \in Nat
             /\ prState'[pr].gen = prState[pr].gen + 1
             /\ preview'[pr].desired # "ACTIVE"
             /\ m \notin Closing => ~prState'[pr].closed
  <2>1. pr \in PRs /\ prState[pr].gen \in Nat BY <1>3, MessageFacts DEF TypeOK
  <2>2. prState'[pr] = [at |-> At(m), closed |-> m \in Closing, gen |-> prState[pr].gen + 1]
        /\ preview'[pr].desired # "ACTIVE"
    BY <1>3, SupersedeFacts
  <2>3. prState'[pr].gen = prState[pr].gen + 1 BY <2>2
  <2>4. ASSUME m \notin Closing PROVE ~prState'[pr].closed
    <3>1. (m \in Closing) = FALSE BY <2>4
    <3>2. prState'[pr] = [at |-> At(m), closed |-> FALSE, gen |-> prState[pr].gen + 1]
      BY <2>2, <3>1
    <3> QED BY <3>2
  <2> QED BY <2>1, <2>2, <2>3, <2>4
<1>4. \A p \in Messages \ {m} :
        /\ status'[p] = "NONE" <=> status[p] = "NONE"
        /\ status[p] # "OPEN" => status'[p] = status[p]
        /\ status'[p] = "OPEN" => status[p] = "OPEN" /\ (PRNumber[p] > 0 => PRNumber[p] # pr)
  BY CancelOlderFacts
<1>5. TypeOK' BY <1>1, <1>2, AnswerRecorded DEF TypeOK
<1>6. NewestEventWins' BY SupersedeNewest
<1>7. Bookkeeping'
  <2>1. \A n \in Messages : stamp'[n] > 0 \/ status'[n] # "NONE" =>
           deliveries'[RequestID[n]] # Unseen
    <3>1. /\ deliveries'[RequestID[m]] # Unseen
          /\ \A n \in Messages : deliveries[RequestID[n]] # Unseen =>
                deliveries'[RequestID[n]] # Unseen
      BY AnswerRecorded
    <3> QED BY <1>1, <1>4, <3>1 DEF Bookkeeping
  <2>2. ASSUME NEW n \in Messages, PRNumber[n] > 0
        PROVE  /\ gen'[n] <= prState'[PRNumber[n]].gen
               /\ status'[n] # "NONE" => gen'[n] > 0
               /\ stamp'[n] > 0 => prState'[PRNumber[n]].gen > 0
    <3>1. PRNumber[n] \in PRs BY <2>2, MessageFacts
    <3>2. gen[n] \in Nat /\ gen[n] <= prState[PRNumber[n]].gen
          /\ (status[n] # "NONE" => gen[n] > 0)
          /\ (stamp[n] > 0 => prState[PRNumber[n]].gen > 0)
      BY <2>2 DEF Bookkeeping, TypeOK
    <3>3. CASE n = m BY <3>2, <3>3, <2>2, <1>1, <1>3
    <3>4. CASE n # m /\ PRNumber[n] = pr BY <3>2, <3>4, <2>2, <1>1, <1>3, <1>4
    <3>5. CASE n # m /\ PRNumber[n] # pr BY <3>1, <3>2, <3>5, <1>1, <1>2, <1>4
    <3> QED BY <3>3, <3>4, <3>5
  <2>3. ASSUME NEW q \in PRs, prState'[q].gen > 0
        PROVE  \E n \in Messages : PRNumber[n] = q /\ stamp'[n] > 0
    <3>1. CASE q = pr BY <3>1, <1>1
    <3>2. CASE q # pr
      <4>1. PICK n \in Messages : PRNumber[n] = q /\ stamp[n] > 0
        BY <2>3, <3>2, <1>2 DEF Bookkeeping
      <4> QED BY <4>1, <3>2, <1>1
    <3> QED BY <3>1, <3>2
  <2> QED BY <2>1, <2>2, <2>3 DEF Bookkeeping
<1>8. OneOpenPipeline'
  <2> SUFFICES ASSUME NEW p \in Messages, status'[p] = "OPEN", PRNumber[p] > 0
               PROVE  /\ ~prState'[PRNumber[p]].closed
                      /\ gen'[p] = prState'[PRNumber[p]].gen
                      /\ \A q \in Messages \ {p} : PRNumber[q] = PRNumber[p] => gen'[q] # gen'[p]
    BY DEF OneOpenPipeline
  <2>1. CASE p = m
    <3>1. m \notin Closing /\ gen'[m] = prState[pr].gen + 1 BY <2>1
    <3>2. \A q \in Messages \ {m} : PRNumber[q] = pr => gen'[q] # gen'[m]
      <4> SUFFICES ASSUME NEW q \in Messages \ {m}, PRNumber[q] = pr PROVE gen'[q] # gen'[m]
        OBVIOUS
      <4>1. gen[q] \in Nat /\ gen[q] <= prState[pr].gen /\ gen'[q] = gen[q]
        BY <2>1 DEF Bookkeeping, TypeOK
      <4> QED BY <4>1, <3>1, <2>1, <1>3
    <3> QED BY <2>1, <3>1, <3>2, <1>3
  <2>2. CASE p # m
    <3>1. status[p] = "OPEN" /\ PRNumber[p] # pr /\ PRNumber[p] \in PRs
      BY <2>2, <1>4, MessageFacts
    <3>2. /\ ~prState[PRNumber[p]].closed /\ gen[p] = prState[PRNumber[p]].gen
          /\ \A q \in Messages \ {p} : PRNumber[q] = PRNumber[p] => gen[q] # gen[p]
      BY <3>1 DEF OneOpenPipeline
    <3> QED BY <2>2, <3>1, <3>2, <1>2
  <2> QED BY <2>1, <2>2
<1>9. ActiveIsCurrent'
  <2> SUFFICES ASSUME NEW q \in PRs, preview'[q].desired = "ACTIVE"
               PROVE  /\ ~prState'[q].closed
                      /\ preview'[q].gen = prState'[q].gen
                      /\ status'[preview'[q].owner] = "SUCCEEDED"
                      /\ gen'[preview'[q].owner] = prState'[q].gen
    BY DEF ActiveIsCurrent
  <2>1. q # pr
    <3> SUFFICES ASSUME q = pr PROVE FALSE OBVIOUS
    <3>1. pr > 0 BY MessageFacts DEF PRs
    <3> QED BY <3>1, <1>3
  <2>2. preview'[q] = preview[q] /\ prState'[q] = prState[q] BY <2>1, <1>2
  <2>3. /\ ~prState[q].closed /\ preview[q].gen = prState[q].gen
        /\ status[preview[q].owner] = "SUCCEEDED" /\ gen[preview[q].owner] = prState[q].gen
    BY <2>2 DEF ActiveIsCurrent
  <2>4. preview[q].owner \in Messages
    BY <2>2 DEF TypeOK, Preview, NoPreview
  <2> QED BY <2>2, <2>3, <2>4, <1>1, <1>4
<1> QED BY <1>5, <1>6, <1>7, <1>8, <1>9

\* A new revision becomes the only open pipeline of its pull request.
LEMMA AcceptStep ==
    ASSUME Inv, NEW m \in Messages, Accept(m)
    PROVE  Inv'
<1> USE DEF Inv
<1>1. /\ Arrives(m) /\ ~Stale(m) /\ supersede(m) /\ m \notin Closing
      /\ deliveries' = [deliveries EXCEPT ![RequestID[m]] = m] /\ now' = now
      /\ status' = [CancelOlder(m) EXCEPT ![m] = "OPEN"]
      /\ gen' = [gen EXCEPT ![m] = IF PRNumber[m] > 0 THEN Previous(m).gen + 1 ELSE 0]
      /\ created' = [created EXCEPT ![m] = now]
  BY DEF Accept
<1>2. now \in Nat /\ Previous(m).gen + 1 \in Nat /\ "OPEN" \in Status
  BY MessageAssumption, AtFacts DEF TypeOK, Status
<1>3. status' \in [Messages -> Status] /\ gen' \in [Messages -> Nat]
      /\ created' \in [Messages -> Nat]
  BY <1>1, <1>2, CancelOlderFacts DEF TypeOK
<1>4. \A p \in Messages \ {m} : status'[p] = CancelOlder(m)[p] /\ gen'[p] = gen[p]
  BY <1>1, CancelOlderFacts DEF TypeOK
<1>5. status'[m] = "OPEN" /\ (PRNumber[m] > 0 => gen'[m] = prState[PRNumber[m]].gen + 1)
  BY <1>1, CancelOlderFacts, AtFacts DEF TypeOK
<1> QED BY <1>1, <1>3, <1>4, <1>5, TakenStep

\* A closing leaves no pipeline of its pull request open.
LEMMA CloseStepKeepsInv ==
    ASSUME Inv, NEW m \in Messages, Close(m)
    PROVE  Inv'
<1> USE DEF Inv
<1>1. /\ Arrives(m) /\ ~Stale(m) /\ supersede(m)
      /\ deliveries' = [deliveries EXCEPT ![RequestID[m]] = Nothing]
      /\ status' = CancelOlder(m) /\ UNCHANGED <<now, gen, created>>
  BY DEF Close
<1>2. status' \in [Messages -> Status] /\ gen' \in [Messages -> Nat]
      /\ created' \in [Messages -> Nat]
  BY <1>1, CancelOlderFacts DEF TypeOK
<1>3. status'[m] = "NONE" BY <1>1, CancelOlderFacts, FreshFacts
<1> QED BY <1>1, <1>2, <1>3, TakenStep

-----------------------------------------------------------------------------
(* The other actions. *)

\* A step that hears of no message and opens no pipeline.
LEMMA QuietStep ==
    ASSUME Inv, UNCHANGED submitVars,
           now' \in 1 .. MaxTime,
           status' \in [Messages -> Status],
           preview' \in [PRs -> Preview \cup {NoPreview}],
           \A p \in Messages : /\ status'[p] = "NONE" <=> status[p] = "NONE"
                               /\ status'[p] = "OPEN" => status[p] = "OPEN",
           ActiveIsCurrent'
    PROVE  Inv'
<1> USE DEF Inv, submitVars
<1>1. TypeOK' BY DEF TypeOK
<1>2. NewestEventWins'
  <2>1. \A pr \in PRs : Newest(pr, stamp, prState[pr]) BY NewestMeaning
  <2>2. UNCHANGED <<stamp, prState>> OBVIOUS
  <2> QED BY <2>1, <2>2, NewestMeaning
<1>3. OneOpenPipeline' BY DEF OneOpenPipeline
<1>4. Bookkeeping' BY DEF Bookkeeping
<1> QED BY <1>1, <1>2, <1>3, <1>4

\* The owner of a preview is a message.
LEMMA OwnerType ==
    ASSUME TypeOK, NEW pr \in PRs, preview[pr].desired = "ACTIVE"
    PROVE  preview[pr] \in Preview /\ preview[pr].owner \in Messages
BY DEF TypeOK, Preview, NoPreview

\* A preview that pipeline p may have is current.
LEMMA ActivatedIsCurrent ==
    ASSUME NEW p \in Messages, MayActivate(p)
    PROVE  /\ PRNumber[p] \in PRs /\ ~prState[PRNumber[p]].closed
           /\ Activated(p).gen = prState[PRNumber[p]].gen
           /\ Activated(p).owner = p /\ gen[p] = prState[PRNumber[p]].gen
BY MessageFacts DEF MayActivate, Activated

\* A pipeline that succeeds takes the preview only if it is current.
LEMMA SucceedStep ==
    ASSUME Inv, NEW p \in Messages, Succeed(p)
    PROVE  Inv'
<1> USE DEF Inv
<1> DEFINE pr == PRNumber[p]
<1>1. /\ status[p] = "OPEN" /\ status' = [status EXCEPT ![p] = "SUCCEEDED"]
      /\ preview' = IF MayActivate(p) /\ preview[pr].desired # "DELETING"
                    THEN [preview EXCEPT ![pr] = Activated(p)] ELSE preview
      /\ UNCHANGED <<now, submitVars>>
  BY DEF Succeed
<1>2. status' \in [Messages -> Status] /\ status'[p] = "SUCCEEDED"
      /\ \A q \in Messages \ {p} : status'[q] = status[q]
  BY <1>1 DEF TypeOK, Status
<1>3. preview' \in [PRs -> Preview \cup {NoPreview}]
  BY <1>1, ActivatedType DEF TypeOK
<1>4. ActiveIsCurrent'
  <2> SUFFICES ASSUME NEW q \in PRs, preview'[q].desired = "ACTIVE"
               PROVE  /\ ~prState[q].closed
                      /\ preview'[q].gen = prState[q].gen
                      /\ status'[preview'[q].owner] = "SUCCEEDED"
                      /\ gen[preview'[q].owner] = prState[q].gen
    BY <1>1 DEF ActiveIsCurrent, submitVars
  <2>1. CASE MayActivate(p) /\ q = pr /\ preview'[q] = Activated(p)
    BY <2>1, <1>2, ActivatedIsCurrent
  <2>2. CASE preview'[q] = preview[q]
    BY <2>2, <1>1, <1>2, OwnerType DEF ActiveIsCurrent
  <2> QED BY <2>1, <2>2, <1>1 DEF TypeOK
<1> QED BY <1>1, <1>2, <1>3, <1>4, QuietStep DEF TypeOK

\* A pipeline that fails owns no preview.
LEMMA FailStep ==
    ASSUME Inv, NEW p \in Messages, Fail(p)
    PROVE  Inv'
<1> USE DEF Inv
<1>1. /\ status[p] = "OPEN" /\ status' = [status EXCEPT ![p] = "FAILED"]
      /\ UNCHANGED <<now, submitVars, preview>>
  BY DEF Fail
<1>2. status' \in [Messages -> Status] /\ status'[p] = "FAILED"
      /\ \A q \in Messages \ {p} : status'[q] = status[q]
  BY <1>1 DEF TypeOK, Status
<1>3. ActiveIsCurrent' BY <1>1, <1>2, OwnerType DEF ActiveIsCurrent, submitVars
<1> QED BY <1>1, <1>2, <1>3, QuietStep DEF TypeOK

\* A cancelled job takes the preview of its pull request down.
LEMMA CancelJobStep ==
    ASSUME Inv, NEW p \in Messages, CancelJob(p)
    PROVE  Inv'
<1> USE DEF Inv
<1> DEFINE pr == PRNumber[p]
<1>1. /\ status[p] = "OPEN" /\ status' = [status EXCEPT ![p] = "CANCELLED"]
      /\ preview' = IF pr > 0 /\ preview[pr].desired = "ACTIVE"
                    THEN [preview EXCEPT ![pr] = Deleting(preview[pr], preview[pr].gen + 1)]
                    ELSE preview
      /\ UNCHANGED <<now, submitVars>>
  BY DEF CancelJob
<1>2. status' \in [Messages -> Status] /\ status'[p] = "CANCELLED"
      /\ \A q \in Messages \ {p} : status'[q] = status[q]
  BY <1>1 DEF TypeOK, Status
<1>3. ASSUME pr > 0, preview[pr].desired = "ACTIVE"
      PROVE  /\ pr \in PRs /\ Deleting(preview[pr], preview[pr].gen + 1) \in Preview
             /\ Deleting(preview[pr], preview[pr].gen + 1).desired = "DELETING"
  <2>1. pr \in PRs /\ preview[pr] \in Preview BY <1>3, MessageFacts, OwnerType
  <2>2. preview[pr].gen + 1 \in Nat BY <2>1 DEF Preview
  <2>3. Deleting(preview[pr], preview[pr].gen + 1).desired = "DELETING"
    BY <2>1 DEF Deleting, Preview
  <2> QED BY <2>1, <2>2, <2>3, PreviewTypes
<1>4. preview' \in [PRs -> Preview \cup {NoPreview}] BY <1>1, <1>3 DEF TypeOK
<1>5. \A q \in PRs : preview'[q].desired = "ACTIVE" => preview'[q] = preview[q]
  BY <1>1, <1>3 DEF TypeOK
<1>6. ActiveIsCurrent' BY <1>1, <1>2, <1>5, OwnerType DEF ActiveIsCurrent, submitVars
<1> QED BY <1>1, <1>2, <1>4, <1>6, QuietStep DEF TypeOK

\* Reconcile, pruneLocked and EnsurePreviews keep the owner of a preview that is to
\* be up, and activate only what is current.
LEMMA TickKeepsInv ==
    ASSUME Inv, Tick
    PROVE  Inv'
<1> USE DEF Inv
<1> DEFINE reconciled == [pr \in PRs |-> Reconciled(preview[pr])]
           gone == Pruned(reconciled)
           Ensured(pr) == IF reconciled[pr] # NoPreview \/ Deferred(pr, gone) = {}
                          THEN {reconciled[pr]}
                          ELSE {Activated(p) : p \in Deferred(pr, gone)}
<1>1. /\ preview' \in [PRs -> UNION {Ensured(pr) : pr \in PRs}]
      /\ \A pr \in PRs : preview'[pr] \in Ensured(pr)
      /\ status' = [p \in Messages |-> IF p \in gone THEN "PRUNED" ELSE status[p]]
      /\ UNCHANGED <<now, submitVars>>
  BY DEF Tick
<1>2. \A p \in gone : p \in Messages /\ status[p] \in {"SUCCEEDED", "FAILED", "CANCELLED"}
      /\ \A pr \in PRs : reconciled[pr].owner # p
  BY DEF Pruned, Over
<1> HIDE DEF gone
<1>3. status' \in [Messages -> Status]
      /\ \A p \in Messages : /\ status'[p] = "NONE" <=> status[p] = "NONE"
                             /\ status'[p] = "OPEN" => status[p] = "OPEN"
  BY <1>1, <1>2 DEF TypeOK, Status
<1>4. \A pr \in PRs : reconciled[pr] \in Preview \cup {NoPreview}
  BY ReconciledType DEF TypeOK
<1>5. \A pr \in PRs : reconciled[pr].desired = "ACTIVE" => reconciled[pr] = preview[pr]
  <2> SUFFICES ASSUME NEW pr \in PRs, Reconciled(preview[pr]).desired = "ACTIVE"
               PROVE  Reconciled(preview[pr]) = preview[pr]
    OBVIOUS
  <2> DEFINE v == preview[pr]
             w == Deleting(v, v.gen + 1)
  <2>1. CASE v.desired = "ACTIVE" /\ now >= v.expires
    <3>1. v \in Preview BY <2>1, OwnerType
    <3>2. w.desired = "DELETING" BY <3>1 DEF Deleting, Preview
    <3>3. Reconciled(v) = w \/ Reconciled(v) = NoPreview BY <2>1 DEF Reconciled, Removed
    <3>4. NoPreview.desired = "NONE" BY DEF NoPreview
    <3> HIDE DEF w
    <3> QED BY <3>2, <3>3, <3>4
  <2>2. CASE ~(v.desired = "ACTIVE" /\ now >= v.expires)
    <3>1. Reconciled(v) = v \/ Reconciled(v) = NoPreview BY <2>2 DEF Reconciled, Removed
    <3>2. NoPreview.desired = "NONE" BY DEF NoPreview
    <3> QED BY <3>1, <3>2
  <2> QED BY <2>1, <2>2
<1>6. \A pr \in PRs : \/ preview'[pr] = reconciled[pr]
                      \/ \E p \in Deferred(pr, gone) : preview'[pr] = Activated(p)
  BY <1>1
<1>7. \A pr \in PRs : \A p \in Deferred(pr, gone) :
        p \in Messages \ gone /\ PRNumber[p] = pr /\ status[p] = "SUCCEEDED" /\ MayActivate(p)
  BY DEF Deferred
<1> HIDE DEF Ensured, reconciled
<1>8. preview' \in [PRs -> Preview \cup {NoPreview}]
  <2>1. \A pr \in PRs : preview'[pr] \in Preview \cup {NoPreview}
    BY <1>4, <1>6, <1>7, ActivatedType
  <2> QED BY <1>1, <2>1
<1>9. ActiveIsCurrent'
  <2> SUFFICES ASSUME NEW q \in PRs, preview'[q].desired = "ACTIVE"
               PROVE  /\ ~prState[q].closed
                      /\ preview'[q].gen = prState[q].gen
                      /\ status'[preview'[q].owner] = "SUCCEEDED"
                      /\ gen[preview'[q].owner] = prState[q].gen
    BY <1>1 DEF ActiveIsCurrent, submitVars
  <2>1. CASE preview'[q] = reconciled[q]
    <3>1. preview'[q] = preview[q] /\ preview[q].owner \in Messages BY <2>1, <1>5, OwnerType
    <3>2. preview[q].owner \notin gone BY <2>1, <3>1, <1>2
    <3> QED BY <3>1, <3>2, <1>1 DEF ActiveIsCurrent
  <2>2. ASSUME NEW p \in Deferred(q, gone), preview'[q] = Activated(p)
        PROVE  /\ ~prState[q].closed
               /\ preview'[q].gen = prState[q].gen
               /\ status'[preview'[q].owner] = "SUCCEEDED"
               /\ gen[preview'[q].owner] = prState[q].gen
    <3>1. p \in Messages \ gone /\ PRNumber[p] = q /\ status[p] = "SUCCEEDED" /\ MayActivate(p)
      BY <1>7
    <3>2. status'[p] = "SUCCEEDED" BY <3>1, <1>1
    <3> QED BY <2>2, <3>1, <3>2, ActivatedIsCurrent
  <2> QED BY <2>1, <2>2, <1>6
<1> QED BY <1>1, <1>3, <1>8, <1>9, QuietStep DEF TypeOK

\* A report changes the actual state alone.
LEMMA AnyReportStep ==
    ASSUME Inv, AnyReport
    PROVE  Inv'
<1> USE DEF Inv
<1>1. PICK pr \in PRs, actual \in {"PENDING", "ACTIVE", "DELETED"} :
         ObservePreview(pr, preview[pr], actual)
  BY DEF AnyReport
<1>2. /\ preview[pr] # NoPreview /\ preview' = [preview EXCEPT ![pr].actual = actual]
      /\ UNCHANGED <<now, submitVars, status>>
  BY <1>1 DEF ObservePreview
<1>3. preview[pr] \in Preview BY <1>2 DEF TypeOK
<1>4. [preview[pr] EXCEPT !.actual = actual] \in Preview BY <1>3 DEF Preview
<1>5. preview' \in [PRs -> Preview \cup {NoPreview}] BY <1>2, <1>4 DEF TypeOK
<1>6. \A q \in PRs : /\ preview'[q].desired = preview[q].desired
                     /\ preview'[q].gen = preview[q].gen
                     /\ preview'[q].owner = preview[q].owner
  <2>1. \A q \in PRs \ {pr} : preview'[q] = preview[q] BY <1>2 DEF TypeOK
  <2>2. preview'[pr] = [preview[pr] EXCEPT !.actual = actual] BY <1>2 DEF TypeOK
  <2> QED BY <2>1, <2>2, <1>3 DEF Preview
<1>7. ActiveIsCurrent' BY <1>2, <1>6 DEF ActiveIsCurrent, submitVars
<1> QED BY <1>2, <1>5, <1>7, QuietStep DEF TypeOK

\* Time passes.
LEMMA AdvanceStep ==
    ASSUME Inv, Advance
    PROVE  Inv'
<1> USE DEF Inv
<1>1. now < MaxTime /\ now' = now + 1 /\ UNCHANGED <<submitVars, status, preview>>
  BY DEF Advance
<1>2. now' \in 1 .. MaxTime BY <1>1, MessageAssumption DEF TypeOK
<1>3. ActiveIsCurrent' BY <1>1 DEF ActiveIsCurrent, submitVars
<1> QED BY <1>1, <1>2, <1>3, QuietStep DEF TypeOK

-----------------------------------------------------------------------------
(* The theorems. *)

\* The invariant holds at the start.
LEMMA InitInv == Init => Inv
<1> SUFFICES ASSUME Init PROVE Inv OBVIOUS
<1>1. TypeOK BY MessageAssumption DEF Init, TypeOK, Status
<1>2. NewestEventWins BY DEF Init, NewestEventWins
<1>3. OneOpenPipeline BY DEF Init, OneOpenPipeline
<1>4. ActiveIsCurrent BY DEF Init, ActiveIsCurrent, NoPreview
<1>5. Bookkeeping BY MessageFacts DEF Init, Bookkeeping
<1> QED BY <1>1, <1>2, <1>3, <1>4, <1>5 DEF Inv

\* Every step of the store keeps the invariant.
LEMMA NextInv == Inv /\ [StoreNext \/ AnyReport]_storeVars => Inv'
<1> SUFFICES ASSUME Inv, [StoreNext \/ AnyReport]_storeVars PROVE Inv' OBVIOUS
<1>1. CASE UNCHANGED storeVars
  <2>1. ActiveIsCurrent' BY <1>1 DEF Inv, ActiveIsCurrent, storeVars, submitVars
  <2> QED BY <1>1, <2>1, QuietStep DEF Inv, TypeOK, storeVars
<1> QED BY <1>1, IgnoreStaleStep, ShareStep, AcceptStep, CloseStepKeepsInv, SucceedStep, FailStep,
           CancelJobStep, TickKeepsInv, AnyReportStep, AdvanceStep
        DEF StoreNext, Submit

\* The invariant holds in every state the store can reach, whatever messages there
\* are and however they, the results, the ticks and the reports are interleaved.
THEOREM InvariantHolds == StoreSpec => []Inv
BY InitInv, NextInv, PTL DEF StoreSpec

\* The states of the store are well typed.
THEOREM TypeCorrect == StoreSpec => []TypeOK
BY InvariantHolds, PTL DEF Inv

\* Whatever the order of arrival, the newest event decides (Submit).
THEOREM NewestDecides == StoreSpec => []NewestEventWins
BY InvariantHolds, PTL DEF Inv

\* A pull request has at most one open pipeline, and none once it is closed.
THEOREM AtMostOneOpen == StoreSpec => []OneOpenPipeline
BY InvariantHolds, PTL DEF Inv

\* A preview that is to be up belongs to the newest revision of an open pull request
\* (activatePreviewLocked, EnsurePreviews).
THEOREM PreviewIsCurrent == StoreSpec => []ActiveIsCurrent
BY InvariantHolds, PTL DEF Inv

\* Every step keeps the answers that were given (Submit).
LEMMA AnsweredNext == Inv /\ [StoreNext \/ AnyReport]_storeVars => [AnsweredStep]_storeVars
<1> SUFFICES ASSUME Inv, StoreNext \/ AnyReport PROVE AnsweredStep OBVIOUS
<1>1. ASSUME NEW m \in Messages, Submit(m) PROVE AnsweredStep
  <2>1. Arrives(m) /\ deliveries[RequestID[m]] = Unseen
    BY <1>1 DEF Submit, IgnoreStale, Share, Accept, Close, Arrives, Fresh
  <2>2. \A id \in RequestIDs \ {RequestID[m]} : deliveries'[id] = deliveries[id]
    BY <1>1 DEF Submit, IgnoreStale, Share, Accept, Close, Inv, TypeOK
  <2>3. \A n \in Messages \ {m} : status[n] = "NONE" => status'[n] = "NONE"
    <3>1. CASE IgnoreStale(m) \/ Share(m) BY <3>1 DEF IgnoreStale, Share
    <3>2. CASE Accept(m) \/ Close(m) BY <3>2, CancelOlderFacts DEF Accept, Close, Inv, TypeOK
    <3> QED BY <1>1, <3>1, <3>2 DEF Submit
  <2> QED BY <2>1, <2>2, <2>3 DEF AnsweredStep
<1>2. ASSUME UNCHANGED deliveries, \A n \in Messages : status[n] = "NONE" => status'[n] = "NONE"
      PROVE  AnsweredStep
  BY <1>2 DEF AnsweredStep
<1>3. ASSUME NEW p \in Messages, Succeed(p) \/ Fail(p) \/ CancelJob(p) PROVE AnsweredStep
  BY <1>2, <1>3 DEF Succeed, Fail, CancelJob, submitVars, Inv, TypeOK
<1>4. CASE Tick
  <2>1. UNCHANGED deliveries BY <1>4 DEF Tick, submitVars
  <2>2. \E gone : /\ \A p \in gone : Over(p)
                  /\ status' = [p \in Messages |-> IF p \in gone THEN "PRUNED" ELSE status[p]]
    BY <1>4 DEF Tick, Pruned
  <2>3. \A n \in Messages : status[n] = "NONE" => status'[n] = "NONE" BY <2>2 DEF Over
  <2> QED BY <1>2, <2>1, <2>3
<1>5. CASE Advance BY <1>2, <1>5 DEF Advance, submitVars
<1>6. CASE AnyReport BY <1>2, <1>6 DEF AnyReport, ObservePreview, submitVars
<1> QED BY <1>1, <1>3, <1>4, <1>5, <1>6 DEF StoreNext

\* The answer to a request ID is given once and never creates another pipeline.
THEOREM AnswersStay == StoreSpec => AnswersAreFinal
BY InvariantHolds, AnsweredNext, PTL DEF StoreSpec, AnswersAreFinal

-----------------------------------------------------------------------------
(* A closing takes effect where no pipeline of a pull request is started by hand. *)

OnlyWebhooks == \A m \in Messages : PRNumber[m] > 0 => EventTime[m] > 0

\* A message of a pull request is stamped with its event time.
StampedByEvent ==
    \A m \in Messages : PRNumber[m] > 0 /\ stamp[m] > 0 => stamp[m] = EventTime[m]

\* Every step stamps with event times alone.
LEMMA StampNext == Inv /\ OnlyWebhooks /\ StampedByEvent /\ [StoreNext \/ AnyReport]_storeVars
                      => StampedByEvent'
<1> SUFFICES ASSUME Inv, OnlyWebhooks, StampedByEvent, [StoreNext \/ AnyReport]_storeVars
             PROVE  StampedByEvent'
  OBVIOUS
<1>1. ASSUME NEW m \in Messages, Submit(m) PROVE StampedByEvent'
  <2>1. Arrives(m) BY <1>1 DEF Submit, IgnoreStale, Share, Accept, Close
  <2>2. PRNumber[m] > 0 => At(m) = EventTime[m] BY MessageFacts DEF OnlyWebhooks, At
  <2>3. stamp'[m] = At(m) /\ \A n \in Messages \ {m} : stamp'[n] = stamp[n]
    BY <2>1, <2>2, FreshFacts DEF Inv
  <2> QED BY <2>2, <2>3 DEF StampedByEvent
<1>2. ASSUME UNCHANGED stamp PROVE StampedByEvent' BY <1>2 DEF StampedByEvent
<1>3. ASSUME NEW p \in Messages, Succeed(p) \/ Fail(p) \/ CancelJob(p) PROVE StampedByEvent'
  BY <1>2, <1>3 DEF Succeed, Fail, CancelJob, submitVars
<1>4. CASE Tick \/ Advance BY <1>2, <1>4 DEF Tick, Advance, submitVars
<1>5. CASE AnyReport BY <1>2, <1>5 DEF AnyReport, ObservePreview, submitVars
<1>6. CASE UNCHANGED storeVars BY <1>2, <1>6 DEF storeVars, submitVars
<1> QED BY <1>1, <1>3, <1>4, <1>5, <1>6 DEF StoreNext

\* A closing that is answered after no later event closes its pull request.
LEMMA CloseNext == Inv /\ OnlyWebhooks /\ StampedByEvent /\ [StoreNext \/ AnyReport]_storeVars
                      => [CloseStep]_storeVars
<1> SUFFICES ASSUME Inv, OnlyWebhooks, StampedByEvent, StoreNext \/ AnyReport,
                    NEW m \in Closing, stamp[m] = 0, stamp'[m] # 0,
                    \A n \in Messages : PRNumber[n] = PRNumber[m] /\ stamp[n] > 0 =>
                       EventTime[n] <= EventTime[m]
             PROVE  prState'[PRNumber[m]].closed
  BY DEF CloseStep
<1> DEFINE pr == PRNumber[m]
<1>1. m \in Messages /\ pr > 0 /\ pr \in PRs BY MessageAssumption, MessageFacts
<1>2. Submit(m)
  <2>1. ASSUME NEW n \in Messages, Submit(n) PROVE n = m
    <3>1. Arrives(n) BY <2>1 DEF Submit, IgnoreStale, Share, Accept, Close
    <3> QED BY <1>1, <3>1, FreshFacts DEF Inv
  <2>2. stamp' # stamp OBVIOUS
  <2> QED BY <2>1, <2>2 DEF StoreNext, Succeed, Fail, CancelJob, Tick, Advance, AnyReport,
                            ObservePreview, submitVars
<1>3. CASE IgnoreStale(m)
  <2>1. Stale(m) /\ prState' = prState BY <1>3 DEF IgnoreStale
  <2>2. Previous(m) = prState[pr] BY <1>1 DEF Previous
  <2>3. prState[pr].gen > 0 /\ (prState[pr].closed \/ At(m) < prState[pr].at)
    BY <2>1, <2>2 DEF Stale
  <2>4. ~(At(m) < prState[pr].at)
    <3>1. \E n \in Messages : PRNumber[n] = pr /\ stamp[n] > 0
      BY <1>1, <2>3 DEF Inv, Bookkeeping
    <3>2. Newest(pr, stamp, prState[pr]) BY <1>1, NewestMeaning DEF Inv
    <3>3. PICK n \in Messages : PRNumber[n] = pr /\ stamp[n] > 0 /\ stamp[n] = prState[pr].at
      BY <3>1, <3>2 DEF Newest
    <3>4. stamp[n] = EventTime[n] /\ EventTime[n] <= EventTime[m]
      BY <1>1, <3>3 DEF StampedByEvent
    <3>5. At(m) = EventTime[m] BY <1>1, MessageFacts DEF OnlyWebhooks, At
    <3>6. EventTime[m] \in Nat /\ EventTime[n] \in Nat BY <1>1, MessageFacts
    <3> QED BY <3>3, <3>4, <3>5, <3>6
  <2> QED BY <2>1, <2>3, <2>4
<1>4. CASE Close(m)
  <2>1. supersede(m) BY <1>4 DEF Close
  <2> DEFINE closes == m \in Closing
             s == [at |-> At(m), closed |-> closes, gen |-> Previous(m).gen + 1]
  <2>2. prState'[pr] = s BY <1>1, <2>1 DEF supersede, Inv, TypeOK
  <2>3. closes OBVIOUS
  <2> HIDE DEF closes
  <2>4. s.closed = closes OBVIOUS
  <2> HIDE DEF s
  <2>5. prState'[pr].closed = closes BY <2>2, <2>4
  <2> QED BY <2>3, <2>5
<1>5. ~Share(m) /\ ~Accept(m) BY DEF Share, Shared, Accept
<1> QED BY <1>2, <1>3, <1>4, <1>5 DEF Submit

\* Where every message of a pull request is a webhook, with an event time of its own, a
\* closing is ignored only for a later event: it is the manual submissions that undo
\* CloseTakesEffect (Submit).
THEOREM WebhooksCloseInTime ==
    ASSUME OnlyWebhooks
    PROVE  StoreSpec => CloseTakesEffect
<1>1. Init => StampedByEvent BY DEF Init, StampedByEvent
<1>2. OnlyWebhooks OBVIOUS
<1>3. Inv /\ StampedByEvent /\ [StoreNext \/ AnyReport]_storeVars => StampedByEvent'
  BY <1>2, StampNext
<1>4. Inv /\ StampedByEvent /\ [StoreNext \/ AnyReport]_storeVars => [CloseStep]_storeVars
  BY <1>2, CloseNext
<1> QED BY <1>1, <1>3, <1>4, InvariantHolds, PTL DEF StoreSpec, CloseTakesEffect

=============================================================================
