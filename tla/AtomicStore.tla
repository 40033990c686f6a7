----------------------------- MODULE AtomicStore -----------------------------
(***************************************************************************)
(* What the API promises about the results of attempts, however many       *)
(* replicas serve it and however often they stop: one store, changed one   *)
(* operation at a time.  An attempt ends once.  A caller who is told that  *)
(* a result is stored finds it stored, and a caller who is told that it is *)
(* refused is free to forget it: it is not stored, and never will be.      *)
(***************************************************************************)
CONSTANTS
    Attempts,
    Results,    \* the completions that workers report
    AttemptOf,  \* [Results -> Attempts]
    Open,       \* an attempt that has not ended
    Ended       \* an attempt that ended without a result: expired or cancelled

VARIABLES
    outcome,    \* [Attempts -> Results \cup {Open, Ended}]
    answer      \* [Results -> {"none", "ok", "refused"}]

storeVars == <<outcome, answer>>

StoreInit ==
    /\ outcome = [a \in Attempts |-> Open]
    /\ answer = [r \in Results |-> "none"]

Store(r) ==
    /\ outcome[AttemptOf[r]] = Open /\ answer[r] # "refused"
    /\ outcome' = [outcome EXCEPT ![AttemptOf[r]] = r]
    /\ UNCHANGED answer

\* A tick ends attempts, several at a time.
EndAttempts(S) ==
    /\ \A a \in S : outcome[a] = Open
    /\ outcome' = [a \in Attempts |-> IF a \in S THEN Ended ELSE outcome[a]]
    /\ UNCHANGED answer

Confirm(r) ==
    /\ outcome[AttemptOf[r]] = r
    /\ answer' = [answer EXCEPT ![r] = "ok"]
    /\ UNCHANGED outcome

Refuse(r) ==
    /\ outcome[AttemptOf[r]] # r /\ answer[r] = "none"
    /\ answer' = [answer EXCEPT ![r] = "refused"]
    /\ UNCHANGED outcome

StoreNext ==
    \/ \E r \in Results : Store(r) \/ Confirm(r) \/ Refuse(r)
    \/ \E S \in SUBSET Attempts : EndAttempts(S)

StoreSpec == StoreInit /\ [][StoreNext]_storeVars

=============================================================================
