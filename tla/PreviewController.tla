-------------------------- MODULE PreviewController --------------------------
(***************************************************************************)
(* The preview controller (cmd/controller, internal/kube/preview.go) with  *)
(* the store it reads from and reports to, and the namespaces it manages.  *)
(*                                                                         *)
(* The controller is a single process.  In each round it lists the         *)
(* previews, then brings the namespace of each one towards what it read    *)
(* and reports what it found; the store may have moved on in between.      *)
(* Kubernetes removes a namespace, and makes a deployment available, in    *)
(* its own time; any of its calls may fail, before or after its effect;    *)
(* the controller gives up on a report after a while, and the report may   *)
(* still reach the store later or never; and the controller may stop at    *)
(* any point and start again with a new round.                             *)
(***************************************************************************)
EXTENDS PullRequests

CONSTANT MaxLate    \* bound on the reports that are under way after a time-out

VARIABLES
    namespace,  \* [PRs -> [phase, app, ready]]: the preview's namespace and deployment
    todo,       \* the previews of this round that are still to be reconciled
    report,     \* the observation the controller is sending: a set of at most one
    late        \* the observations it has given up on that may still arrive

controllerVars == <<todo, report, late>>
allVars == <<storeVars, namespace, controllerVars>>

Phase == {"absent", "live", "terminating"}
NoNamespace == [phase |-> "absent", app |-> 0, ready |-> FALSE]

ControllerInit ==
    /\ Init
    /\ namespace = [pr \in PRs |-> NoNamespace]
    /\ todo = {}
    /\ report = {}
    /\ late = {}

PreviewList == {<<pr, preview[pr]>> : pr \in {x \in PRs : preview[x] # NoPreview}}

\* GET /v1/internal/previews, once the round before is over.
List_ActiveOnly ==
    /\ todo = {} /\ report = {}
    /\ todo' = {e \in PreviewList : e[2].desired = "ACTIVE"}
    /\ UNCHANGED <<storeVars, namespace, report, late>>
List ==
    /\ todo = {} /\ report = {}
    /\ todo' = PreviewList
    /\ UNCHANGED <<storeVars, namespace, report, late>>

\* Reconcile has dealt with entry e and found `actual'.  It is reported if the
\* state or the error text is new; the text is left out.
Found(e, actual) ==
    /\ todo' = todo \ {e}
    /\ \/ report' = {[pr |-> e[1], seen |-> e[2], actual |-> actual]}
       \/ actual = e[2].actual /\ report' = {}
    /\ UNCHANGED <<storeVars, late>>

\* A preview to be removed: absent already, or deleted without waiting.
RemoveNamespace(pr) ==
    \E e \in todo :
        /\ e[1] = pr /\ e[2].desired = "DELETING"
        /\ \/ /\ namespace[pr].phase = "absent"
              /\ Found(e, "DELETED")
              /\ UNCHANGED namespace
           \/ /\ namespace[pr].phase # "absent"
              /\ namespace' = [namespace EXCEPT ![pr].phase = "terminating"]
              /\ Found(e, "PENDING")

\* The deployment of pipeline p; a change of its template starts a rollout.
Deployed(ns, p) == IF ns.app = p THEN ns ELSE [ns EXCEPT !.app = p, !.ready = FALSE]

\* A preview to be up: namespace, then objects, then readiness.  Objects cannot be
\* created in a namespace that is going away.
ApplyPreview(pr) ==
    \E e \in todo :
        LET ns == namespace[pr]
            applied == Deployed([ns EXCEPT !.phase = "live"], e[2].owner)
        IN  /\ e[1] = pr /\ e[2].desired = "ACTIVE"
            /\ ns.phase # "terminating"
            /\ namespace' = [namespace EXCEPT ![pr] = applied]
            /\ Found(e, IF applied.ready THEN "ACTIVE" ELSE "PENDING")

\* A call fails on the way: nothing was done, the namespace was created or
\* deleted, or the objects were applied as well.
ReconcileFails(pr) ==
    \E e \in todo :
        LET ns == namespace[pr]
            p == e[2].owner
        IN  /\ e[1] = pr
            /\ Found(e, "PENDING")
            /\ \/ UNCHANGED namespace
               \/ /\ e[2].desired = "ACTIVE" /\ ns.phase = "absent"
                  /\ namespace' = [namespace EXCEPT ![pr].phase = "live"]
               \/ /\ e[2].desired = "ACTIVE" /\ ns.phase # "terminating"
                  /\ namespace' = [namespace EXCEPT ![pr] =
                                      Deployed([ns EXCEPT !.phase = "live"], p)]
               \/ /\ e[2].desired = "DELETING" /\ ns.phase = "live"
                  /\ namespace' = [namespace EXCEPT ![pr].phase = "terminating"]

\* POST /v1/internal/previews/observe is applied.
SendReport ==
    \E r \in report :
        /\ ObservePreview(r.pr, r.seen, r.actual)
        /\ report' = {}
        /\ UNCHANGED <<namespace, todo, late>>

\* It is refused as outdated or lost, or the time-out of the client passes first.
DropReport ==
    /\ report # {}
    /\ report' = {}
    /\ \/ UNCHANGED late
       \/ Cardinality(late) < MaxLate /\ late' = late \cup report
    /\ UNCHANGED <<storeVars, namespace, todo>>

\* A report arrives that nobody waits for any more; refused, it is gone as well.
LateReport ==
    \E r \in late :
        /\ ObservePreview(r.pr, r.seen, r.actual) \/ UNCHANGED storeVars
        /\ late' = late \ {r}
        /\ UNCHANGED <<namespace, todo, report>>

Crash ==
    /\ todo # {} \/ report # {}
    /\ todo' = {} /\ report' = {}
    /\ UNCHANGED <<storeVars, namespace, late>>

\* Kubernetes.
NamespaceGone(pr) ==
    /\ namespace[pr].phase = "terminating"
    /\ namespace' = [namespace EXCEPT ![pr] = NoNamespace]
    /\ UNCHANGED <<storeVars, controllerVars>>

Rollout(pr) ==
    /\ namespace[pr].phase = "live" /\ namespace[pr].app # 0
    /\ namespace' = [namespace EXCEPT ![pr].ready = ~@]
    /\ UNCHANGED <<storeVars, controllerVars>>

ControllerNext ==
    \/ List \/ SendReport \/ DropReport \/ LateReport \/ Crash
    \/ \E pr \in PRs : RemoveNamespace(pr) \/ ApplyPreview(pr) \/ ReconcileFails(pr)

Next ==
    \/ StoreNext /\ UNCHANGED <<namespace, controllerVars>>
    \/ ControllerNext
    \/ \E pr \in PRs : NamespaceGone(pr) \/ Rollout(pr)

Spec == ControllerInit /\ [][Next]_allVars

\* Ticks and rounds go on (their tickers); Kubernetes removes a namespace it was
\* told to; a call, or a report of a state, that is tried again and again succeeds
\* some time.
LiveSpec ==
    /\ Spec
    /\ SF_allVars(Tick /\ UNCHANGED <<namespace, controllerVars>>)
    /\ WF_allVars(List)
    /\ WF_allVars(DropReport)
    /\ \A actual \in {"ACTIVE", "DELETED"} :
          SF_allVars(SendReport /\ \E r \in report : r.actual = actual)
    /\ \A pr \in PRs :
          /\ WF_allVars(ApplyPreview(pr) \/ ReconcileFails(pr))
          /\ SF_allVars(RemoveNamespace(pr))
          /\ WF_allVars(NamespaceGone(pr))

-----------------------------------------------------------------------------
(* Properties. *)

\* The types of the variables; PreviewProofs has them in its invariant.
ControllerTypeOK ==
    /\ TypeOK
    /\ namespace \in [PRs -> [phase : Phase, app : Messages \cup {0}, ready : BOOLEAN]]
    /\ todo \subseteq PRs \X Preview
    /\ report \cup late \subseteq
          [pr : PRs, seen : Preview, actual : {"PENDING", "ACTIVE", "DELETED"}]

\* What the store believes is true: a preview reported ACTIVE that is still to be
\* up has the deployment of its own pipeline, and one reported DELETED has no
\* namespace, however late the report arrived and whatever the store did since the
\* list was read (ObservePreview).
ReportsAreTrue ==
    \A pr \in PRs :
        /\ preview[pr].desired = "ACTIVE" /\ preview[pr].actual = "ACTIVE" =>
              namespace[pr].phase = "live" /\ namespace[pr].app = preview[pr].owner
        /\ preview[pr].actual = "DELETED" => namespace[pr].phase = "absent"

\* A namespace exists only while the store has a preview for it: removing the
\* record never leaves a namespace behind that no round would delete (Reconcile).
NoAbandonedNamespace ==
    \A pr \in PRs : namespace[pr].phase # "absent" => preview[pr] # NoPreview

\* A pull request that is closed loses its namespace unless it is opened again.
ClosedComesDown ==
    \A pr \in PRs :
        prState[pr].closed ~> (namespace[pr].phase = "absent" \/ ~prState[pr].closed)

\* A pipeline that succeeded for the newest revision gets the preview once the
\* old one is gone, unless a newer event or the time to live is first.
SuccessIsDeployed ==
    \A p \in Messages \ Closing :
        LET pr == PRNumber[p]
        IN  pr > 0 =>
              (status[p] = "SUCCEEDED" /\ MayActivate(p)
                 ~> \/ preview[pr].desired = "ACTIVE" /\ preview[pr].owner = p
                    \/ ~MayActivate(p)
                    \/ now >= created[p] + TTL[p])

=============================================================================
