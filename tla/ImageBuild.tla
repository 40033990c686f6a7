----------------------------- MODULE ImageBuild -----------------------------
(***************************************************************************)
(* From a pipeline the planner accepted to the image its preview runs.     *)
(* A build job pushes an image under a mutable tag and reports the digest  *)
(* it read; attempts are lost and repeated, and the pod of a lost attempt  *)
(* may push after the attempt that replaced it.  The image pushed by the   *)
(* n-th attempt has the digest n.  JobStore has what else happens to jobs, *)
(* PullRequests when a preview is activated.                               *)
(***************************************************************************)
EXTENDS Planner

CONSTANT MaxAttempts    \* of every job

ASSUME MaxAttemptsAssumption == MaxAttempts \in Nat \ {0}

NoDigest == 0
BadDigest == -1     \* not of the form of a digest
Explicit == -2      \* the preview's own image
NoPreview == -3

VARIABLES
    job,        \* [Jobs -> state of the job]
    digests,    \* [Jobs -> the ResultDigest of each attempt, in order]
    pushed,     \* the images in the registry
    tag,        \* the one the tag stands for
    image,      \* the image of the preview
    winner      \* history: [Jobs -> the attempt whose success was committed]

buildVars == <<job, digests, pushed, tag, image, winner>>
allVars == <<plannerVars, buildVars>>

BuildInit ==
    /\ Init
    /\ job = [j \in Jobs |-> "QUEUED"]
    /\ digests = [j \in Jobs |-> << >>]
    /\ pushed = {} /\ tag = NoDigest /\ image = NoPreview
    /\ winner = [j \in Jobs |-> 0]

Builds(j) == spec.jobs[j].buildkit
Running == outcome = "accepted" /\ \A j \in Jobs : job[j] # "FAILED"

Lease(j) ==
    /\ Running /\ job[j] = "QUEUED"
    /\ \A k \in Needed(j) : job[k] = "SUCCEEDED"
    /\ job' = [job EXCEPT ![j] = "ACTIVE"]
    /\ digests' = [digests EXCEPT ![j] = Append(@, NoDigest)]
    /\ UNCHANGED <<plannerVars, pushed, tag, image, winner>>

\* The pod of the n-th attempt, lost or not, pushes its image.
Push(j, n) ==
    /\ Builds(j) /\ n \in DOMAIN digests[j] /\ n \notin pushed
    /\ pushed' = pushed \cup {n}
    /\ tag' = n
    /\ UNCHANGED <<plannerVars, job, digests, image, winner>>

\* What the worker may read from a pod that ended: of a successful build the digest
\* it pushed, an empty one or something that is no digest, which makes it a failure.
Read(j, success) ==
    IF success /\ Builds(j) THEN {NoDigest, BadDigest} \cup ({Len(digests[j])} \cap pushed)
    ELSE {NoDigest}

\* The route refuses a successful build without a digest.
Refused(j, success, d) == success /\ Builds(j) /\ d = NoDigest

\* activatePreviewLocked: the digest of the last attempt of the build.
ImageOf_Tag(j, ds) == tag
ImageOf(j, ds) == ds[j][Len(ds[j])]
PreviewImage(e, ds) ==
    IF spec.jobs[e].environment = "digest" THEN Explicit
    ELSE ImageOf(CHOOSE j \in Jobs : Builds(j), ds)

\* complete, answered; the last success activates the preview.
Finish(j, success, read) ==
    LET ok == success /\ read # BadDigest
        d == IF read = BadDigest THEN NoDigest ELSE read
    IN  /\ Running /\ job[j] = "ACTIVE"
        /\ ~Refused(j, ok, d)
        /\ job' = [job EXCEPT ![j] = IF ok THEN "SUCCEEDED" ELSE "FAILED"]
        /\ digests' = [digests EXCEPT ![j][Len(digests[j])] = d]
        /\ winner' = [winner EXCEPT ![j] = IF ok THEN Len(digests[j]) ELSE @]
        /\ image' = IF Environments # {} /\ \A k \in Jobs : job'[k] = "SUCCEEDED"
                    THEN PreviewImage(CHOOSE e \in Environments : TRUE, digests')
                    ELSE image
        /\ UNCHANGED <<plannerVars, pushed, tag>>

\* The lease ends without a result, a refused one included.
Expire(j) ==
    /\ Running /\ job[j] = "ACTIVE"
    /\ job' = [job EXCEPT ![j] = IF Len(digests[j]) < MaxAttempts THEN "QUEUED" ELSE "FAILED"]
    /\ UNCHANGED <<plannerVars, digests, pushed, tag, image, winner>>

Done ==
    /\ \/ outcome = "rejected"
       \/ outcome = "accepted" /\ ~Running
       \/ \A j \in Jobs : job[j] = "SUCCEEDED"
    /\ UNCHANGED allVars

Next ==
    \/ Plan /\ UNCHANGED buildVars
    \/ \E j \in Jobs :
          \/ Lease(j) \/ Expire(j)
          \/ \E n \in 1 .. MaxAttempts : Push(j, n)
          \/ \E success \in BOOLEAN : \E read \in Read(j, success) : Finish(j, success, read)
    \/ Done

Spec == BuildInit /\ [][Next]_allVars

-----------------------------------------------------------------------------
(* Properties. *)

\* A preview of an accepted pipeline has an image: its own, or the one that the
\* attempt whose success was committed has pushed, whatever lost attempts push
\* under the same tag ("A preview without an explicit image uses that digest,
\* never the mutable tag", docs/pipelines.md).
PreviewRunsTheBuild ==
    /\ (\A j \in Jobs : job[j] = "SUCCEEDED") /\ Environments # {} => image # NoPreview
    /\ image # NoPreview =>
          \E e \in Environments :
              \/ spec.jobs[e].environment = "digest" /\ image = Explicit
              \/ /\ spec.jobs[e].environment = "built" /\ image \in pushed
                 /\ \E j \in Builders : image = winner[j]

=============================================================================
