-------------------------- MODULE BuildController --------------------------
(***************************************************************************)
(* The image-builder of prow/cmd/image-builder: a controller that runs     *)
(* inside the image-builder pod, creates the clonerefs pod and then one    *)
(* build pod per variant and target, stage by stage, and ends with a       *)
(* verdict.  The controller reads pods only from an informer cache that    *)
(* trails the cluster, and it remembers in buildPodPhase which pods it has *)
(* created or seen.  The API server, the kubelet and the manager that ends *)
(* the process are external to the code and are modelled by what it relies *)
(* on.                                                                     *)
(***************************************************************************)
EXTENDS Integers, Sequences, FiniteSets

CONSTANTS
  NVariants,       \* build variants selected by getVariants (1 without -context)
  NTargets,        \* targets given to -target
  CacheEnabled,    \* TRUE iff -cache-registry is set
  MaxErrors,       \* maxErrors of the code, where it is 5
  MaxLag,          \* bound: watch events the API server may be ahead of the cache
  ForeignPVC,      \* TRUE iff a PVC is named like the namespace
  Interruptible,   \* TRUE iff something else may send the process a SIGTERM
  Faults,          \* TRUE iff a call of the controller may fail
  Deletable        \* phases in which somebody else may delete a build pod

ASSUME SizesAssumption == /\ NVariants \in Nat
                          /\ NTargets \in Nat \ {0}
                          /\ MaxErrors \in Nat
                          /\ MaxLag \in Nat \ {0}

ASSUME SwitchesAssumption == /\ CacheEnabled \in BOOLEAN
                             /\ ForeignPVC \in BOOLEAN
                             /\ Interruptible \in BOOLEAN
                             /\ Faults \in BOOLEAN

PodPhase == {"Pending", "Running", "Succeeded", "Failed"}

ASSUME DeletableAssumption == Deletable \subseteq PodPhase

(***************************************************************************)
(* The plan.  A pod is its index in r.buildPods: 1 is clonerefs, then come *)
(* the targets of the first variant, of the second, and so on.  getVariants*)
(* ranges over a Go map, so "first" is whatever order that range gave; the *)
(* stages do not depend on it.                                             *)
(***************************************************************************)
Pod == 1 .. (1 + NVariants * NTargets)

VariantOf(i) == (i - 2) \div NTargets
TargetOf(i)  == (i - 2) % NTargets

buildGroup(i) ==
  CASE i = 1 -> <<"clonerefs", 0>>
    [] i # 1 /\ TargetOf(i) = 0 /\ CacheEnabled -> <<"createCache", VariantOf(i)>>
    [] OTHER -> <<"parallelBuild", 0>>

\* i is in an earlier stage than j: a group ends somewhere between them.
Before(i, j) == i < j /\ \E k \in i .. j : buildGroup(k) # buildGroup(i)

VARIABLES
  defined,        \* len(r.buildPods) # 0
  buildPodPhase,  \* r.buildPodPhase, "unset" for a missing key
  errorCount,     \* r.errorCount, saturated at MaxErrors + 1
  canceled,       \* r.canceled
  err,            \* r.err: "none", "podsFailed", or "error" for any other
  pc,             \* "creating" inside the loop of startNextBuildPods
  first,          \* first pod that loop created, 0 while podsCreated is false
  cluster,        \* pod objects at the API server
  watch,          \* events sent by the API server, not yet in the cache
  cache,          \* pods as r.client lists them
  pvc,            \* the PVC named like the image-builder pod exists
  ctx,            \* interrupts.Context(): "live" or "cancelled"
  verdict,        \* how main ends: "running", "success", "failure"
  created,        \* history: pods that have ever existed
  succeeded,      \* history: pods that have ever succeeded
  logs            \* history: pods whose logs are in the artifacts directory

ctrlVars  == <<defined, buildPodPhase, errorCount, canceled, err, pc, first, logs>>
podVars   == <<cluster, watch, created, succeeded>>
procVars  == <<ctx, verdict>>
vars == <<ctrlVars, podVars, cache, pvc, procVars>>

Event == [pod : Pod, phase : PodPhase \cup {"absent"}]

TypeOK ==
  /\ defined \in BOOLEAN
  /\ buildPodPhase \in [Pod -> PodPhase \cup {"unset"}]
  /\ errorCount \in 0 .. (MaxErrors + 1)
  /\ canceled \in BOOLEAN
  /\ err \in {"none", "podsFailed", "error"}
  /\ pc \in {"idle", "creating"}
  /\ first \in Pod \cup {0}
  /\ cluster \in [Pod -> PodPhase \cup {"absent"}]
  /\ watch \in Seq(Event)
  /\ cache \in [Pod -> PodPhase \cup {"absent"}]
  /\ pvc \in BOOLEAN
  /\ ctx \in {"live", "cancelled"}
  /\ verdict \in {"running", "success", "failure"}
  /\ created \subseteq Pod
  /\ succeeded \subseteq Pod
  /\ logs \subseteq Pod

Init ==
  /\ defined = FALSE
  /\ buildPodPhase = [p \in Pod |-> "unset"]
  /\ errorCount = 0
  /\ canceled = FALSE
  /\ err = "none"
  /\ pc = "idle"
  /\ first = 0
  /\ cluster = [p \in Pod |-> "absent"]
  /\ watch = <<>>
  /\ cache = [p \in Pod |-> "absent"]
  /\ pvc = FALSE
  /\ ctx = "live"
  /\ verdict = "running"
  /\ created = {}
  /\ succeeded = {}
  /\ logs = {}

-----------------------------------------------------------------------------
(* Helpers of the controller.                                              *)

\* Mutant of stop: a later stop overwrites the reason of the first.
stopAlways(e) == err' = e /\ canceled' = TRUE

\* Mutant of stop: r.err is assigned only after the process has ended.
stopWithoutReason(e) == /\ err' = err
                        /\ canceled' = TRUE

\* r.stop(e): only the first stop sets r.err and asks for termination.
stop(e) == /\ err' = IF canceled THEN err ELSE e
           /\ canceled' = TRUE

\* Mutant of errorHandler: >= for >.
errorHandlerEarly ==
  /\ errorCount' = IF errorCount > MaxErrors THEN errorCount ELSE errorCount + 1
  /\ IF errorCount + 1 >= MaxErrors THEN stop("error") ELSE UNCHANGED <<err, canceled>>

\* Mutant of errorHandler: errors are retried for ever.
errorHandlerRetries ==
  /\ errorCount' = IF errorCount > MaxErrors THEN errorCount ELSE errorCount + 1
  /\ UNCHANGED <<err, canceled>>

\* The deferred errorHandler of Reconcile, when Reconcile returns an error.
errorHandler ==
  /\ errorCount' = IF errorCount > MaxErrors THEN errorCount ELSE errorCount + 1
  /\ IF errorCount + 1 > MaxErrors THEN stop("error") ELSE UNCHANGED <<err, canceled>>

Terminal == {"Succeeded", "Failed"}

\* Mutant of Active: a pod that waits for its node does not count.
ActiveRunning == {"Running"}

Active == {"Pending", "Running"}

InPhase(view, phases) == {p \in Pod : view[p] \in phases}

\* The pods a listing shows in another phase than the one remembered.
Changed == {p \in Pod : cache[p] # "absent" /\ cache[p] # buildPodPhase[p]}

\* Remember the listed phase of the pods in S.
Recorded(S) == [p \in Pod |-> IF p \in S THEN cache[p] ELSE buildPodPhase[p]]

\* collectBuildPodLogs can read the logs of p: its container has started.
Readable(p) == cluster[p] \in {"Running", "Succeeded", "Failed"}

\* Mutant of whichPodShouldRun: a pod not listed yet is not missed.
nothingShouldRun(phase) == InPhase(phase, {"absent"})

\* Pods remembered as active; with none listed as active they are missing.
whichPodShouldRun(phase) == InPhase(phase, Active)

Unset == {p \in Pod : buildPodPhase[p] = "unset"}

\* The pod the loop of startNextBuildPods handles next.
NextUnset(p) == p \in Unset /\ \A q \in Unset : p <= q

-----------------------------------------------------------------------------
(* Reconcile.  It reads the cache once and touches the cluster only to read*)
(* logs and, in startNextBuildPods, to create pods: everything up to the   *)
(* first Create is one step, each Create is another.                       *)

ReconcileStarts == pc = "idle" /\ ctx = "live" /\ verdict = "running"

\* Mutant of EnsureFails: the pods are defined before the PVC is created.
EnsureFailsDefined ==
  /\ ReconcileStarts
  /\ Faults
  /\ ~defined
  /\ defined' = TRUE
  /\ errorHandler
  /\ UNCHANGED <<buildPodPhase, pc, first, logs, podVars, cache, pvc, procVars>>

\* ensureBuildPodDefinition gives up: getting or creating the PVC failed
\* (the write may have been applied), or defineBuildPods did, after which
\* r.buildPods is nil again.
EnsureFails ==
  /\ ReconcileStarts
  /\ Faults
  /\ ~defined
  /\ \/ UNCHANGED pvc
     \/ ~ForeignPVC /\ pvc' = TRUE
  /\ errorHandler
  /\ UNCHANGED <<defined, buildPodPhase, pc, first, logs, podVars, cache, procVars>>

\* The PVC is looked up under the name of the namespace, so an existing one
\* of that name suppresses the creation; AlreadyExists is not an error.
Ensured == /\ defined' = TRUE
           /\ pvc' = IF defined \/ ForeignPVC THEN pvc ELSE TRUE

\* Reading pods from the cache fails, once the definition is in place.
ListFails ==
  /\ ReconcileStarts
  /\ Faults
  /\ Ensured
  /\ errorHandler
  /\ UNCHANGED <<buildPodPhase, pc, first, logs, podVars, cache, procVars>>

\* Mutant of CollectLogsFails: the phase is remembered before the logs are read.
CollectLogsFailsRecorded ==
  /\ ReconcileStarts
  /\ Ensured
  /\ \E f \in Changed :
       /\ cache[f] \in Terminal
       /\ Faults \/ ~Readable(f)
       /\ buildPodPhase' = Recorded({f})
  /\ errorHandler
  /\ UNCHANGED <<pc, first, logs, podVars, cache, procVars>>

\* The status loop stops at a pod f whose logs cannot be collected: the API
\* call failed or the pod is gone.  The loop has handled the pods of S.
CollectLogsFails ==
  /\ ReconcileStarts
  /\ Ensured
  /\ \E f \in Changed :
       /\ cache[f] \in Terminal
       /\ Faults \/ ~Readable(f)
       /\ \E S \in SUBSET (Changed \ {f}) :
            /\ \A p \in S : cache[p] \in Terminal => Readable(p)
            /\ buildPodPhase' = Recorded(S)
            /\ logs' = logs \cup {p \in S : cache[p] \in Terminal}
  /\ errorHandler
  /\ UNCHANGED <<pc, first, podVars, cache, procVars>>

\* The status loop ends.  With nothing running the controller stops on a
\* failed pod, reports pods it remembers as active but does not see, or
\* goes on to create the next pods.
ReconcileBuildPods ==
  /\ ReconcileStarts
  /\ Ensured
  /\ \A p \in Changed : cache[p] \in Terminal => Readable(p)
  /\ buildPodPhase' = Recorded(Changed)
  /\ logs' = logs \cup {p \in Changed : cache[p] \in Terminal}
  /\ \/ /\ InPhase(cache, Active) # {}
        /\ UNCHANGED <<errorCount, err, canceled, pc>>
     \/ /\ InPhase(cache, Active) = {}
        /\ InPhase(cache, {"Failed"}) # {}
        /\ stop("podsFailed")
        /\ UNCHANGED <<errorCount, pc>>
     \/ /\ InPhase(cache, Active \cup {"Failed"}) = {}
        /\ whichPodShouldRun(buildPodPhase') # {}
        /\ errorHandler
        /\ UNCHANGED pc
     \/ /\ InPhase(cache, Active \cup {"Failed"}) = {}
        /\ whichPodShouldRun(buildPodPhase') = {}
        /\ pc' = "creating"
        /\ UNCHANGED <<errorCount, err, canceled>>
  /\ first' = 0
  /\ UNCHANGED <<podVars, cache, procVars>>

\* client.Create reaches the API server and p did not exist.
Admit(p) == /\ cluster[p] = "absent"
            /\ Len(watch) < MaxLag
            /\ cluster' = [cluster EXCEPT ![p] = "Pending"]
            /\ watch' = Append(watch, [pod |-> p, phase |-> "Pending"])
            /\ created' = created \cup {p}
            /\ UNCHANGED succeeded

\* Mutant of CreateNext: the phase of the template, not of the answer.
CreateNextTemplate(p) ==
  /\ pc = "creating"
  /\ NextUnset(p)
  /\ ctx = "live"
  /\ Admit(p)
  /\ buildPodPhase' = [buildPodPhase EXCEPT ![p] = "absent"]
  /\ first' = IF first = 0 THEN p ELSE first
  /\ UNCHANGED <<defined, errorCount, canceled, err, pc, logs, cache, pvc, procVars>>

\* Mutant of CreateNext: the loop does not stop at a new build group.
CreateNextAnyGroup(p) ==
  /\ pc = "creating"
  /\ NextUnset(p)
  /\ ctx = "live"
  /\ Admit(p)
  /\ buildPodPhase' = [buildPodPhase EXCEPT ![p] = "Pending"]
  /\ first' = IF first = 0 THEN p ELSE first
  /\ UNCHANGED <<defined, errorCount, canceled, err, pc, logs, cache, pvc, procVars>>

\* The loop creates the next pod it has no phase for, unless a new build
\* group begins, and remembers the phase the API server answered with.
CreateNext(p) ==
  /\ pc = "creating"
  /\ NextUnset(p)
  /\ first = 0 \/ buildGroup(p) = buildGroup(first)
  /\ ctx = "live"
  /\ Admit(p)
  /\ buildPodPhase' = [buildPodPhase EXCEPT ![p] = "Pending"]
  /\ first' = IF first = 0 THEN p ELSE first
  /\ UNCHANGED <<defined, errorCount, canceled, err, pc, logs, cache, pvc, procVars>>

\* Create returns an error and so does Reconcile: the pod exists already,
\* the context was cancelled, the call was refused, or it was applied and
\* its answer lost.  The pod gets no phase in any of these cases.
CreateFails(p) ==
  /\ pc = "creating"
  /\ NextUnset(p)
  /\ first = 0 \/ buildGroup(p) = buildGroup(first)
  /\ \/ /\ Faults \/ ctx = "cancelled" \/ cluster[p] # "absent"
        /\ UNCHANGED podVars
     \/ /\ Faults \/ ctx = "cancelled"
        /\ Admit(p)
  /\ pc' = "idle"
  /\ first' = 0
  /\ errorHandler
  /\ UNCHANGED <<defined, buildPodPhase, logs, cache, pvc, procVars>>

\* The loop ends at the end of the group or of the plan.  A call that
\* created nothing had nothing left to create, and the build is over.
CreateDone ==
  /\ pc = "creating"
  /\ \/ Unset = {}
     \/ first # 0 /\ \E p \in Pod : NextUnset(p) /\ buildGroup(p) # buildGroup(first)
  /\ pc' = "idle"
  /\ first' = 0
  /\ IF first = 0 THEN stop("none") ELSE UNCHANGED <<err, canceled>>
  /\ UNCHANGED <<defined, buildPodPhase, errorCount, logs, podVars, cache, pvc, procVars>>

-----------------------------------------------------------------------------
(* The cluster.  It never puts a pod into phase Unknown.                   *)

\* The API server moves p to a phase and tells the watchers.
Move(p, phase) ==
  /\ Len(watch) < MaxLag
  /\ cluster' = [cluster EXCEPT ![p] = phase]
  /\ watch' = Append(watch, [pod |-> p, phase |-> phase])

\* The kubelet starts a pod once it can mount the volume of assignPVC.
RunPod(p) == /\ cluster[p] = "Pending"
             /\ pvc
             /\ Move(p, "Running")
             /\ UNCHANGED <<ctrlVars, created, succeeded, cache, pvc, procVars>>

EndPod(p) == /\ cluster[p] = "Running"
             /\ \/ Move(p, "Succeeded") /\ succeeded' = succeeded \cup {p}
                \/ Move(p, "Failed") /\ UNCHANGED succeeded
             /\ UNCHANGED <<ctrlVars, created, cache, pvc, procVars>>

\* A pod is evicted, or deleted by a user or by Prow's sinker.
DeletePod(p) == /\ cluster[p] \in Deletable
                /\ Move(p, "absent")
                /\ UNCHANGED <<ctrlVars, created, succeeded, cache, pvc, procVars>>

\* The informer applies the next watch event to the cache.
Deliver == /\ watch # <<>>
           /\ cache' = [cache EXCEPT ![Head(watch).pod] = Head(watch).phase]
           /\ watch' = Tail(watch)
           /\ UNCHANGED <<ctrlVars, cluster, created, succeeded, pvc, procVars>>

\* The watch breaks and the informer lists again: it skips what it missed.
Relist == /\ watch # <<>>
          /\ cache' = cluster
          /\ watch' = <<>>
          /\ UNCHANGED <<ctrlVars, cluster, created, succeeded, pvc, procVars>>

-----------------------------------------------------------------------------
(* The process.                                                            *)

\* interrupts.Terminate() takes effect, or a signal from outside arrives.
Interrupt == /\ ctx = "live"
             /\ canceled \/ Interruptible
             /\ ctx' = "cancelled"
             /\ UNCHANGED <<ctrlVars, podVars, cache, pvc, verdict>>

\* mgr.Start returns once the running Reconcile is done, without an error,
\* and main looks only at controller.err.
Exit == /\ ctx = "cancelled"
        /\ pc = "idle"
        /\ verdict = "running"
        /\ verdict' = IF err = "none" THEN "success" ELSE "failure"
        /\ UNCHANGED <<ctrlVars, podVars, cache, pvc, ctx>>

Ended == verdict # "running" /\ UNCHANGED vars

Reconcile == EnsureFails \/ ListFails \/ CollectLogsFails \/ ReconcileBuildPods

startNextBuildPods == CreateDone \/ \E p \in Pod : CreateNext(p) \/ CreateFails(p)

Cluster == \E p \in Pod : RunPod(p) \/ EndPod(p) \/ DeletePod(p)

Next == \/ Reconcile
        \/ startNextBuildPods
        \/ Cluster
        \/ Deliver
        \/ Relist
        \/ Interrupt
        \/ Exit
        \/ Ended

Spec == Init /\ [][Next]_vars

\* What becomes of a Reconcile whose calls are all answered.  It still fails
\* when the logs it asks for are those of a pod that is gone.
ReconcileAnswered ==
  \/ ReconcileBuildPods
  \/ /\ \E f \in Changed : cache[f] \in Terminal /\ ~Readable(f)
     /\ CollectLogsFails

\* The same of the loop that creates pods: Create is refused for a pod that
\* exists and under a context that is cancelled.
CreateAnswered ==
  \/ CreateDone
  \/ \E p \in Pod :
       \/ CreateNext(p)
       \/ /\ ctx = "cancelled" \/ cluster[p] # "absent"
          /\ CreateFails(p)

\* The manager calls Reconcile again 30 s after a success and with a backoff
\* after an error, a started loop goes on, started pods end, the informer
\* catches up, and a requested termination happens.  No call has to fail:
\* calls that do, by Faults, may come at any time or never.
Fairness == /\ WF_vars(ReconcileAnswered)
            /\ WF_vars(CreateAnswered)
            /\ WF_vars(\E p \in Pod : RunPod(p) \/ EndPod(p))
            /\ WF_vars(Deliver)
            /\ WF_vars(canceled /\ Interrupt)
            /\ WF_vars(Exit)

FairSpec == Spec /\ Fairness

-----------------------------------------------------------------------------
(* Properties.                                                             *)

\* A pod exists only after every pod of every earlier stage has succeeded:
\* nothing builds before the code is cloned, and nothing of a variant builds
\* before the pod that fills the variant's cache is done.  The controller
\* sees none of this directly, only a cache that trails the cluster and the
\* phases it remembers (startNextBuildPods, reconcileBuildPods).
StageOrder == \A i, j \in Pod : Before(i, j) /\ j \in created => i \in succeeded

\* When the controller stops without an error every pod of the plan has
\* succeeded, and when it stops for a failed pod there is one.  Holds while
\* no failed pod is deleted (reconcileBuildPods counts listed pods only).
StopSound == /\ canceled /\ err = "none" => succeeded = Pod
             /\ err = "podsFailed" => \E p \in Pod : cluster[p] = "Failed"

\* main reports "Build successful" only for a build that is complete.
VerdictSound == verdict = "success" => succeeded = Pod

\* The logs of every pod known to have ended are among the artifacts, those
\* of all pods when the build stops without an error: a Reconcile that fails
\* half way through the status loop loses none.
LogsComplete ==
  /\ \A p \in Pod : buildPodPhase[p] \in Terminal => p \in logs
  /\ canceled /\ err = "none" => logs = Pod

\* Only more than MaxErrors failed reconciliations end a build for another
\* reason than a failed pod, and then they do end it.
ErrorBudget == /\ err = "error" => errorCount > MaxErrors
               /\ errorCount > MaxErrors => canceled

\* The volume the build pods mount exists before any of them does, also when
\* an earlier ensureBuildPodDefinition failed half way.
VolumeExists == created # {} => pvc

\* The first stop decides: reconciliations between it and the end of the
\* process change neither the decision nor the reason.
FirstStopWins == [][canceled => canceled' /\ err' = err]_vars

\* The controller and its cluster implement the build pipeline.
Pipeline == INSTANCE BuildPipeline WITH started <- created, outcome <- verdict

ImplementsPipeline == Pipeline!Spec

\* Every build ends with a verdict, whatever fails and whoever deletes pods.
Terminates == <>(verdict # "running")

\* A build one pod of which has failed ends as a failure.
FailureReported == (\E p \in Pod : cluster[p] = "Failed") ~> (verdict = "failure")
-----------------------------------------------------------------------------
(* The inductive invariant behind StageOrder, StopSound, LogsComplete and  *)
(* the implementation of the pipeline, checked here and proved in          *)
(* BuildControllerProofs.                                                  *)

\* Whatever the controller, its cache or a watch event mentions has existed.
Existence ==
  /\ \A p \in Pod : cluster[p] # "absent" => p \in created
  /\ \A p \in Pod : cache[p] # "absent" => p \in created
  /\ \A k \in 1 .. Len(watch) : watch[k].pod \in created
  /\ \A p \in Pod : buildPodPhase[p] # "unset" => p \in created

\* Success is never only apparent, however old the view that shows it.
SucceededViews ==
  /\ \A p \in Pod : cluster[p] = "Succeeded" => p \in succeeded
  /\ \A p \in Pod : cache[p] = "Succeeded" => p \in succeeded
  /\ \A k \in 1 .. Len(watch) : watch[k].phase = "Succeeded" => watch[k].pod \in succeeded
  /\ \A p \in Pod : buildPodPhase[p] = "Succeeded" => p \in succeeded

\* A failure seen once stays visible: no later event is about that pod.
FailedViews ==
  /\ \A k \in 1 .. Len(watch) :
       watch[k].phase = "Failed" =>
         /\ cluster[watch[k].pod] = "Failed"
         /\ \A l \in 1 .. Len(watch) : l > k => watch[l].pod # watch[k].pod
  /\ \A p \in Pod :
       cache[p] = "Failed" =>
         /\ cluster[p] = "Failed"
         /\ \A k \in 1 .. Len(watch) : watch[k].pod # p
  /\ \A p \in Pod : buildPodPhase[p] = "Failed" => cache[p] = "Failed"

\* Pods come into being in the order of the plan, none before its
\* predecessors have a phase.
PlanOrder == \A i, j \in Pod : i < j /\ j \in created => buildPodPhase[i] # "unset"

\* What holds inside the loop of startNextBuildPods: it began with every
\* remembered pod succeeded and has since created pods of one group.
Creating ==
  pc = "creating" =>
    /\ verdict = "running"
    /\ first = 0 => \A p \in Pod : buildPodPhase[p] \in {"unset", "Succeeded"}
    /\ first # 0 =>
         /\ buildPodPhase[first] # "unset"
         /\ \A p \in Pod : p < first => p \in succeeded
         /\ \A p \in Pod : p >= first /\ buildPodPhase[p] # "unset" =>
              buildGroup(p) = buildGroup(first)

\* Without outside signals only a stop of the controller ends the process.
Interrupts == ~Interruptible /\ ctx = "cancelled" => canceled

IndInv == /\ TypeOK
          /\ Existence
          /\ SucceededViews
          /\ FailedViews
          /\ PlanOrder
          /\ StageOrder
          /\ Creating
          /\ LogsComplete
          /\ StopSound
          /\ Interrupts
=============================================================================
