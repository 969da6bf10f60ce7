----------------------- MODULE BuildControllerProofs -----------------------
(***************************************************************************)
(* What BuildController guarantees for every plan, every lag of the cache  *)
(* and every error budget, as long as nobody deletes a failed build pod.   *)
(***************************************************************************)
EXTENDS BuildController, TLAPS

LEMMA PodNat == Pod \subseteq Nat \ {0}
  BY SizesAssumption DEF Pod

\* A failed reconciliation never turns into a stop without an error or a
\* stop for a failed pod (errorHandler, stop).
LEMMA ErrorHandlerKeeps ==
  ASSUME TypeOK, errorHandler
  PROVE  /\ errorCount' \in 0 .. (MaxErrors + 1)
         /\ canceled' \in BOOLEAN
         /\ err' \in {"none", "podsFailed", "error"}
         /\ canceled => canceled'
         /\ canceled' /\ err' = "none" => canceled /\ err = "none"
         /\ err' = "podsFailed" => err = "podsFailed"
<1>1. errorCount' \in 0 .. (MaxErrors + 1)
  BY SizesAssumption DEF TypeOK, errorHandler
<1>2. CASE errorCount + 1 > MaxErrors
  <2>1. stop("error")
    BY <1>2 DEF errorHandler
  <2>2. CASE canceled
    BY <1>1, <2>1, <2>2 DEF TypeOK, stop
  <2>3. CASE ~canceled
    BY <1>1, <2>1, <2>3 DEF TypeOK, stop
  <2> QED BY <2>2, <2>3
<1>3. CASE ~(errorCount + 1 > MaxErrors)
  BY <1>1, <1>3 DEF TypeOK, errorHandler
<1> QED BY <1>2, <1>3

\* Sending an event to the watchers: the events already sent stay in place.
LEMMA SendEvent ==
  ASSUME watch \in Seq(Event), NEW e \in Event, watch' = Append(watch, e)
  PROVE  /\ watch' \in Seq(Event)
         /\ Len(watch') = Len(watch) + 1
         /\ Len(watch) \in Nat
         /\ watch'[Len(watch) + 1] = e
         /\ \A k \in 1 .. Len(watch) : watch'[k] = watch[k]
  OBVIOUS

LEMMA TakeEvent ==
  ASSUME watch \in Seq(Event), watch # <<>>, watch' = Tail(watch)
  PROVE  /\ watch' \in Seq(Event)
         /\ Len(watch') = Len(watch) - 1
         /\ Len(watch) \in Nat \ {0}
         /\ Head(watch) = watch[1]
         /\ watch[1] \in Event
         /\ \A k \in 1 .. Len(watch') : watch'[k] = watch[k + 1] /\ k + 1 \in 1 .. Len(watch)
  OBVIOUS

-----------------------------------------------------------------------------
(* The invariant holds initially and every step of Next preserves it.      *)

LEMMA InitInv == Init => IndInv
<1> SUFFICES ASSUME Init PROVE IndInv
  OBVIOUS
<1> USE DEF Init
<1>1. TypeOK
  <2>1. errorCount \in 0 .. (MaxErrors + 1)
    BY SizesAssumption
  <2>2. watch \in Seq(Event)
    OBVIOUS
  <2> QED BY <2>1, <2>2 DEF TypeOK
<1>2. Existence /\ SucceededViews /\ FailedViews
  BY DEF Existence, SucceededViews, FailedViews
<1>3. PlanOrder /\ StageOrder /\ Creating
  BY DEF PlanOrder, StageOrder, Creating
<1>4. LogsComplete /\ StopSound /\ Interrupts
  BY DEF LogsComplete, StopSound, Interrupts, Terminal
<1> QED BY <1>1, <1>2, <1>3, <1>4 DEF IndInv

\* A Reconcile that fails before its status loop.
LEMMA FailsEarly ==
  ASSUME IndInv, EnsureFails \/ ListFails
  PROVE  IndInv'
<1>1. /\ errorHandler
      /\ UNCHANGED <<buildPodPhase, pc, first, logs, podVars, cache, procVars>>
      /\ defined' \in BOOLEAN
      /\ pvc' \in BOOLEAN
  BY DEF IndInv, TypeOK, EnsureFails, ListFails, Ensured
<1>2. /\ errorCount' \in 0 .. (MaxErrors + 1)
      /\ canceled' \in BOOLEAN
      /\ err' \in {"none", "podsFailed", "error"}
      /\ canceled => canceled'
      /\ canceled' /\ err' = "none" => canceled /\ err = "none"
      /\ err' = "podsFailed" => err = "podsFailed"
  BY <1>1, ErrorHandlerKeeps DEF IndInv
<1> USE <1>1 DEF IndInv, podVars, procVars
<1>3. TypeOK'
  BY <1>2 DEF TypeOK
<1>4. Existence' /\ SucceededViews' /\ FailedViews'
  BY DEF Existence, SucceededViews, FailedViews
<1>5. PlanOrder' /\ StageOrder' /\ Creating'
  BY DEF PlanOrder, StageOrder, Creating
<1>6. LogsComplete' /\ StopSound' /\ Interrupts'
  BY <1>2 DEF LogsComplete, StopSound, Interrupts
<1> QED BY <1>3, <1>4, <1>5, <1>6

\* Recording listed phases keeps everything that is said about them: a
\* listed pod exists, a listed success is one, a listed failure is listed.
LEMMA RecordKeeps ==
  ASSUME IndInv, NEW S \in SUBSET Changed,
         buildPodPhase' = Recorded(S),
         logs' = logs \cup {p \in S : cache[p] \in Terminal},
         UNCHANGED <<podVars, cache>>
  PROVE  /\ buildPodPhase' \in [Pod -> PodPhase \cup {"unset"}]
         /\ logs' \subseteq Pod
         /\ Existence' /\ SucceededViews' /\ FailedViews'
         /\ PlanOrder' /\ StageOrder'
         /\ \A p \in Pod : buildPodPhase'[p] \in Terminal => p \in logs'
         /\ logs \subseteq logs'
<1> USE DEF IndInv, podVars, Changed, Recorded
<1>1. \A p \in Pod : buildPodPhase'[p] = IF p \in S THEN cache[p] ELSE buildPodPhase[p]
  OBVIOUS
<1>2. \A p \in S : p \in Pod /\ cache[p] \in PodPhase
  BY DEF TypeOK
<1>3. buildPodPhase' \in [Pod -> PodPhase \cup {"unset"}] /\ logs' \subseteq Pod
  BY <1>2 DEF TypeOK
<1>4. Existence'
  BY <1>1 DEF Existence
<1>5. SucceededViews'
  BY <1>1 DEF SucceededViews
<1>6. FailedViews'
  BY <1>1 DEF FailedViews
<1>7. PlanOrder' /\ StageOrder'
  BY <1>1, <1>2 DEF PlanOrder, StageOrder, PodPhase
<1>8. /\ \A p \in Pod : buildPodPhase'[p] \in Terminal => p \in logs'
      /\ logs \subseteq logs'
  BY <1>1 DEF LogsComplete
<1> QED BY <1>3, <1>4, <1>5, <1>6, <1>7, <1>8

LEMMA CollectLogsFailsInv ==
  ASSUME IndInv, CollectLogsFails
  PROVE  IndInv'
<1>1. PICK S \in SUBSET Changed :
        /\ buildPodPhase' = Recorded(S)
        /\ logs' = logs \cup {p \in S : cache[p] \in Terminal}
  BY DEF CollectLogsFails
<1>2. /\ errorHandler
      /\ UNCHANGED <<pc, first, podVars, cache, procVars>>
      /\ defined' \in BOOLEAN
      /\ pvc' \in BOOLEAN
      /\ pc = "idle"
  BY DEF IndInv, TypeOK, CollectLogsFails, ReconcileStarts, Ensured
<1>3. /\ errorCount' \in 0 .. (MaxErrors + 1)
      /\ canceled' \in BOOLEAN
      /\ err' \in {"none", "podsFailed", "error"}
      /\ canceled => canceled'
      /\ canceled' /\ err' = "none" => canceled /\ err = "none"
      /\ err' = "podsFailed" => err = "podsFailed"
  BY <1>2, ErrorHandlerKeeps DEF IndInv
<1>4. /\ buildPodPhase' \in [Pod -> PodPhase \cup {"unset"}]
      /\ logs' \subseteq Pod
      /\ Existence' /\ SucceededViews' /\ FailedViews'
      /\ PlanOrder' /\ StageOrder'
      /\ \A p \in Pod : buildPodPhase'[p] \in Terminal => p \in logs'
      /\ logs \subseteq logs'
  BY <1>1, <1>2, RecordKeeps
<1> USE <1>2 DEF IndInv, podVars, procVars
<1>5. TypeOK'
  BY <1>3, <1>4 DEF TypeOK
<1>6. Creating'
  BY DEF Creating
<1>7. LogsComplete' /\ StopSound' /\ Interrupts'
  BY <1>3, <1>4 DEF LogsComplete, StopSound, Interrupts, TypeOK
<1> QED BY <1>4, <1>5, <1>6, <1>7

\* The decision at the end of the status loop: with nothing active listed or
\* remembered and nothing failed listed, every remembered pod has succeeded.
LEMMA ReconcileBuildPodsInv ==
  ASSUME IndInv, ReconcileBuildPods
  PROVE  IndInv'
<1>1. /\ buildPodPhase' = Recorded(Changed)
      /\ logs' = logs \cup {p \in Changed : cache[p] \in Terminal}
      /\ first' = 0
      /\ UNCHANGED <<podVars, cache, procVars>>
      /\ defined' \in BOOLEAN
      /\ pvc' \in BOOLEAN
      /\ pc = "idle"
      /\ verdict = "running"
  BY DEF IndInv, TypeOK, ReconcileBuildPods, ReconcileStarts, Ensured
<1>2. /\ buildPodPhase' \in [Pod -> PodPhase \cup {"unset"}]
      /\ logs' \subseteq Pod
      /\ Existence' /\ SucceededViews' /\ FailedViews'
      /\ PlanOrder' /\ StageOrder'
      /\ \A p \in Pod : buildPodPhase'[p] \in Terminal => p \in logs'
      /\ logs \subseteq logs'
  BY <1>1, RecordKeeps
<1> USE DEF IndInv
<1>3. SUFFICES /\ pc' \in {"idle", "creating"}
               /\ errorCount' \in 0 .. (MaxErrors + 1)
               /\ canceled' \in BOOLEAN
               /\ err' \in {"none", "podsFailed", "error"}
               /\ canceled => canceled'
               /\ canceled' /\ err' = "none" => canceled /\ err = "none"
               /\ err' = "podsFailed" =>
                    err = "podsFailed" \/ \E p \in Pod : cluster[p] = "Failed"
               /\ pc' = "creating" =>
                    \A p \in Pod : buildPodPhase'[p] \in {"unset", "Succeeded"}
  <2>1. TypeOK'
    BY <1>1, <1>2, <1>3 DEF TypeOK, podVars, procVars
  <2>2. Creating'
    BY <1>1, <1>3 DEF Creating, procVars
  <2>3. LogsComplete'
    BY <1>1, <1>2, <1>3 DEF LogsComplete, TypeOK
  <2>4. StopSound' /\ Interrupts'
    BY <1>1, <1>3 DEF StopSound, Interrupts, podVars, procVars
  <2> QED BY <1>2, <2>1, <2>2, <2>3, <2>4
<1>4. CASE /\ InPhase(cache, Active) # {}
           /\ UNCHANGED <<errorCount, err, canceled, pc>>
  BY <1>1, <1>4 DEF TypeOK
<1>5. CASE /\ InPhase(cache, {"Failed"}) # {}
           /\ stop("podsFailed")
           /\ UNCHANGED <<errorCount, pc>>
  <2>1. \E p \in Pod : cluster[p] = "Failed"
    BY <1>5 DEF InPhase, FailedViews
  <2>2. CASE canceled
    BY <1>1, <1>5, <2>1, <2>2 DEF TypeOK, stop
  <2>3. CASE ~canceled
    BY <1>1, <1>5, <2>1, <2>3 DEF TypeOK, stop
  <2> QED BY <2>2, <2>3
<1>6. CASE /\ errorHandler
           /\ UNCHANGED pc
  BY <1>1, <1>6, ErrorHandlerKeeps
<1>7. CASE /\ InPhase(cache, Active \cup {"Failed"}) = {}
           /\ whichPodShouldRun(buildPodPhase') = {}
           /\ pc' = "creating"
           /\ UNCHANGED <<errorCount, err, canceled>>
  <2>1. \A p \in Pod : buildPodPhase'[p] \notin Active /\ cache[p] # "Failed"
    BY <1>7 DEF InPhase, whichPodShouldRun
  <2>2. \A p \in Pod : buildPodPhase'[p] # "Failed"
    BY <1>1, <1>2, <2>1 DEF FailedViews
  <2>3. \A p \in Pod : buildPodPhase'[p] \in {"unset", "Succeeded"}
    BY <1>2, <2>1, <2>2 DEF Active, PodPhase
  <2> QED BY <1>7, <2>3 DEF TypeOK
<1> QED BY <1>4, <1>5, <1>6, <1>7 DEF ReconcileBuildPods

\* The API server, the kubelet or a user changes the phase of p and the
\* change is under way to the cache.
LEMMA MoveKeeps ==
  ASSUME IndInv, NEW p \in Pod, NEW phase \in PodPhase \cup {"absent"},
         cluster' = [cluster EXCEPT ![p] = phase],
         watch' = Append(watch, [pod |-> p, phase |-> phase]),
         cluster[p] # "Failed",
         p \in created',
         created \subseteq created',
         succeeded \subseteq succeeded',
         phase = "Succeeded" => p \in succeeded',
         \A q \in Pod : \/ buildPodPhase'[q] = buildPodPhase[q]
                        \/ q = p /\ buildPodPhase'[q] = "Pending",
         cache' = cache
  PROVE  /\ cluster' \in [Pod -> PodPhase \cup {"absent"}]
         /\ watch' \in Seq(Event)
         /\ Existence' /\ SucceededViews' /\ FailedViews'
<1> DEFINE e == [pod |-> p, phase |-> phase]
<1>1. e \in Event /\ e.pod = p /\ e.phase = phase
  BY DEF Event
<1>2. /\ watch' \in Seq(Event)
      /\ Len(watch') = Len(watch) + 1
      /\ Len(watch) \in Nat
      /\ watch'[Len(watch) + 1] = e
      /\ \A k \in 1 .. Len(watch) : watch'[k] = watch[k]
  BY <1>1, SendEvent DEF IndInv, TypeOK
<1>3. \A k \in 1 .. Len(watch') : k \in 1 .. Len(watch) \/ k = Len(watch) + 1
  BY <1>2
<1> HIDE DEF e
<1>4. /\ cluster' \in [Pod -> PodPhase \cup {"absent"}]
      /\ cluster'[p] = phase
      /\ \A q \in Pod : q # p => cluster'[q] = cluster[q]
  BY DEF IndInv, TypeOK
<1>5. Existence'
  BY <1>1, <1>2, <1>3, <1>4 DEF IndInv, Existence
<1>6. SucceededViews'
  BY <1>1, <1>2, <1>3, <1>4 DEF IndInv, SucceededViews
<1>7. FailedViews'
  <2>1. ASSUME NEW k \in 1 .. Len(watch'), watch'[k].phase = "Failed"
        PROVE  /\ cluster'[watch'[k].pod] = "Failed"
               /\ \A l \in 1 .. Len(watch') : l > k => watch'[l].pod # watch'[k].pod
    <3>1. CASE k \in 1 .. Len(watch)
      <4>1. /\ watch[k].pod \in Pod
            /\ watch[k].phase = "Failed"
            /\ cluster[watch[k].pod] = "Failed"
            /\ \A l \in 1 .. Len(watch) : l > k => watch[l].pod # watch[k].pod
        <5>1. watch'[k] = watch[k] /\ watch[k] \in Event
          BY <1>2, <3>1 DEF IndInv, TypeOK
        <5>2. watch[k].pod \in Pod /\ watch[k].phase = "Failed"
          BY <2>1, <5>1 DEF Event
        <5> QED BY <3>1, <5>2 DEF IndInv, FailedViews
      <4>2. watch[k].pod # p
        BY <4>1
      <4>3. watch'[k] = watch[k]
        BY <1>2, <3>1
      <4>4. cluster'[watch'[k].pod] = "Failed"
        BY <1>4, <4>1, <4>2, <4>3
      <4>5. \A l \in 1 .. Len(watch') : l > k => watch'[l].pod # watch'[k].pod
        <5> TAKE l \in 1 .. Len(watch')
        <5> HAVE l > k
        <5>1. CASE l \in 1 .. Len(watch)
          BY <1>2, <4>1, <4>3, <5>1
        <5>2. CASE l = Len(watch) + 1
          BY <1>1, <1>2, <4>2, <4>3, <5>2
        <5> QED BY <1>3, <5>1, <5>2
      <4> QED BY <4>4, <4>5
    <3>2. CASE k = Len(watch) + 1
      BY <1>1, <1>2, <1>4, <2>1, <3>2
    <3> QED BY <1>3, <3>1, <3>2
  <2>2. ASSUME NEW q \in Pod, cache'[q] = "Failed"
        PROVE  /\ cluster'[q] = "Failed"
               /\ \A k \in 1 .. Len(watch') : watch'[k].pod # q
    BY <1>1, <1>2, <1>3, <1>4, <2>2 DEF IndInv, FailedViews
  <2>3. \A q \in Pod : buildPodPhase'[q] = "Failed" => cache'[q] = "Failed"
    BY DEF IndInv, FailedViews
  <2> QED BY <2>1, <2>2, <2>3 DEF FailedViews
<1> QED BY <1>2, <1>4, <1>5, <1>6, <1>7

\* When Create is called for p, every pod of an earlier stage has succeeded
\* and no pod after p has ever existed.
LEMMA CreateInOrder ==
  ASSUME IndInv, NEW p \in Pod, pc = "creating", NextUnset(p),
         first = 0 \/ buildGroup(p) = buildGroup(first)
  PROVE  /\ \A i \in Pod : i < p => buildPodPhase[i] # "unset"
         /\ \A j \in Pod : j > p => buildPodPhase[j] = "unset" /\ j \notin created
         /\ \A i \in Pod : Before(i, p) => i \in succeeded
         /\ first # 0 => first \in Pod /\ first < p
<1> USE PodNat DEF IndInv
<1>1. \A i \in Pod : i < p => buildPodPhase[i] # "unset"
  BY DEF NextUnset, Unset
<1>2. \A j \in Pod : j > p => buildPodPhase[j] = "unset" /\ j \notin created
  BY DEF NextUnset, Unset, PlanOrder, Existence
<1>3. first # 0 => first \in Pod /\ first < p
  <2> HAVE first # 0
  <2>1. first \in Pod /\ buildPodPhase[first] # "unset"
    BY DEF TypeOK, Creating
  <2>2. first # p /\ ~(first > p)
    BY <1>2, <2>1 DEF NextUnset, Unset
  <2> QED BY <2>1, <2>2
<1>4. \A i \in Pod : Before(i, p) => i \in succeeded
  <2> TAKE i \in Pod
  <2> HAVE Before(i, p)
  <2>1. i < p /\ buildPodPhase[i] # "unset"
    BY <1>1 DEF Before
  <2>2. CASE first = 0
    BY <2>1, <2>2 DEF Creating, SucceededViews
  <2>3. CASE first # 0 /\ i < first
    BY <2>3 DEF Creating
  <2>4. CASE first # 0 /\ ~(i < first)
    <3>1. PICK k \in i .. p : buildGroup(k) # buildGroup(i)
      BY DEF Before
    <3>2. k \in Pod
      BY <3>1, SizesAssumption DEF Pod
    <3>3. buildGroup(i) = buildGroup(first)
      <4>1. i >= first
        <5>1. i \in Nat /\ first \in Nat
          BY <1>3, <2>4
        <5> QED BY <2>4, <5>1
      <4> QED BY <2>1, <2>4, <4>1 DEF Creating
    <3>4. CASE k = p
      BY <2>4, <3>1, <3>3, <3>4
    <3>5. CASE k # p
      <4>1. k < p /\ k >= first
        <5>1. i \in Nat /\ p \in Nat /\ first \in Nat /\ k \in i .. p
          BY <1>3, <2>4, <3>1
        <5> QED BY <2>4, <3>5, <5>1
      <4>2. buildGroup(k) = buildGroup(first)
        BY <1>1, <2>4, <3>2, <4>1 DEF Creating
      <4> QED BY <3>1, <3>3, <4>2
    <3> QED BY <3>4, <3>5
  <2> QED BY <2>2, <2>3, <2>4
<1> QED BY <1>1, <1>2, <1>3, <1>4

\* A pod the API server admits keeps the order of the stages.
LEMMA AdmitKeeps ==
  ASSUME IndInv, NEW p \in Pod, pc = "creating", NextUnset(p),
         first = 0 \/ buildGroup(p) = buildGroup(first),
         Admit(p)
  PROVE  /\ StageOrder'
         /\ \A i, j \in Pod : i < j /\ j \in created' => buildPodPhase[i] # "unset"
<1> USE PodNat DEF IndInv, Admit
<1>1. StageOrder'
  BY CreateInOrder DEF StageOrder
<1>2. \A i, j \in Pod : i < j /\ j \in created' => buildPodPhase[i] # "unset"
  BY CreateInOrder DEF PlanOrder
<1> QED BY <1>1, <1>2

LEMMA CreateNextInv ==
  ASSUME IndInv, NEW p \in Pod, CreateNext(p)
  PROVE  IndInv'
<1>1. /\ pc = "creating"
      /\ NextUnset(p)
      /\ first = 0 \/ buildGroup(p) = buildGroup(first)
      /\ Admit(p)
      /\ buildPodPhase' = [buildPodPhase EXCEPT ![p] = "Pending"]
      /\ first' = IF first = 0 THEN p ELSE first
      /\ UNCHANGED <<defined, errorCount, canceled, err, pc, logs, cache, pvc, procVars>>
  BY DEF CreateNext
<1> USE PodNat DEF IndInv
<1>2. /\ \A i \in Pod : i < p => buildPodPhase[i] # "unset"
      /\ \A j \in Pod : j > p => buildPodPhase[j] = "unset" /\ j \notin created
      /\ \A i \in Pod : Before(i, p) => i \in succeeded
      /\ first # 0 => first \in Pod /\ first < p
  BY <1>1, CreateInOrder
<1>3. /\ buildPodPhase' \in [Pod -> PodPhase \cup {"unset"}]
      /\ buildPodPhase'[p] = "Pending"
      /\ \A q \in Pod : q # p => buildPodPhase'[q] = buildPodPhase[q]
  BY <1>1 DEF TypeOK, PodPhase
<1>4. /\ StageOrder'
      /\ \A i, j \in Pod : i < j /\ j \in created' => buildPodPhase[i] # "unset"
  BY <1>1, AdmitKeeps
<1>5. PlanOrder'
  BY <1>3, <1>4 DEF PlanOrder
<1>6. /\ cluster' \in [Pod -> PodPhase \cup {"absent"}]
      /\ watch' \in Seq(Event)
      /\ Existence' /\ SucceededViews' /\ FailedViews'
  <2>1. /\ cluster[p] # "Failed"
        /\ p \in created' /\ created \subseteq created'
        /\ succeeded \subseteq succeeded'
        /\ cluster' = [cluster EXCEPT ![p] = "Pending"]
        /\ watch' = Append(watch, [pod |-> p, phase |-> "Pending"])
    BY <1>1 DEF Admit
  <2>2. \A q \in Pod : \/ buildPodPhase'[q] = buildPodPhase[q]
                       \/ q = p /\ buildPodPhase'[q] = "Pending"
    <3> TAKE q \in Pod
    <3>1. CASE q = p
      BY <1>3, <3>1
    <3>2. CASE q # p
      BY <1>3, <3>2
    <3> QED BY <3>1, <3>2
  <2>3. cache' = cache /\ "Pending" \in PodPhase \cup {"absent"}
    BY <1>1 DEF PodPhase
  <2> QED BY <2>1, <2>2, <2>3, MoveKeeps
<1>7. TypeOK'
  BY <1>1, <1>3, <1>6 DEF TypeOK, procVars, Admit
<1>8. first' \in Pod /\ buildPodPhase'[first'] # "unset"
  BY <1>1, <1>2, <1>3 DEF Creating
<1>9. \A q \in Pod : q < first' => q \in succeeded'
  <2>1. CASE first = 0
    <3>1. \A q \in Pod : q < p => buildPodPhase[q] = "Succeeded"
      BY <1>1, <1>2, <2>1 DEF Creating
    <3> QED BY <1>1, <2>1, <3>1 DEF SucceededViews, Admit
  <2>2. CASE first # 0
    BY <1>1, <2>2 DEF Creating, Admit
  <2> QED BY <2>1, <2>2
<1>10. \A q \in Pod : q >= first' /\ buildPodPhase'[q] # "unset" =>
         buildGroup(q) = buildGroup(first')
  <2>1. CASE first = 0
    BY <1>1, <1>2, <1>3, <2>1
  <2>2. CASE first # 0
    BY <1>1, <1>2, <1>3, <2>2 DEF Creating
  <2> QED BY <2>1, <2>2
<1>11. Creating'
  <2>1. pc = "creating" /\ verdict' = "running" /\ first' # 0
    BY <1>1, <1>8 DEF Creating, procVars
  <2> QED BY <1>8, <1>9, <1>10, <2>1 DEF Creating
<1>12. LogsComplete' /\ StopSound' /\ Interrupts'
  <2>1. LogsComplete'
    BY <1>1, <1>3 DEF LogsComplete, Terminal
  <2>2. succeeded' = succeeded /\ \A q \in Pod : cluster[q] = "Failed" => cluster'[q] = "Failed"
    BY <1>1 DEF Admit, TypeOK
  <2>3. StopSound'
    BY <1>1, <2>2 DEF StopSound
  <2>4. Interrupts'
    BY <1>1 DEF Interrupts, procVars
  <2> QED BY <2>1, <2>3, <2>4
<1> QED BY <1>4, <1>5, <1>6, <1>7, <1>11, <1>12

LEMMA CreateFailsInv ==
  ASSUME IndInv, NEW p \in Pod, CreateFails(p)
  PROVE  IndInv'
<1>1. /\ pc = "creating"
      /\ NextUnset(p)
      /\ first = 0 \/ buildGroup(p) = buildGroup(first)
      /\ UNCHANGED podVars \/ Admit(p)
      /\ pc' = "idle"
      /\ first' = 0
      /\ errorHandler
      /\ UNCHANGED <<defined, buildPodPhase, logs, cache, pvc, procVars>>
  BY DEF CreateFails
<1> USE DEF IndInv
<1>2. /\ errorCount' \in 0 .. (MaxErrors + 1)
      /\ canceled' \in BOOLEAN
      /\ err' \in {"none", "podsFailed", "error"}
      /\ canceled => canceled'
      /\ canceled' /\ err' = "none" => canceled /\ err = "none"
      /\ err' = "podsFailed" => err = "podsFailed"
  BY <1>1, ErrorHandlerKeeps
<1>3. /\ cluster' \in [Pod -> PodPhase \cup {"absent"}]
      /\ watch' \in Seq(Event)
      /\ created' \subseteq Pod
      /\ succeeded' = succeeded
      /\ \A q \in Pod : cluster[q] = "Failed" => cluster'[q] = "Failed"
      /\ Existence' /\ SucceededViews' /\ FailedViews'
      /\ PlanOrder' /\ StageOrder'
  <2>1. CASE UNCHANGED podVars
    <3>1. Existence' /\ SucceededViews' /\ FailedViews'
      BY <1>1, <2>1 DEF podVars, Existence, SucceededViews, FailedViews
    <3>2. PlanOrder' /\ StageOrder'
      BY <1>1, <2>1 DEF podVars, PlanOrder, StageOrder
    <3> QED BY <2>1, <3>1, <3>2 DEF podVars, TypeOK
  <2>2. CASE Admit(p)
    <3>1. /\ cluster[p] # "Failed"
          /\ p \in created' /\ created \subseteq created' /\ created' \subseteq Pod
          /\ succeeded' = succeeded
          /\ cluster' = [cluster EXCEPT ![p] = "Pending"]
          /\ watch' = Append(watch, [pod |-> p, phase |-> "Pending"])
      BY <2>2 DEF Admit, TypeOK
    <3>2. /\ \A q \in Pod : buildPodPhase'[q] = buildPodPhase[q]
          /\ cache' = cache
          /\ "Pending" \in PodPhase \cup {"absent"}
      BY <1>1 DEF PodPhase
    <3>3. /\ cluster' \in [Pod -> PodPhase \cup {"absent"}]
          /\ watch' \in Seq(Event)
          /\ Existence' /\ SucceededViews' /\ FailedViews'
      BY <3>1, <3>2, MoveKeeps
    <3>4. StageOrder' /\ PlanOrder'
      BY <1>1, <2>2, AdmitKeeps DEF PlanOrder
    <3>5. \A q \in Pod : cluster[q] = "Failed" => cluster'[q] = "Failed"
      BY <3>1 DEF TypeOK
    <3> QED BY <3>1, <3>3, <3>4, <3>5
  <2> QED BY <1>1, <2>1, <2>2
<1>4. TypeOK'
  BY <1>1, <1>2, <1>3 DEF TypeOK, procVars
<1>5. Creating'
  BY <1>1 DEF Creating
<1>6. LogsComplete'
  BY <1>1, <1>2 DEF LogsComplete
<1>7. StopSound' /\ Interrupts'
  BY <1>1, <1>2, <1>3 DEF StopSound, Interrupts, procVars
<1> QED BY <1>3, <1>4, <1>5, <1>6, <1>7

\* The only stop without an error: nothing was left to create, so every pod
\* is remembered, and the loop started with every remembered pod succeeded.
LEMMA CreateDoneInv ==
  ASSUME IndInv, CreateDone
  PROVE  IndInv'
<1>1. /\ pc = "creating"
      /\ Unset = {} \/ first # 0
      /\ pc' = "idle"
      /\ first' = 0
      /\ IF first = 0 THEN stop("none") ELSE UNCHANGED <<err, canceled>>
      /\ UNCHANGED <<defined, buildPodPhase, errorCount, logs, podVars, cache, pvc, procVars>>
  BY DEF CreateDone
<1> USE DEF IndInv
<1>2. first = 0 => \A p \in Pod : p \in succeeded /\ p \in logs
  <2> HAVE first = 0
  <2>1. \A p \in Pod : buildPodPhase[p] = "Succeeded"
    BY <1>1 DEF Unset, Creating
  <2> QED BY <2>1 DEF SucceededViews, LogsComplete, Terminal
<1>3. /\ canceled' \in BOOLEAN
      /\ err' \in {"none", "podsFailed", "error"}
      /\ canceled => canceled'
      /\ canceled' /\ err' = "none" => succeeded = Pod /\ logs = Pod
      /\ err' = "podsFailed" => err = "podsFailed"
  <2>1. CASE first = 0
    <3>1. succeeded = Pod /\ logs = Pod
      BY <1>2, <2>1 DEF TypeOK
    <3>2. canceled' = TRUE /\ (err' = err \/ err' = "none")
      BY <1>1, <2>1 DEF stop
    <3> QED BY <3>1, <3>2 DEF TypeOK
  <2>2. CASE first # 0
    BY <1>1, <2>2 DEF TypeOK, StopSound, LogsComplete
  <2> QED BY <2>1, <2>2
<1>4. TypeOK'
  BY <1>1, <1>3 DEF TypeOK, podVars, procVars
<1>5. Existence' /\ SucceededViews' /\ FailedViews'
  BY <1>1 DEF Existence, SucceededViews, FailedViews, podVars
<1>6. PlanOrder' /\ StageOrder' /\ Creating'
  BY <1>1 DEF PlanOrder, StageOrder, Creating, podVars
<1>7. LogsComplete' /\ StopSound' /\ Interrupts'
  BY <1>1, <1>3 DEF LogsComplete, StopSound, Interrupts, podVars, procVars
<1> QED BY <1>4, <1>5, <1>6, <1>7

\* A step of the cluster that sends one event about an existing pod which
\* has not failed.
LEMMA ClusterInv ==
  ASSUME IndInv, "Failed" \notin Deletable,
         NEW p \in Pod, RunPod(p) \/ EndPod(p) \/ DeletePod(p)
  PROVE  IndInv'
<1>1. PICK phase \in PodPhase \cup {"absent"} :
        /\ cluster' = [cluster EXCEPT ![p] = phase]
        /\ watch' = Append(watch, [pod |-> p, phase |-> phase])
        /\ phase = "Succeeded" => p \in succeeded'
  BY DEF RunPod, EndPod, DeletePod, Move, PodPhase
<1>2. /\ cluster[p] # "Failed"
      /\ cluster[p] # "absent"
      /\ succeeded \subseteq succeeded'
      /\ succeeded' \subseteq Pod
      /\ UNCHANGED <<ctrlVars, created, cache, pvc, procVars>>
  BY DeletableAssumption DEF IndInv, TypeOK, RunPod, EndPod, DeletePod, PodPhase
<1> USE DEF IndInv
<1>3. /\ p \in created'
      /\ \A q \in Pod : buildPodPhase'[q] = buildPodPhase[q]
      /\ created \subseteq created'
      /\ cache' = cache
  BY <1>2 DEF Existence, ctrlVars
<1>4. /\ cluster' \in [Pod -> PodPhase \cup {"absent"}]
      /\ watch' \in Seq(Event)
      /\ Existence' /\ SucceededViews' /\ FailedViews'
  BY <1>1, <1>2, <1>3, MoveKeeps
<1>5. TypeOK'
  BY <1>2, <1>4 DEF TypeOK, ctrlVars, procVars
<1>6. PlanOrder' /\ StageOrder' /\ Creating'
  BY <1>2 DEF PlanOrder, StageOrder, Creating, ctrlVars, procVars
<1>7. LogsComplete' /\ Interrupts'
  BY <1>2 DEF LogsComplete, Interrupts, ctrlVars, procVars
<1>8. StopSound'
  <2>1. \A q \in Pod : cluster[q] = "Failed" => cluster'[q] = "Failed"
    BY <1>1, <1>2 DEF TypeOK
  <2>2. succeeded = Pod => succeeded' = Pod
    BY <1>2
  <2> QED BY <1>2, <2>1, <2>2 DEF StopSound, ctrlVars
<1> QED BY <1>4, <1>5, <1>6, <1>7, <1>8

\* The cache moves on: by one event, or by listing the cluster again.
LEMMA CacheInv ==
  ASSUME IndInv, Deliver \/ Relist
  PROVE  IndInv'
<1>1. UNCHANGED <<ctrlVars, cluster, created, succeeded, pvc, procVars>>
  BY DEF Deliver, Relist
<1> USE DEF IndInv
<1>2. /\ watch' \in Seq(Event)
      /\ cache' \in [Pod -> PodPhase \cup {"absent"}]
      /\ Existence' /\ SucceededViews' /\ FailedViews'
  <2>1. CASE Deliver
    <3>1. /\ watch' \in Seq(Event)
          /\ Len(watch') = Len(watch) - 1
          /\ Len(watch) \in Nat \ {0}
          /\ Head(watch) = watch[1]
          /\ watch[1] \in Event
          /\ \A k \in 1 .. Len(watch') : watch'[k] = watch[k + 1] /\ k + 1 \in 1 .. Len(watch)
      BY <2>1, TakeEvent DEF TypeOK, Deliver
    <3> DEFINE q == watch[1].pod
               phase == watch[1].phase
    <3>2. /\ q \in Pod
          /\ phase \in PodPhase \cup {"absent"}
          /\ 1 \in 1 .. Len(watch)
      BY <3>1 DEF Event
    <3>3. /\ cache' \in [Pod -> PodPhase \cup {"absent"}]
          /\ cache'[q] = phase
          /\ \A r \in Pod : r # q => cache'[r] = cache[r]
      BY <2>1, <3>1, <3>2 DEF Deliver, TypeOK
    <3>4. Existence'
      BY <1>1, <3>1, <3>2, <3>3 DEF Existence, ctrlVars
    <3>5. SucceededViews'
      BY <1>1, <3>1, <3>2, <3>3 DEF SucceededViews, ctrlVars
    <3>6. FailedViews'
      <4>1. ASSUME NEW k \in 1 .. Len(watch'), watch'[k].phase = "Failed"
            PROVE  /\ cluster'[watch'[k].pod] = "Failed"
                   /\ \A l \in 1 .. Len(watch') : l > k => watch'[l].pod # watch'[k].pod
        BY <1>1, <3>1, <4>1 DEF FailedViews
      <4>2. ASSUME NEW r \in Pod, cache'[r] = "Failed"
            PROVE  /\ cluster'[r] = "Failed"
                   /\ \A k \in 1 .. Len(watch') : watch'[k].pod # r
        <5>1. CASE r = q
          BY <1>1, <3>1, <3>2, <3>3, <4>2, <5>1 DEF FailedViews
        <5>2. CASE r # q
          BY <1>1, <3>1, <3>3, <4>2, <5>2 DEF FailedViews
        <5> QED BY <5>1, <5>2
      <4>3. ASSUME NEW r \in Pod, buildPodPhase'[r] = "Failed"
            PROVE  cache'[r] = "Failed"
        <5>1. cache[r] = "Failed"
          BY <1>1, <4>3 DEF FailedViews, ctrlVars
        <5>2. r # q
          BY <3>2, <5>1 DEF FailedViews
        <5> QED BY <3>3, <5>1, <5>2
      <4> QED BY <4>1, <4>2, <4>3 DEF FailedViews
    <3> QED BY <3>1, <3>3, <3>4, <3>5, <3>6
  <2>2. CASE Relist
    <3>1. cache' = cluster /\ watch' = <<>>
      BY <2>2 DEF Relist
    <3>2. watch' \in Seq(Event) /\ 1 .. Len(watch') = {}
      BY <3>1
    <3>3. cache' \in [Pod -> PodPhase \cup {"absent"}]
      BY <3>1 DEF TypeOK
    <3>4. Existence' /\ SucceededViews' /\ FailedViews'
      BY <1>1, <3>1, <3>2 DEF Existence, SucceededViews, FailedViews, ctrlVars
    <3> QED BY <3>2, <3>3, <3>4
  <2> QED BY <2>1, <2>2
<1>3. TypeOK'
  BY <1>1, <1>2 DEF TypeOK, ctrlVars, procVars
<1>4. PlanOrder' /\ StageOrder' /\ Creating'
  BY <1>1 DEF PlanOrder, StageOrder, Creating, ctrlVars, procVars
<1>5. LogsComplete' /\ StopSound' /\ Interrupts'
  BY <1>1 DEF LogsComplete, StopSound, Interrupts, ctrlVars, procVars
<1> QED BY <1>2, <1>3, <1>4, <1>5

\* The process is interrupted or ends, or nothing happens.
LEMMA ProcessInv ==
  ASSUME IndInv, Interrupt \/ Exit \/ UNCHANGED vars
  PROVE  IndInv'
<1>1. /\ UNCHANGED <<ctrlVars, podVars, cache, pvc>>
      /\ ctx' \in {"live", "cancelled"}
      /\ verdict' \in {"running", "success", "failure"}
      /\ pc = "creating" => verdict' = verdict
      /\ ctx' = ctx \/ canceled \/ Interruptible
  BY DEF IndInv, TypeOK, Interrupt, Exit, vars, procVars
<1> USE <1>1 DEF IndInv, ctrlVars, podVars
<1>2. TypeOK'
  BY DEF TypeOK
<1>3. Existence' /\ SucceededViews' /\ FailedViews'
  BY DEF Existence, SucceededViews, FailedViews
<1>4. PlanOrder' /\ StageOrder' /\ Creating'
  BY DEF PlanOrder, StageOrder, Creating
<1>5. LogsComplete' /\ StopSound' /\ Interrupts'
  BY DEF LogsComplete, StopSound, Interrupts
<1> QED BY <1>2, <1>3, <1>4, <1>5

LEMMA NextInv ==
  ASSUME IndInv, "Failed" \notin Deletable, [Next]_vars
  PROVE  IndInv'
<1>1. CASE Reconcile
  BY <1>1, FailsEarly, CollectLogsFailsInv, ReconcileBuildPodsInv DEF Reconcile
<1>2. CASE startNextBuildPods
  BY <1>2, CreateNextInv, CreateFailsInv, CreateDoneInv DEF startNextBuildPods
<1>3. CASE Cluster
  BY <1>3, ClusterInv DEF Cluster
<1>4. CASE Deliver \/ Relist
  BY <1>4, CacheInv
<1>5. CASE Interrupt \/ Exit \/ Ended \/ UNCHANGED vars
  BY <1>5, ProcessInv DEF Ended
<1> QED BY <1>1, <1>2, <1>3, <1>4, <1>5 DEF Next

-----------------------------------------------------------------------------
(* Theorems.                                                               *)

\* The inductive invariant holds in every reachable state of every build
\* whose failed pods are left alone.
THEOREM Invariance ==
  ASSUME "Failed" \notin Deletable
  PROVE  Spec => []IndInv
<1>1. Init => IndInv
  BY InitInv
<1>2. IndInv /\ [Next]_vars => IndInv'
  BY NextInv
<1> QED BY <1>1, <1>2, PTL DEF Spec

\* Every variable keeps its type (the fields of buildReconciler, the pods at
\* the API server and in the cache), also when failed pods are deleted.
THEOREM TypeCorrect == Spec => []TypeOK
<1>1. Init => TypeOK
  BY InitInv DEF IndInv
<1>2. TypeOK /\ [Next]_vars => TypeOK'
  <2> SUFFICES ASSUME TypeOK, [Next]_vars PROVE TypeOK'
    OBVIOUS
  <2>1. ASSUME errorHandler
        PROVE  /\ errorCount' \in 0 .. (MaxErrors + 1)
               /\ canceled' \in BOOLEAN
               /\ err' \in {"none", "podsFailed", "error"}
    BY <2>1, ErrorHandlerKeeps
  <2>2. ASSUME NEW S \in SUBSET Changed
        PROVE  Recorded(S) \in [Pod -> PodPhase \cup {"unset"}]
    BY DEF Recorded, Changed, TypeOK
  <2>3. ASSUME NEW p \in Pod, NEW phase \in PodPhase \cup {"absent"}
        PROVE  /\ [cluster EXCEPT ![p] = phase] \in [Pod -> PodPhase \cup {"absent"}]
               /\ Append(watch, [pod |-> p, phase |-> phase]) \in Seq(Event)
    BY DEF TypeOK, Event
  <2>4. {"Pending", "Running", "Succeeded", "Failed"} = PodPhase
    BY DEF PodPhase
  <2>5. CASE EnsureFails \/ ListFails
    BY <2>1, <2>5 DEF EnsureFails, ListFails, Ensured, TypeOK, podVars, procVars
  <2>6. CASE CollectLogsFails
    <3>1. PICK S \in SUBSET Changed :
            /\ buildPodPhase' = Recorded(S)
            /\ logs' = logs \cup {p \in S : cache[p] \in Terminal}
      BY <2>6 DEF CollectLogsFails
    <3>2. buildPodPhase' \in [Pod -> PodPhase \cup {"unset"}]
      BY <2>2, <3>1
    <3>3. logs' \subseteq Pod
      BY <3>1 DEF Changed, TypeOK
    <3>4. /\ errorHandler
          /\ defined' \in BOOLEAN /\ pvc' \in BOOLEAN
          /\ UNCHANGED <<pc, first, podVars, cache, procVars>>
      BY <2>6 DEF CollectLogsFails, Ensured, TypeOK
    <3> QED BY <2>1, <3>2, <3>3, <3>4 DEF TypeOK, podVars, procVars
  <2>7. CASE ReconcileBuildPods
    <3>1. /\ buildPodPhase' \in [Pod -> PodPhase \cup {"unset"}]
          /\ logs' \subseteq Pod
          /\ first' = 0
          /\ defined' \in BOOLEAN /\ pvc' \in BOOLEAN
          /\ UNCHANGED <<podVars, cache, procVars>>
      BY <2>2, <2>7 DEF ReconcileBuildPods, Ensured, TypeOK, Changed
    <3>2. /\ errorCount' \in 0 .. (MaxErrors + 1)
          /\ canceled' \in BOOLEAN
          /\ err' \in {"none", "podsFailed", "error"}
          /\ pc' \in {"idle", "creating"}
      BY <2>1, <2>7 DEF ReconcileBuildPods, stop, TypeOK
    <3> QED BY <3>1, <3>2 DEF TypeOK, podVars, procVars
  <2>8. ASSUME NEW p \in Pod, CreateNext(p) PROVE TypeOK'
    <3>1. cluster' \in [Pod -> PodPhase \cup {"absent"}] /\ watch' \in Seq(Event)
      BY <2>3, <2>4, <2>8 DEF CreateNext, Admit
    <3>2. buildPodPhase' \in [Pod -> PodPhase \cup {"unset"}]
      BY <2>4, <2>8 DEF CreateNext, TypeOK
    <3>3. /\ created' \subseteq Pod /\ first' \in Pod \cup {0}
          /\ UNCHANGED <<succeeded, defined, errorCount, canceled, err, pc, logs,
                         cache, pvc, ctx, verdict>>
      BY <2>8 DEF CreateNext, Admit, TypeOK, procVars
    <3> QED BY <3>1, <3>2, <3>3 DEF TypeOK
  <2>9. ASSUME NEW p \in Pod, CreateFails(p) PROVE TypeOK'
    <3>1. /\ cluster' \in [Pod -> PodPhase \cup {"absent"}]
          /\ watch' \in Seq(Event)
          /\ created' \subseteq Pod
          /\ succeeded' = succeeded
      <4>1. CASE UNCHANGED podVars
        BY <4>1 DEF podVars, TypeOK
      <4>2. CASE Admit(p)
        BY <2>3, <2>4, <4>2 DEF Admit, TypeOK
      <4> QED BY <2>9, <4>1, <4>2 DEF CreateFails
    <3>2. /\ errorHandler /\ pc' = "idle" /\ first' = 0
          /\ UNCHANGED <<defined, buildPodPhase, logs, cache, pvc, ctx, verdict>>
      BY <2>9 DEF CreateFails, procVars
    <3> QED BY <2>1, <3>1, <3>2 DEF TypeOK
  <2>10. CASE CreateDone
    BY <2>10 DEF CreateDone, stop, TypeOK, podVars, procVars
  <2>11. ASSUME NEW p \in Pod, RunPod(p) \/ EndPod(p) \/ DeletePod(p) PROVE TypeOK'
    <3>1. /\ cluster' \in [Pod -> PodPhase \cup {"absent"}]
          /\ watch' \in Seq(Event)
      <4>1. PICK phase \in PodPhase \cup {"absent"} : Move(p, phase)
        BY <2>4, <2>11 DEF RunPod, EndPod, DeletePod
      <4> QED BY <2>3, <4>1 DEF Move
    <3>2. /\ succeeded' \subseteq Pod
          /\ UNCHANGED <<ctrlVars, created, cache, pvc, procVars>>
      BY <2>11 DEF RunPod, EndPod, DeletePod, TypeOK
    <3> QED BY <3>1, <3>2 DEF TypeOK, ctrlVars, procVars
  <2>12. CASE Deliver
    <3>1. /\ watch' \in Seq(Event)
          /\ Head(watch) \in Event
      BY <2>12, TakeEvent DEF Deliver, TypeOK
    <3> QED BY <2>12, <3>1 DEF Deliver, TypeOK, Event, ctrlVars, procVars
  <2>13. CASE Relist \/ Interrupt \/ Exit \/ Ended \/ UNCHANGED vars
    <3>1. CASE Relist
      BY <3>1 DEF Relist, TypeOK, ctrlVars, procVars
    <3>2. CASE Interrupt \/ Exit
      BY <3>2 DEF Interrupt, Exit, TypeOK, ctrlVars, podVars, procVars
    <3>3. CASE Ended \/ UNCHANGED vars
      BY <3>3 DEF Ended, vars, TypeOK, ctrlVars, podVars, procVars
    <3> QED BY <2>13, <3>1, <3>2, <3>3
  <2> QED BY <2>5, <2>6, <2>7, <2>8, <2>9, <2>10, <2>11, <2>12, <2>13
          DEF Next, Reconcile, startNextBuildPods, Cluster
<1> QED BY <1>1, <1>2, PTL DEF Spec

\* No build pod is created before all pods of the earlier stages have
\* succeeded (startNextBuildPods), whatever the cache shows meanwhile.
THEOREM StagesInOrder == "Failed" \notin Deletable => (Spec => []StageOrder)
<1> SUFFICES ASSUME "Failed" \notin Deletable PROVE Spec => []StageOrder
  OBVIOUS
<1>1. Spec => []IndInv
  BY Invariance
<1>2. IndInv => StageOrder
  BY DEF IndInv
<1> QED BY <1>1, <1>2, PTL

\* A stop without an error means that all pods have succeeded, a stop for a
\* failed pod that there is one (reconcileBuildPods, stop).
THEOREM StopsAreSound == "Failed" \notin Deletable => (Spec => []StopSound)
<1> SUFFICES ASSUME "Failed" \notin Deletable PROVE Spec => []StopSound
  OBVIOUS
<1>1. Spec => []IndInv
  BY Invariance
<1>2. IndInv => StopSound
  BY DEF IndInv
<1> QED BY <1>1, <1>2, PTL

\* No log is lost to a Reconcile that fails in the middle of its status loop
\* (collectBuildPodLogs is called before the phase is remembered).
THEOREM LogsAreComplete == "Failed" \notin Deletable => (Spec => []LogsComplete)
<1> SUFFICES ASSUME "Failed" \notin Deletable PROVE Spec => []LogsComplete
  OBVIOUS
<1>1. Spec => []IndInv
  BY Invariance
<1>2. IndInv => LogsComplete
  BY DEF IndInv
<1> QED BY <1>1, <1>2, PTL

\* The first stop wins (stop): no assumption on deletions is needed.
THEOREM FirstStop == Spec => FirstStopWins
<1>1. [Next]_vars => [canceled => canceled' /\ err' = err]_vars
  <2> SUFFICES ASSUME [Next]_vars, canceled PROVE canceled' /\ err' = err
    OBVIOUS
  <2> USE DEF stop, errorHandler, ctrlVars
  <2>1. CASE Reconcile
    BY <2>1 DEF Reconcile, EnsureFails, ListFails, CollectLogsFails, ReconcileBuildPods
  <2>2. CASE startNextBuildPods
    BY <2>2 DEF startNextBuildPods, CreateDone, CreateNext, CreateFails
  <2>3. CASE Cluster
    BY <2>3 DEF Cluster, RunPod, EndPod, DeletePod
  <2>4. CASE Deliver \/ Relist \/ Interrupt \/ Exit \/ Ended \/ UNCHANGED vars
    BY <2>4 DEF Deliver, Relist, Interrupt, Exit, Ended, vars
  <2> QED BY <2>1, <2>2, <2>3, <2>4 DEF Next
<1> QED BY <1>1, PTL DEF Spec, FirstStopWins

\* Left to itself, the controller with its cluster implements the pipeline:
\* every step is a step of BuildPipeline or leaves its variables unchanged.
THEOREM Implementation ==
  "Failed" \notin Deletable /\ ~Interruptible => (Spec => ImplementsPipeline)
<1> SUFFICES ASSUME "Failed" \notin Deletable, ~Interruptible
             PROVE  Spec => ImplementsPipeline
  OBVIOUS
<1>1. Init => Pipeline!Init
  BY DEF Init, Pipeline!Init
<1>2. IndInv /\ [Next]_vars => [Pipeline!Next]_(Pipeline!vars)
  <2> SUFFICES ASSUME IndInv, [Next]_vars
               PROVE  Pipeline!Next \/ UNCHANGED <<created, succeeded, verdict>>
    BY DEF Pipeline!vars
  <2>1. ASSUME NEW p \in Pod, pc = "creating", NextUnset(p),
               first = 0 \/ buildGroup(p) = buildGroup(first),
               Admit(p), verdict' = verdict
        PROVE  Pipeline!Next \/ UNCHANGED <<created, succeeded, verdict>>
    <3>1. \A i \in Pod : Before(i, p) => i \in succeeded
      BY <2>1, CreateInOrder
    <3>2. verdict = "running"
      BY <2>1 DEF IndInv, Creating
    <3>3. created' = created \cup {p} /\ succeeded' = succeeded
      BY <2>1 DEF Admit
    <3>4. CASE p \in created
      BY <2>1, <3>3, <3>4
    <3>5. CASE p \notin created
      BY <2>1, <3>1, <3>2, <3>3, <3>5 DEF Pipeline!Start, Pipeline!Next
    <3> QED BY <3>4, <3>5
  <2>2. CASE Reconcile
    BY <2>2 DEF Reconcile, EnsureFails, ListFails, CollectLogsFails, ReconcileBuildPods,
                podVars, procVars
  <2>3. CASE startNextBuildPods
    <3>1. CASE CreateDone
      BY <3>1 DEF CreateDone, podVars, procVars
    <3>2. ASSUME NEW p \in Pod, CreateNext(p)
          PROVE  Pipeline!Next \/ UNCHANGED <<created, succeeded, verdict>>
      BY <2>1, <3>2 DEF CreateNext, procVars
    <3>3. ASSUME NEW p \in Pod, CreateFails(p)
          PROVE  Pipeline!Next \/ UNCHANGED <<created, succeeded, verdict>>
      <4>1. CASE UNCHANGED podVars
        BY <3>3, <4>1 DEF CreateFails, podVars, procVars
      <4>2. CASE Admit(p)
        BY <2>1, <3>3, <4>2 DEF CreateFails, procVars
      <4> QED BY <3>3, <4>1, <4>2 DEF CreateFails
    <3> QED BY <2>3, <3>1, <3>2, <3>3 DEF startNextBuildPods
  <2>4. ASSUME NEW p \in Pod, RunPod(p) \/ EndPod(p) \/ DeletePod(p)
        PROVE  Pipeline!Next \/ UNCHANGED <<created, succeeded, verdict>>
    <3>1. CASE UNCHANGED succeeded
      BY <2>4, <3>1 DEF RunPod, EndPod, DeletePod, procVars
    <3>2. CASE EndPod(p) /\ succeeded' = succeeded \cup {p}
      <4>1. p \in created
        BY <3>2 DEF EndPod, IndInv, Existence
      <4>2. Pipeline!Finish(p)
        BY <3>2, <4>1 DEF EndPod, Pipeline!Finish, procVars
      <4> QED BY <4>2 DEF Pipeline!Next
    <3> QED BY <2>4, <3>1, <3>2 DEF RunPod, EndPod, DeletePod
  <2>5. CASE Exit
    <3>1. UNCHANGED <<created, succeeded>> /\ verdict = "running"
      BY <2>5 DEF Exit, podVars
    <3>2. CASE err = "none"
      <4>1. succeeded = Pod
        BY <2>5, <3>2 DEF Exit, IndInv, Interrupts, StopSound
      <4> QED BY <2>5, <3>1, <3>2, <4>1 DEF Exit, Pipeline!Report, Pipeline!Next
    <3>3. CASE err # "none"
      BY <2>5, <3>1, <3>3 DEF Exit, Pipeline!Report, Pipeline!Next
    <3> QED BY <3>2, <3>3
  <2>6. CASE Deliver \/ Relist \/ Interrupt \/ Ended \/ UNCHANGED vars
    BY <2>6 DEF Deliver, Relist, Interrupt, Ended, vars, podVars, procVars
  <2> QED BY <2>2, <2>3, <2>4, <2>5, <2>6 DEF Next, Cluster
<1>3. Spec => []IndInv
  BY Invariance
<1> QED BY <1>1, <1>2, <1>3, PTL DEF Spec, ImplementsPipeline, Pipeline!Spec

\* Errors end a build when there have been more than MaxErrors of them, and not
\* before (errorHandler, stop), whatever else stops it.
THEOREM ErrorsAreBounded == Spec => []ErrorBudget
<1>1. Init => ErrorBudget
  BY SizesAssumption DEF Init, ErrorBudget
<1>2. TypeOK /\ ErrorBudget /\ [Next]_vars => ErrorBudget'
  <2> SUFFICES ASSUME TypeOK, ErrorBudget, [Next]_vars PROVE ErrorBudget'
    OBVIOUS
  <2>1. errorCount \in Nat /\ MaxErrors \in Nat
    BY SizesAssumption DEF TypeOK
  <2>2. CASE errorHandler
    BY <2>1, <2>2 DEF errorHandler, stop, ErrorBudget
  <2>3. CASE UNCHANGED <<errorCount, canceled, err>>
    BY <2>3 DEF ErrorBudget
  <2>4. CASE errorCount' = errorCount /\ (stop("none") \/ stop("podsFailed"))
    BY <2>4 DEF stop, ErrorBudget
  <2>5. CASE Reconcile
    BY <2>2, <2>3, <2>4, <2>5
       DEF Reconcile, EnsureFails, ListFails, CollectLogsFails, ReconcileBuildPods
  <2>6. CASE startNextBuildPods
    BY <2>2, <2>3, <2>4, <2>6 DEF startNextBuildPods, CreateDone, CreateNext, CreateFails
  <2>7. CASE Cluster
    BY <2>3, <2>7 DEF Cluster, RunPod, EndPod, DeletePod, ctrlVars
  <2>8. CASE Deliver \/ Relist \/ Interrupt \/ Exit \/ Ended \/ UNCHANGED vars
    BY <2>3, <2>8 DEF Deliver, Relist, Interrupt, Exit, Ended, vars, ctrlVars
  <2> QED BY <2>5, <2>6, <2>7, <2>8 DEF Next
<1> QED BY <1>1, <1>2, TypeCorrect, PTL DEF Spec

\* The build pods are defined after the claim has been made, and created after
\* they are defined; neither is taken back by a failure in between.
Provision == /\ VolumeExists
             /\ defined => pvc
             /\ pc = "creating" => defined

\* Unless there is a claim named like the namespace, no pod is created before
\* the volume it mounts (ensureBuildPodDefinition).
THEOREM VolumesExist == ~ForeignPVC => (Spec => []VolumeExists)
<1> SUFFICES ASSUME ~ForeignPVC PROVE Spec => []VolumeExists
  OBVIOUS
<1>1. Init => Provision
  BY DEF Init, Provision, VolumeExists
<1>2. Provision /\ [Next]_vars => Provision'
  <2> SUFFICES ASSUME Provision, [Next]_vars PROVE Provision'
    OBVIOUS
  <2> USE DEF Provision, VolumeExists
  <2>1. CASE Reconcile
    <3>1. CASE EnsureFails
      BY <3>1 DEF EnsureFails, ReconcileStarts, podVars
    <3>2. CASE Ensured /\ created' = created
      BY <3>2 DEF Ensured
    <3> QED BY <2>1, <3>1, <3>2
            DEF Reconcile, ListFails, CollectLogsFails, ReconcileBuildPods, podVars
  <2>2. CASE startNextBuildPods
    <3>1. pc = "creating" /\ defined' = defined /\ pvc' = pvc
      BY <2>2 DEF startNextBuildPods, CreateDone, CreateNext, CreateFails
    <3> QED BY <3>1
  <2>3. CASE Cluster \/ Deliver \/ Relist \/ Interrupt \/ Exit \/ Ended \/ UNCHANGED vars
    BY <2>3 DEF Cluster, RunPod, EndPod, DeletePod, Deliver, Relist, Interrupt, Exit, Ended,
                vars, ctrlVars, podVars
  <2> QED BY <2>1, <2>2, <2>3 DEF Next
<1>3. Provision => VolumeExists
  BY DEF Provision
<1> QED BY <1>1, <1>2, <1>3, PTL DEF Spec
=============================================================================
