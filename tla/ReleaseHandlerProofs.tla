------------------------ MODULE ReleaseHandlerProofs ------------------------
(***************************************************************************)
(* Release branches start before the bump, a green run has one, and no     *)
(* commits of people are lost, for any versions, any number of commits and *)
(* pushes of any length.                                                   *)
(***************************************************************************)
EXTENDS ReleaseHandler, TLAPS

\* There is a commit before any that a job is triggered for.
DueAfterFirst == \A c \in due : c > 1

\* A run that pushes has found a bump.
Pushing == pc = "push" => sha > 1 /\ Bump(sha)

IndInv == /\ TypeOK
          /\ DueAfterFirst
          /\ Pushing
          /\ BranchPoint

-----------------------------------------------------------------------------
(* Versions.                                                               *)

\* Versions in the log have numbers that can be compared.
LEMMA LogOfVersions ==
  ASSUME log \in Seq(Versions), NEW c \in DOMAIN log
  PROVE  /\ log[c] \in Versions
         /\ log[c].major \in Nat /\ log[c].minor \in Nat /\ log[c].patch \in Nat
         /\ log[c].dev \in BOOLEAN
<1>1. log[c] \in Versions
  OBVIOUS
<1>2. log[c] \in Version
  BY <1>1, HandlerAssumption
<1>. QED
  BY <1>1, <1>2 DEF Version

\* The classification that creates a branch is that of a bump: versions are
\* compared as a whole first, so that a larger minor version under a smaller
\* major one is refused.
LEMMA ClassifiedAsBump ==
  ASSUME log \in Seq(Versions), NEW c \in DOMAIN log, c > 1
  PROVE  Bump(c) <=> change(c) = "prepareNewMajorMinorVersion"
<1>1. c \in 1 .. Len(log) /\ c - 1 \in DOMAIN log
  OBVIOUS
<1>2. /\ log[c].major \in Nat /\ log[c].minor \in Nat /\ log[c].patch \in Nat
      /\ log[c].dev \in BOOLEAN
  BY LogOfVersions
<1>3. /\ log[c - 1].major \in Nat /\ log[c - 1].minor \in Nat /\ log[c - 1].patch \in Nat
      /\ log[c - 1].dev \in BOOLEAN
  BY <1>1, LogOfVersions
<1>. DEFINE v == log[c]
            w == log[c - 1]
<1>4. Bump(c) => newer(v, w)
  BY <1>2, <1>3 DEF Bump, newer
<1>5. newer(v, w) /\ (v.major > w.major \/ v.minor > w.minor)
        => v.major > w.major \/ (v.major = w.major /\ v.minor > w.minor)
  BY <1>2, <1>3 DEF newer
<1>. HIDE DEF v, w
<1>6. change(c) = classifyVersionChange(v, w)
  BY DEF change, v, w
<1>7. Bump(c) <=> /\ v.dev /\ w.dev
                  /\ v.major > w.major \/ (v.major = w.major /\ v.minor > w.minor)
  BY <1>1 DEF Bump, v, w
<1>. QED
  BY <1>4, <1>5, <1>6, <1>7 DEF classifyVersionChange

-----------------------------------------------------------------------------
(* Steps.                                                                  *)

\* A push to the base branch changes no commit there is.
LEMMA LogGrows ==
  ASSUME log \in Seq(Versions), NEW k \in 1 .. MaxPush, NEW vs \in [1 .. k -> Versions],
         PushToBase(vs)
  PROVE  /\ log' \in Seq(Versions) /\ Len(log') = Len(log) + k
         /\ Len(log') <= MaxCommits
         /\ \A c \in DOMAIN log : c \in DOMAIN log' /\ log'[c] = log[c]
<1>1. k \in Nat /\ vs \in Seq(Versions) /\ Len(vs) = k
  BY HandlerAssumption
<1>2. log' = log \o vs /\ Len(log) + Len(vs) <= MaxCommits
  BY DEF PushToBase
<1>. QED
  BY <1>1, <1>2

\* What was said of a commit stays true when commits are added.
LEMMA BumpStays ==
  ASSUME log \in Seq(Versions),
         \A c \in DOMAIN log : c \in DOMAIN log' /\ log'[c] = log[c],
         NEW c \in DOMAIN log
  PROVE  Bump(c)' <=> Bump(c)
<1>1. CASE c > 1
  BY <1>1, c - 1 \in DOMAIN log DEF Bump
<1>2. CASE ~(c > 1)
  BY <1>2 DEF Bump
<1>. QED
  BY <1>1, <1>2

\* Actions that leave the log and the branches alone.
LEMMA JobSteps ==
  ASSUME IndInv, NEW c \in DOMAIN log, Prepare(c) \/ Skip(c) \/ Fail(c) \/ Rerun(c)
  PROVE  IndInv'
<1>1. log' = log /\ branches' = branches /\ UNCHANGED seen
  BY DEF Prepare, Skip, Fail, Rerun, Event
<1>2. BranchPoint'
  <2>1. BranchPoint
    BY DEF IndInv
  <2>. QED
    BY <1>1, <2>1 DEF BranchPoint, Bump
<1>3. DueAfterFirst'
  BY DEF IndInv, DueAfterFirst, Prepare, Skip, Fail, Rerun
<1>4. Pushing'
  <2>1. CASE Prepare(c)
    <3>1. c > 1
      BY <2>1 DEF IndInv, DueAfterFirst, Prepare
    <3>2. change(c) = "prepareNewMajorMinorVersion"
      BY <2>1 DEF Prepare, needsBranch
    <3>3. Bump(c)
      BY <3>1, <3>2, ClassifiedAsBump DEF IndInv, TypeOK
    <3>. QED
      BY <1>1, <2>1, <3>1, <3>3 DEF Pushing, Prepare, Bump
  <2>2. CASE Skip(c) \/ Fail(c) \/ Rerun(c)
    BY <1>1, <2>2 DEF IndInv, Pushing, Bump, Skip, Fail, Rerun, Event
  <2>. QED
    BY <2>1, <2>2
<1>5. TypeOK'
  <2>1. CASE Prepare(c)
    BY <1>1, <2>1 DEF IndInv, DueAfterFirst, TypeOK, Prepare
  <2>2. CASE Skip(c)
    BY <1>1, <2>2 DEF IndInv, TypeOK, Skip
  <2>3. CASE Fail(c)
    BY <1>1, <2>3 DEF IndInv, TypeOK, Fail
  <2>4. CASE Rerun(c)
    <3>1. events' \in 0 .. MaxEvents
      BY <2>4, HandlerAssumption DEF IndInv, TypeOK, Rerun, Event
    <3>. QED
      BY <1>1, <2>4, <3>1 DEF IndInv, TypeOK, Rerun, Event
  <2>. QED
    BY <2>1, <2>2, <2>3, <2>4
<1>. QED
  BY <1>2, <1>3, <1>4, <1>5 DEF IndInv

\* The push puts the branch where the bump found in Prepare begins.
LEMMA PushStep ==
  ASSUME IndInv, Push
  PROVE  IndInv'
<1>. DEFINE n  == releaseBranchName(log[sha - 1])
            at == startingPoint(sha)
            b  == [at |-> at, own |-> FALSE, by |-> "handler"]
<1>1. /\ pc = "push" /\ pc' = "idle" /\ sha' = 0
      /\ log' = log /\ due' = due /\ events' = events
  BY DEF Push, End
<1>2. /\ sha \in DOMAIN log /\ sha > 1 /\ Bump(sha)
      /\ at \in DOMAIN log /\ at + 1 = sha
  BY <1>1 DEF IndInv, TypeOK, Pushing, startingPoint
<1>3. n \in Name
  BY <1>2 DEF IndInv, TypeOK, Name, startingPoint
<1>4. green' \subseteq DOMAIN log
  BY <1>2 DEF Push, IndInv, TypeOK
<1>5. \/ Put(n, b)
      \/ branches' = branches /\ seen' = seen
  BY DEF Push
<1>6. DueAfterFirst' /\ Pushing'
  BY <1>1 DEF IndInv, DueAfterFirst, Pushing
<1>7. releaseBranchName(log[at]) = n
  BY <1>2 DEF startingPoint
<1>. HIDE DEF n, at
<1>8. CASE Put(n, b)
  <2>1. DOMAIN branches' = DOMAIN branches \cup {n} /\ seen' = seen \cup {n}
    BY <1>8 DEF Put
  <2>2. \A m \in DOMAIN branches' : branches'[m] = IF m = n THEN b ELSE branches[m]
    BY <1>8 DEF Put
  <2>3. \A m \in DOMAIN branches' :
          branches'[m] \in [at : DOMAIN log, own : BOOLEAN, by : {"handler", "people"}]
    <3>1. b \in [at : DOMAIN log, own : BOOLEAN, by : {"handler", "people"}]
      BY <1>2
    <3>2. \A m \in DOMAIN branches :
            branches[m] \in [at : DOMAIN log, own : BOOLEAN, by : {"handler", "people"}]
      BY DEF IndInv, TypeOK
    <3>. HIDE DEF b
    <3>. QED
      BY <2>1, <2>2, <3>1, <3>2
  <2>4. TypeOK'
    BY <1>1, <1>3, <1>4, <2>1, <2>3 DEF IndInv, TypeOK
  <2>5. BranchPoint'
    <3>. SUFFICES ASSUME NEW m \in DOMAIN branches', branches'[m].by = "handler"
                  PROVE  /\ releaseBranchName(log[branches'[m].at]) = m
                         /\ branches'[m].at + 1 \in DOMAIN log
                         /\ Bump(branches'[m].at + 1)
      BY <1>1 DEF BranchPoint, Bump
    <3>1. CASE m = n
      BY <1>2, <1>7, <2>2, <3>1
    <3>2. CASE m # n
      BY <2>1, <2>2, <3>2 DEF IndInv, BranchPoint
    <3>. QED
      BY <3>1, <3>2
  <2>. QED
    BY <1>6, <2>4, <2>5 DEF IndInv
<1>9. CASE branches' = branches /\ seen' = seen
  BY <1>1, <1>4, <1>6, <1>9 DEF IndInv, TypeOK, BranchPoint, Bump
<1>. QED
  BY <1>5, <1>8, <1>9

\* Commits are added behind those jobs and branches refer to.
LEMMA PushToBaseStep ==
  ASSUME IndInv, NEW k \in 1 .. MaxPush, NEW vs \in [1 .. k -> Versions], PushToBase(vs)
  PROVE  IndInv'
<1>1. log \in Seq(Versions) /\ Len(log) \in Commit
  BY DEF IndInv, TypeOK
<1>2. /\ log' \in Seq(Versions) /\ Len(log') = Len(log) + k /\ Len(log') <= MaxCommits
      /\ \A c \in DOMAIN log : c \in DOMAIN log' /\ log'[c] = log[c]
  BY <1>1, LogGrows
<1>3. \A c \in DOMAIN log : Bump(c)' <=> Bump(c)
  BY <1>1, <1>2, BumpStays
<1>4. k \in Nat \ {0} /\ Len(log) \in Nat \ {0}
  BY <1>1, HandlerAssumption DEF Commit
<1>5. Len(log') \in Commit /\ Len(log') > 1 /\ Len(log') \in DOMAIN log'
  BY <1>2, <1>4, HandlerAssumption DEF Commit
<1>6. UNCHANGED <<branches, pc, sha, green, seen, events>> /\ due' \subseteq due \cup {Len(log')}
  BY DEF PushToBase
<1>7. TypeOK'
  <2>1. \A n \in DOMAIN branches' :
          branches'[n] \in [at : DOMAIN log', own : BOOLEAN, by : {"handler", "people"}]
    BY <1>2, <1>6 DEF IndInv, TypeOK
  <2>2. due' \subseteq DOMAIN log' /\ green' \subseteq DOMAIN log' /\ sha' \in {0} \cup DOMAIN log'
    BY <1>2, <1>5, <1>6 DEF IndInv, TypeOK
  <2>. QED
    BY <1>2, <1>5, <1>6, <2>1, <2>2 DEF IndInv, TypeOK
<1>8. DueAfterFirst'
  BY <1>5, <1>6 DEF IndInv, DueAfterFirst
<1>9. Pushing'
  BY <1>3, <1>6 DEF IndInv, TypeOK, Pushing
<1>10. BranchPoint'
  <2>. SUFFICES ASSUME NEW n \in DOMAIN branches, branches[n].by = "handler"
                PROVE  /\ releaseBranchName(log'[branches[n].at]) = n
                       /\ branches[n].at + 1 \in DOMAIN log'
                       /\ Bump(branches[n].at + 1)'
    BY <1>6 DEF BranchPoint
  <2>1. branches[n].at \in DOMAIN log
    BY DEF IndInv, TypeOK
  <2>2. /\ releaseBranchName(log[branches[n].at]) = n
        /\ branches[n].at + 1 \in DOMAIN log /\ Bump(branches[n].at + 1)
    BY DEF IndInv, BranchPoint
  <2>. QED
    BY <1>2, <1>3, <1>6, <2>1, <2>2
<1>. QED
  BY <1>7, <1>8, <1>9, <1>10 DEF IndInv

\* People make no branches of the handler.
LEMMA BranchSteps ==
  ASSUME IndInv, NEW n \in Name,
         (\E c \in DOMAIN log : CreateBranch(n, c)) \/ CommitToBranch(n) \/ DeleteBranch(n)
  PROVE  IndInv'
<1>1. /\ log' = log /\ due' = due /\ pc' = pc /\ sha' = sha /\ green' = green
      /\ events' \in 0 .. MaxEvents
  <2>1. Event /\ due' = due
    BY DEF CreateBranch, CommitToBranch, DeleteBranch
  <2>. QED
    BY <2>1, HandlerAssumption DEF IndInv, TypeOK, Event
<1>2. /\ DOMAIN branches' \subseteq DOMAIN branches \cup {n}
      /\ DOMAIN branches' \subseteq seen' /\ seen' \subseteq Name
  BY DEF IndInv, TypeOK, CreateBranch, CommitToBranch, DeleteBranch, Put
<1>3. \A m \in DOMAIN branches' :
        /\ branches'[m] \in [at : DOMAIN log, own : BOOLEAN, by : {"handler", "people"}]
        /\ branches'[m].by = "handler" => m \in DOMAIN branches
                                          /\ branches[m].by = "handler"
                                          /\ branches'[m].at = branches[m].at
  <2>1. CASE \E c \in DOMAIN log : CreateBranch(n, c)
    BY <2>1 DEF IndInv, TypeOK, CreateBranch, Put
  <2>2. CASE CommitToBranch(n)
    BY <2>2 DEF IndInv, TypeOK, CommitToBranch
  <2>3. CASE DeleteBranch(n)
    BY <2>3 DEF IndInv, TypeOK, DeleteBranch
  <2>. QED
    BY <2>1, <2>2, <2>3
<1>4. TypeOK'
  BY <1>1, <1>2, <1>3 DEF IndInv, TypeOK
<1>5. DueAfterFirst' /\ Pushing'
  BY <1>1 DEF IndInv, DueAfterFirst, Pushing, Bump
<1>6. BranchPoint'
  BY <1>1, <1>3 DEF IndInv, BranchPoint, Bump
<1>. QED
  BY <1>4, <1>5, <1>6 DEF IndInv

-----------------------------------------------------------------------------
(* Theorems.                                                               *)

LEMMA Initially == Init => IndInv
<1>. SUFFICES ASSUME Init PROVE IndInv
  OBVIOUS
<1>1. log \in Seq(Versions) /\ Len(log) = 1
  BY DEF Init
<1>2. DOMAIN branches = {}
  BY DEF Init
<1>3. Len(log) \in Commit
  BY <1>1, HandlerAssumption DEF Commit
<1>. QED
  BY <1>1, <1>2, <1>3, HandlerAssumption DEF Init, IndInv, TypeOK, DueAfterFirst, Pushing, BranchPoint

LEMMA Inductive == IndInv /\ [Next]_vars => IndInv'
<1>. SUFFICES ASSUME IndInv, [Next]_vars PROVE IndInv'
  OBVIOUS
<1>1. CASE \E c \in DOMAIN log : Prepare(c) \/ Skip(c) \/ Fail(c) \/ Rerun(c)
  BY <1>1, JobSteps
<1>2. CASE Push
  BY <1>2, PushStep
<1>3. CASE \E k \in 1 .. MaxPush : \E vs \in [1 .. k -> Versions] : PushToBase(vs)
  BY <1>3, PushToBaseStep
<1>4. CASE \E n \in Name : \/ \E c \in DOMAIN log : CreateBranch(n, c)
                           \/ CommitToBranch(n)
                           \/ DeleteBranch(n)
  BY <1>4, BranchSteps
<1>5. CASE UNCHANGED vars
  BY <1>5 DEF IndInv, TypeOK, DueAfterFirst, Pushing, BranchPoint, Bump, vars
<1>. QED
  BY <1>1, <1>2, <1>3, <1>4, <1>5 DEF Next, Run, People

\* The inductive invariant holds in every state.
THEOREM Invariance == Spec => []IndInv
BY Initially, Inductive, PTL DEF Spec

\* Types, whatever happens.
THEOREM TypeCorrect == Spec => []TypeOK
<1>1. IndInv => TypeOK
  BY DEF IndInv
<1>. QED
  BY <1>1, Invariance, PTL

\* Every branch of the handler starts at the last commit before a bump.
THEOREM BranchesStartBeforeBumps == Spec => []BranchPoint
<1>1. IndInv => BranchPoint
  BY DEF IndInv
<1>. QED
  BY <1>1, Invariance, PTL

\* A green run for a bump has made its branch or found one: classification and
\* the look at the branches leave no other way to end without an error.
LEMMA GreenStays ==
  ASSUME ~CheckoutFails, IndInv, GreenMeansBranched, [Next]_vars
  PROVE  GreenMeansBranched'
<1>. DEFINE branched(c) == Bump(c) => releaseBranchName(log[c - 1]) \in seen
<1>1. log \in Seq(Versions) /\ green \subseteq DOMAIN log /\ DOMAIN branches \subseteq seen
  BY DEF IndInv, TypeOK
<1>2. CASE /\ \A c \in DOMAIN log : c \in DOMAIN log' /\ log'[c] = log[c]
           /\ green' \subseteq DOMAIN log /\ seen \subseteq seen'
           /\ \A c \in green' \ green : branched(c)'
  <2>. SUFFICES ASSUME NEW c \in green, Bump(c)'
                PROVE  releaseBranchName(log'[c - 1]) \in seen'
    BY <1>2 DEF GreenMeansBranched
  <2>1. Bump(c)
    BY <1>1, <1>2, BumpStays
  <2>2. c - 1 \in DOMAIN log
    BY <1>1, <2>1 DEF Bump
  <2>. QED
    BY <1>2, <2>1, <2>2 DEF GreenMeansBranched
<1>3. CASE \E c \in DOMAIN log : Skip(c)
  <2>. PICK c \in DOMAIN log : Skip(c)
    BY <1>3
  <2>1. log' = log /\ seen' = seen /\ green' = green \cup {c}
    BY DEF Skip
  <2>2. Bump(c) => releaseBranchName(log[c - 1]) \in DOMAIN branches
    <3>. SUFFICES ASSUME Bump(c) PROVE releaseBranchName(log[c - 1]) \in DOMAIN branches
      OBVIOUS
    <3>1. c > 1 /\ log[c] # log[c - 1]
      <4>1. c > 1 /\ c - 1 \in DOMAIN log
        BY <1>1 DEF Bump
      <4>2. log[c].major \in Nat /\ log[c].minor \in Nat
        BY <1>1, LogOfVersions
      <4>. QED
        BY <4>1, <4>2 DEF Bump
    <3>2. change(c) = "prepareNewMajorMinorVersion"
      BY <1>1, <3>1, ClassifiedAsBump
    <3>. QED
      BY <3>1, <3>2 DEF Skip, isVersionFileUpdated, needsBranch
  <2>. QED
    BY <1>1, <1>2, <2>1, <2>2 DEF Bump
<1>4. CASE Push
  <2>1. log' = log /\ sha \in DOMAIN log
    BY <1>4 DEF Push, IndInv, TypeOK
  <2>2. /\ green' \subseteq green \cup {sha} /\ seen \subseteq seen'
        /\ sha \in green' \ green => releaseBranchName(log[sha - 1]) \in seen'
    BY <1>4 DEF Push, Put
  <2>. QED
    BY <1>1, <1>2, <2>1, <2>2 DEF Bump
<1>5. CASE \E k \in 1 .. MaxPush : \E vs \in [1 .. k -> Versions] : PushToBase(vs)
  <2>1. \A c \in DOMAIN log : c \in DOMAIN log' /\ log'[c] = log[c]
    BY <1>1, <1>5, LogGrows
  <2>2. green' = green /\ seen' = seen
    BY <1>5 DEF PushToBase
  <2>. QED
    BY <1>1, <1>2, <2>1, <2>2
<1>6. CASE \E c \in DOMAIN log : Prepare(c) \/ Fail(c) \/ Rerun(c)
  BY <1>1, <1>2, <1>6 DEF Prepare, Fail, Rerun, Event
<1>7. CASE \E n \in Name : \/ \E c \in DOMAIN log : CreateBranch(n, c)
                           \/ CommitToBranch(n)
                           \/ DeleteBranch(n)
  <2>1. log' = log /\ green' = green /\ seen \subseteq seen'
    BY <1>7 DEF CreateBranch, CommitToBranch, DeleteBranch, Event, Put
  <2>. QED
    BY <1>1, <1>2, <2>1
<1>8. CASE UNCHANGED vars
  BY <1>1, <1>2, <1>8 DEF vars
<1>. QED
  BY <1>3, <1>4, <1>5, <1>6, <1>7, <1>8 DEF Next, Run, People

\* If checking out the base commit does not fail, a green run for a bump means
\* that there has been a release branch.
THEOREM GreenRunsHaveBranches == ASSUME ~CheckoutFails PROVE Spec => []GreenMeansBranched
<1>1. Init => GreenMeansBranched
  BY DEF Init, GreenMeansBranched
<1>2. IndInv /\ GreenMeansBranched /\ [Next]_vars => GreenMeansBranched'
  BY GreenStays
<1>. QED
  BY <1>1, <1>2, Invariance, PTL DEF Spec

\* The handler takes no commit off a branch, neither one of its own nor one of
\* people.
THEOREM CommitsAreKept == Spec => KeepsCommits
<1>. DEFINE kept == events' = events =>
                      \A n \in DOMAIN branches :
                        /\ n \in DOMAIN branches'
                        /\ branches[n].own => branches'[n] = branches[n]
                        /\ branches'[n].at >= branches[n].at
<1>1. ASSUME IndInv, [Next]_vars PROVE [kept]_vars
  <2>1. events \in Nat
    BY <1>1, HandlerAssumption DEF IndInv, TypeOK
  <2>2. \A n \in DOMAIN branches : branches[n].at \in Nat
    BY <1>1 DEF IndInv, TypeOK
  <2>3. CASE branches' = branches
    BY <2>2, <2>3
  <2>4. CASE events' = events + 1
    BY <2>1, <2>4
  <2>5. CASE Push
    <3>. DEFINE m  == releaseBranchName(log[sha - 1])
                at == startingPoint(sha)
    <3>1. CASE /\ accepts(m, at)
               /\ Put(m, [at |-> at, own |-> FALSE, by |-> "handler"])
      <4>. SUFFICES ASSUME NEW n \in DOMAIN branches
                    PROVE  /\ n \in DOMAIN branches'
                           /\ branches[n].own => branches'[n] = branches[n]
                           /\ branches'[n].at >= branches[n].at
        OBVIOUS
      <4>1. CASE n = m
        <5>1. branches'[n] = [at |-> at, own |-> FALSE, by |-> "handler"] /\ n \in DOMAIN branches'
          BY <3>1, <4>1 DEF Put
        <5>2. ~branches[n].own /\ branches[n].at <= at
          BY <3>1, <4>1 DEF accepts
        <5>3. at \in Nat
          BY <1>1, <2>5 DEF Push, IndInv, TypeOK, Pushing, startingPoint
        <5>. HIDE DEF at
        <5>. QED
          BY <2>2, <5>1, <5>2, <5>3
      <4>2. CASE n # m
        BY <2>2, <3>1, <4>2 DEF Put
      <4>. QED
        BY <4>1, <4>2
    <3>. QED
      BY <2>3, <2>5, <3>1 DEF Push
  <2>6. \/ branches' = branches
        \/ events' = events + 1
        \/ Push
    BY <1>1 DEF Next, Run, People, Prepare, Skip, Fail, PushToBase, Rerun, CreateBranch,
                CommitToBranch, DeleteBranch, Event, vars
  <2>. QED
    BY <2>3, <2>4, <2>5, <2>6
<1>. QED
  BY <1>1, Invariance, PTL DEF Spec, KeepsCommits
=============================================================================
