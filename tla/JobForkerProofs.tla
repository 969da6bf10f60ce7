-------------------------- MODULE JobForkerProofs --------------------------
(***************************************************************************)
(* What a run of the job-forker proposes, for any repositories and release *)
(* branches, however many runs fail or overlap with changes by others, and *)
(* what it needs for that: that no repository is named by the beginning of *)
(* another's name, and protections that stay while a listing runs.         *)
(***************************************************************************)
EXTENDS JobForker, FiniteSetTheorems, TLAPS

\* No repository takes the files of another for its own.
WholeNames == \A r, s \in Repos : <<r, s>> \in Prefix => r = s

\* Files are generated for repositories with jobs to fork only.
Forked == /\ master \subseteq Forking \X Branches
          /\ base \subseteq Forking \X Branches
          /\ work \subseteq Forking \X Branches
          /\ head.add \subseteq Forking \X Branches

\* A repository is being handled between its two listings only.
Handling == /\ pc = "half" => \E r \in todo : cur = {r}
            /\ pc # "half" => cur = {}
            /\ pc \in {"commit", "push"} => todo = {}

\* Nothing is left of a run that is over.
AtRest == pc = "idle" => present = {} /\ ~changed

\* The history of a run is about the branches there are.
Seen == /\ present \subseteq branches
        /\ pc # "idle" => branches \subseteq sometime

\* Of the repository being handled no branch that was there all the time can
\* be missing in both listings.
Listed ==
  pc = "half" =>
    /\ cur \X listed \subseteq sometime
    /\ ~Unprotecting =>
         \A f \in present : f[1] \in cur => f[2] \in listed \/ f \in protected

\* The files of the repositories that are done are those of their branches.
Done ==
  pc \in {"repos", "half", "commit", "push"} =>
    /\ \A f \in work : f[1] \in todo \/ f \in sometime
    /\ WholeNames /\ ~Unprotecting =>
         \A f \in present : f[1] \in Forking \ todo => f \in work

\* The files of the others are those of the clone, and changes can be seen.
Changes ==
  WholeNames /\ pc \in {"repos", "half", "commit"} =>
    /\ \A f \in File : f[1] \in todo => (f \in work <=> f \in base)
    /\ changed => \E f \in File : f[1] \notin todo /\ ~(f \in work <=> f \in base)

IndInv == /\ TypeOK
          /\ Forked
          /\ Handling
          /\ AtRest
          /\ Seen
          /\ Listed
          /\ Done
          /\ Changes
          /\ (pc = "commit" => changed)

-----------------------------------------------------------------------------
(* Steps of a run.                                                         *)

\* A set of one or no repository has at most one element.
LEMMA AtMostOne ==
  /\ Cardinality({}) <= 1
  /\ \A r : Cardinality({r}) <= 1
<1>. QED
  BY FS_EmptySet, FS_Singleton

\* The end of a run, whatever of it GitHub has seen by then.
LEMMA ResetStep ==
  ASSUME IndInv, Reset,
         UNCHANGED <<branches, protected, master>>,
         pr' \in {"none", "open", "labeled"}, UNCHANGED head,
         events' \in 0 .. MaxEvents, faults' \in 0 .. MaxFaults
  PROVE  IndInv'
<1>. USE DEF IndInv, Reset
<1>1. TypeOK'
  BY AtMostOne DEF TypeOK
<1>2. Forked' /\ Handling' /\ AtRest' /\ Seen' /\ Listed' /\ Done' /\ Changes'
  BY DEF Forked, Handling, AtRest, Seen, Listed, Done, Changes
<1>. QED
  BY <1>1, <1>2

\* A run begins with the files upstream and the branches there are.
LEMMA CloneStep ==
  ASSUME IndInv, Clone
  PROVE  IndInv'
<1>. USE DEF IndInv, Clone, github
<1>1. cur = {} /\ cur' = {}
  BY DEF Handling
<1>2. TypeOK'
  BY <1>1, AtMostOne DEF TypeOK
<1>3. Forked' /\ Handling' /\ AtRest' /\ Seen' /\ Listed'
  BY <1>1 DEF Forked, Handling, AtRest, Seen, Listed
<1>4. Done'
  BY DEF Done, TypeOK, File
<1>5. Changes'
  <2>1. ~changed'
    BY DEF AtRest
  <2>. QED
    BY <2>1 DEF Changes
<1>. QED
  BY <1>2, <1>3, <1>4, <1>5

\* The branches listed first are there at the time.
LEMMA ListUnprotectedStep ==
  ASSUME IndInv, ListUnprotected
  PROVE  IndInv'
<1>. USE DEF IndInv, ListUnprotected, github, past
<1>. PICK r \in todo : cur' = {r} /\ listed' = {b \in Branches : <<r, b>> \in branches \ protected}
  OBVIOUS
<1>1. TypeOK'
  BY AtMostOne DEF TypeOK
<1>2. Forked' /\ Handling' /\ AtRest' /\ Seen'
  BY DEF Forked, Handling, AtRest, Seen
<1>3. Listed'
  BY DEF Listed, Seen, TypeOK, File
<1>4. Done' /\ Changes'
  BY DEF Done, Changes
<1>. QED
  BY <1>1, <1>2, <1>3, <1>4

\* Forking and cleaning for one repository leaves it the files of the branches
\* that were found, and with whole names touches no other repository.
LEMMA ForkAndCleanStep ==
  ASSUME IndInv, ForkAndClean
  PROVE  IndInv'
<1>. USE DEF IndInv, ForkAndClean, github, past
<1>. PICK r \in todo : cur = {r}
  BY DEF Handling
<1>. DEFINE found == listed \cup {b \in Branches : <<r, b>> \in protected}
            files == work \cup forkJobs(r, found)
<1>1. /\ work' = files \ orphaned(r, found, files)
      /\ changed' = (changed \/ files # work \/ work' # files)
      /\ todo' = todo \ {r}
      /\ r \in Repos
  BY DEF TypeOK
<1>2. found \subseteq Branches /\ {r} \X found \subseteq sometime
  BY DEF TypeOK, Listed, Seen, Handling
<1>3. files \subseteq Forking \X Branches /\ files \subseteq File
  BY <1>2, ForkerAssumption DEF Forked, TypeOK, forkJobs, File
<1>4. \A f \in File : f[1] = r => (f \in work' <=> f \in files /\ f \in {r} \X found)
  <2>. HIDE DEF found, files
  <2>. QED
    BY <1>1 DEF orphaned, belongs
<1>5. WholeNames => \A f \in File : f[1] # r => (f \in work' <=> f \in work)
  <2>. SUFFICES ASSUME WholeNames, NEW f \in File, f[1] # r
                PROVE  f \in work' <=> f \in work
    OBVIOUS
  <2>1. f[1] \in Repos /\ ~belongs(r, f)
    BY <1>1 DEF belongs, WholeNames, File
  <2>2. f \in files <=> f \in work
    BY DEF forkJobs
  <2>. HIDE DEF found, files
  <2>. QED
    BY <1>1, <2>1, <2>2 DEF orphaned
<1>6. work' \subseteq files
  BY <1>1
<1>7. TypeOK'
  <2>1. work' \subseteq File /\ changed' \in BOOLEAN /\ todo' \subseteq Repos
    BY <1>1, <1>3, <1>6 DEF TypeOK
  <2>. QED
    BY <2>1, AtMostOne DEF TypeOK
<1>8. Forked' /\ Handling' /\ AtRest' /\ Seen' /\ Listed'
  BY <1>3, <1>6 DEF Forked, Handling, AtRest, Seen, Listed
<1>9. Done'
  <2>1. ASSUME NEW f \in work' PROVE f[1] \in todo' \/ f \in sometime
    <3>1. f \in File
      BY <1>3, <1>6, <2>1
    <3>2. CASE f[1] = r
      BY <1>2, <1>4, <2>1, <3>1, <3>2
    <3>3. CASE f[1] # r
      <4>1. f \in work
        BY <1>6, <2>1, <3>3 DEF forkJobs
      <4>. QED
        BY <1>1, <3>3, <4>1 DEF Done
    <3>. QED
      BY <3>2, <3>3
  <2>2. ASSUME WholeNames, ~Unprotecting, NEW f \in present, f[1] \in Forking \ todo'
        PROVE  f \in work'
    <3>1. f \in File
      BY DEF TypeOK
    <3>2. CASE f[1] = r
      <4>1. f[2] \in found /\ f \in {r} \X found
        BY <2>2, <3>1, <3>2 DEF Listed, File
      <4>2. f \in files
        BY <2>2, <3>2, <4>1 DEF forkJobs
      <4>. QED
        BY <1>4, <3>1, <3>2, <4>1, <4>2
    <3>3. CASE f[1] # r
      BY <1>1, <1>5, <2>2, <3>1, <3>3 DEF Done
    <3>. QED
      BY <3>2, <3>3
  <2>. HIDE DEF found, files
  <2>. QED
    BY <2>1, <2>2 DEF Done
<1>10. Changes'
  <2>. SUFFICES ASSUME WholeNames PROVE Changes'
    BY DEF Changes
  <2>1. \A f \in File : f[1] \in todo' => (f \in work' <=> f \in base)
    BY <1>1, <1>5 DEF Changes
  <2>2. CASE changed
    <3>1. PICK f \in File : f[1] \notin todo /\ ~(f \in work <=> f \in base)
      BY <2>2 DEF Changes
    <3>2. f[1] # r /\ f[1] \notin todo'
      BY <1>1, <3>1
    <3>. QED
      BY <1>5, <2>1, <3>1, <3>2 DEF Changes
  <2>3. CASE files # work
    <3>1. PICK f \in files : f \notin work
      BY <2>3
    <3>2. f \in File /\ f[1] = r /\ f \in {r} \X found
      BY <1>3, <3>1 DEF forkJobs
    <3>3. f \in work' /\ f \notin base
      BY <1>4, <3>1, <3>2 DEF Changes
    <3>. QED
      BY <1>1, <2>1, <3>2, <3>3 DEF Changes
  <2>4. CASE files = work /\ work' # files
    <3>1. PICK f \in work : f \notin work'
      BY <1>6, <2>4
    <3>2. f \in File /\ f[1] = r
      BY <1>5, <3>1 DEF TypeOK
    <3>3. f \in base
      BY <3>1, <3>2 DEF Changes
    <3>. QED
      BY <1>1, <2>1, <3>1, <3>2, <3>3 DEF Changes
  <2>5. changed' => changed \/ files # work \/ work' # files
    BY <1>1
  <2>6. CASE ~changed'
    BY <2>1, <2>6 DEF Changes
  <2>. HIDE DEF found, files
  <2>. QED
    BY <2>2, <2>3, <2>4, <2>5, <2>6
<1>. QED
  BY <1>7, <1>8, <1>9, <1>10

\* A run with changes goes on to commit them.
LEMMA GeneratedStep ==
  ASSUME IndInv, Generated
  PROVE  IndInv'
<1>1. CASE Reset
  BY <1>1, ResetStep DEF Generated, github, IndInv, TypeOK
<1>2. CASE changed /\ pc' = "commit" /\ UNCHANGED <<local, past>>
  <2>. USE <1>2 DEF IndInv, Generated, github, local, past
  <2>1. TypeOK'
    BY DEF TypeOK
  <2>2. Forked' /\ Handling' /\ AtRest' /\ Seen' /\ Listed'
    BY DEF Forked, Handling, AtRest, Seen, Listed
  <2>3. Done' /\ Changes'
    BY DEF Done, Changes
  <2>. QED
    BY <2>1, <2>2, <2>3
<1>. QED
  BY <1>1, <1>2 DEF Generated

\* A commit changes nothing that is pushed.
LEMMA CommitStep ==
  ASSUME IndInv, Commit
  PROVE  IndInv'
<1>1. CASE Reset
  BY <1>1, ResetStep DEF Commit, github, IndInv, TypeOK
<1>2. CASE /\ prExists' = (pr # "none")
           /\ pc' = "push"
           /\ UNCHANGED <<base, work, todo, cur, listed, changed, past>>
  <2>. USE <1>2 DEF IndInv, Commit, github, past
  <2>1. TypeOK'
    BY DEF TypeOK
  <2>2. Forked' /\ Handling' /\ AtRest' /\ Seen' /\ Listed'
    BY DEF Forked, Handling, AtRest, Seen, Listed
  <2>3. Done' /\ Changes'
    BY DEF Done, Changes
  <2>. QED
    BY <2>1, <2>2, <2>3
<1>. QED
  BY <1>1, <1>2 DEF Commit

\* The branch pushed adds files of forked jobs only.
LEMMA PushStep ==
  ASSUME IndInv, Push
  PROVE  IndInv'
<1>. USE DEF IndInv, Push, local, past
<1>1. /\ head'.add = work \ base /\ head'.remove = base \ work
      /\ pc' \in {"label", "open"}
  OBVIOUS
<1>2. head' \in [add : SUBSET File, remove : SUBSET File]
  BY DEF TypeOK
<1>3. TypeOK'
  BY <1>1, <1>2 DEF TypeOK
<1>4. Forked' /\ Handling' /\ AtRest' /\ Seen' /\ Listed' /\ Done' /\ Changes'
  BY <1>1 DEF Forked, Handling, AtRest, Seen, Listed, Done, Changes
<1>. QED
  BY <1>1, <1>3, <1>4

\* The pull request is opened after everything the invariant is about.
LEMMA OpenStep ==
  ASSUME IndInv, Open
  PROVE  IndInv'
<1>. USE DEF IndInv, Open, local, past
<1>1. TypeOK'
  BY DEF TypeOK
<1>2. Forked' /\ Handling' /\ AtRest' /\ Seen' /\ Listed' /\ Done' /\ Changes'
  BY DEF Forked, Handling, AtRest, Seen, Listed, Done, Changes
<1>. QED
  BY <1>1, <1>2

\* A run ends with its labels, or with a call that fails.
LEMMA EndStep ==
  ASSUME IndInv, AddLabels \/ Fail
  PROVE  IndInv'
<1>1. Reset /\ UNCHANGED <<branches, protected, master, head>>
  BY DEF AddLabels, Fail, github
<1>2. pr' \in {"none", "open", "labeled"}
  BY DEF AddLabels, Fail, github, IndInv, TypeOK
<1>3. events' \in 0 .. MaxEvents /\ faults' \in 0 .. MaxFaults
  BY ForkerAssumption DEF AddLabels, Fail, IndInv, TypeOK
<1>. QED
  BY <1>1, <1>2, <1>3, ResetStep

-----------------------------------------------------------------------------
(* Steps of others.                                                        *)

\* A new branch is there at some time of the run.
LEMMA CreateBranchStep ==
  ASSUME IndInv, NEW f \in File, CreateBranch(f)
  PROVE  IndInv'
<1>. USE DEF IndInv, CreateBranch, Event, local
<1>1. events' \in 0 .. MaxEvents
  BY ForkerAssumption DEF TypeOK
<1>2. TypeOK'
  <2>1. present \subseteq sometime'
    BY DEF TypeOK, AtRest
  <2>. QED
    BY <1>1, <2>1 DEF TypeOK
<1>3. Forked' /\ Handling' /\ AtRest' /\ Seen' /\ Listed' /\ Done' /\ Changes'
  BY DEF Forked, Handling, AtRest, Seen, Listed, Done, Changes
<1>. QED
  BY <1>2, <1>3

\* A deleted branch is no longer one that was there all the time.
LEMMA DeleteBranchStep ==
  ASSUME IndInv, NEW f \in File, DeleteBranch(f)
  PROVE  IndInv'
<1>. USE DEF IndInv, DeleteBranch, Event, local
<1>1. events' \in 0 .. MaxEvents
  BY ForkerAssumption DEF TypeOK
<1>2. TypeOK'
  BY <1>1 DEF TypeOK
<1>3. Forked' /\ Handling' /\ AtRest' /\ Seen' /\ Listed' /\ Done' /\ Changes'
  BY DEF Forked, Handling, AtRest, Seen, Listed, Done, Changes
<1>. QED
  BY <1>2, <1>3

\* A protection that changes between the two listings may hide a branch.
LEMMA SetProtectionStep ==
  ASSUME IndInv, NEW f \in File, SetProtection(f)
  PROVE  IndInv'
<1>. USE DEF IndInv, SetProtection, Event, local, past
<1>1. events' \in 0 .. MaxEvents
  BY ForkerAssumption DEF TypeOK
<1>2. protected' \subseteq branches
  BY DEF TypeOK
<1>3. TypeOK'
  BY <1>1, <1>2 DEF TypeOK
<1>4. Forked' /\ Handling' /\ AtRest' /\ Seen' /\ Done' /\ Changes'
  BY DEF Forked, Handling, AtRest, Seen, Done, Changes
<1>5. Listed'
  BY ForkerAssumption DEF Listed
<1>. QED
  BY <1>3, <1>4, <1>5

\* What happens to the pull request concerns a run that has cloned no more.
LEMMA PullRequestStep ==
  ASSUME IndInv, ClosePR \/ Merge
  PROVE  IndInv'
<1>. USE DEF IndInv
<1>1. UNCHANGED <<branches, protected, head, pc, local, past, faults>>
  BY DEF ClosePR, Merge, Event
<1>2. /\ pr' = "none"
      /\ master' \in {master, (master \cup head.add) \ head.remove}
      /\ events' \in 0 .. MaxEvents
  BY ForkerAssumption DEF ClosePR, Merge, Event, TypeOK
<1>3. master' \subseteq File
  BY <1>2 DEF TypeOK
<1>4. TypeOK'
  BY <1>1, <1>2, <1>3 DEF TypeOK, local, past
<1>5. Forked' /\ Handling' /\ AtRest' /\ Seen' /\ Listed' /\ Done' /\ Changes'
  BY <1>1, <1>2 DEF Forked, Handling, AtRest, Seen, Listed, Done, Changes, local, past
<1>. QED
  BY <1>1, <1>4, <1>5 DEF local

-----------------------------------------------------------------------------
(* The invariant.                                                          *)

\* At first no run goes on and the directory holds forked jobs only.
LEMMA Initially == Init => IndInv
<1>. SUFFICES ASSUME Init PROVE IndInv
  OBVIOUS
<1>1. TypeOK
  <2>1. /\ head \in [add : SUBSET File, remove : SUBSET File]
        /\ head.add \cap head.remove = {}
    BY DEF Init
  <2>2. master \subseteq File
    BY ForkerAssumption DEF Init, File
  <2>3. cur \subseteq todo /\ Cardinality(cur) <= 1
    BY AtMostOne DEF Init
  <2>4. branches \subseteq File /\ protected \subseteq branches
    BY DEF Init
  <2>5. /\ base \subseteq File /\ work \subseteq File /\ todo \subseteq Repos
        /\ listed \subseteq Branches
        /\ present \subseteq sometime /\ sometime \subseteq File
    BY DEF Init
  <2>6. events \in 0 .. MaxEvents /\ faults \in 0 .. MaxFaults
    BY ForkerAssumption DEF Init
  <2>7. /\ pr \in {"none", "open", "labeled"} /\ pc = "idle"
        /\ changed \in BOOLEAN /\ prExists \in BOOLEAN
    BY DEF Init
  <2>. QED
    BY <2>1, <2>2, <2>3, <2>4, <2>5, <2>6, <2>7 DEF TypeOK
<1>2. Forked /\ Handling /\ AtRest /\ Seen /\ Listed /\ Done /\ Changes
  BY DEF Init, Forked, Handling, AtRest, Seen, Listed, Done, Changes
<1>. QED
  BY <1>1, <1>2 DEF Init, IndInv

\* A step that changes nothing keeps the invariant.
LEMMA StutterStep ==
  ASSUME IndInv, UNCHANGED vars
  PROVE  IndInv'
<1>. USE DEF IndInv, vars, github, local, past
<1>1. TypeOK'
  BY DEF TypeOK
<1>2. Forked' /\ Handling' /\ AtRest' /\ Seen' /\ Listed' /\ Done' /\ Changes'
  BY DEF Forked, Handling, AtRest, Seen, Listed, Done, Changes
<1>. QED
  BY <1>1, <1>2

\* Every step, of a run or of others, keeps it.
LEMMA Inductive == IndInv /\ [Next]_vars => IndInv'
<1>. SUFFICES ASSUME IndInv, [Next]_vars PROVE IndInv'
  OBVIOUS
<1>1. CASE Run
  BY <1>1, CloneStep, ListUnprotectedStep, ForkAndCleanStep, GeneratedStep,
     CommitStep, PushStep, OpenStep, EndStep DEF Run
<1>2. CASE Others
  BY <1>2, CreateBranchStep, DeleteBranchStep, SetProtectionStep,
     PullRequestStep DEF Others
<1>. QED
  BY <1>1, <1>2, EndStep, StutterStep DEF Next

\* What the theorems below rest on holds in every run.
THEOREM Invariance == Spec => []IndInv
<1>. QED
  BY Initially, Inductive, PTL DEF Spec

-----------------------------------------------------------------------------
(* What follows.                                                           *)

\* The state of the forker keeps its form through any number of runs.
THEOREM TypeCorrect == Spec => []TypeOK
<1>1. IndInv => TypeOK
  BY DEF IndInv
<1>. QED
  BY <1>1, Invariance, PTL

\* removeOrphanedJobs: what a run commits has no file for a branch that was not
\* there at any time of it, whatever the repositories are named.
THEOREM NoOrphansLeft == Spec => [](pc = "commit" => work \subseteq sometime)
<1>1. IndInv => (pc = "commit" => work \subseteq sometime)
  BY DEF IndInv, Done, Handling
<1>. QED
  BY <1>1, Invariance, PTL

\* forkJobs and removeOrphanedJobs, each repository after the other in any
\* order, add up to a file for every branch that was there all the time.
THEOREM RunsComplete ==
  ASSUME WholeNames, ~Unprotecting
  PROVE  Spec => []RunComplete
<1>1. ASSUME IndInv, pc = "commit", NEW f \in present \cap (Forking \X Branches)
      PROVE  f \in work
  BY <1>1 DEF IndInv, Done, Handling
<1>2. IndInv => RunComplete
  BY <1>1 DEF RunComplete, IndInv, Done, Handling
<1>. QED
  BY <1>2, Invariance, PTL

\* The same for the files that are there already: none is removed although its
\* branch exists.
THEOREM OrphansOnlyRemoved ==
  ASSUME WholeNames, ~Unprotecting
  PROVE  Spec => []OrphansOnly
<1>1. ASSUME IndInv, pc = "push", NEW f \in present \cap base
      PROVE  f \in work
  <2>1. f[1] \in Forking
    BY <1>1 DEF IndInv, Forked
  <2>. QED
    BY <1>1, <2>1 DEF IndInv, Done, Handling
<1>2. IndInv => OrphansOnly
  BY <1>1 DEF OrphansOnly
<1>. QED
  BY <1>2, Invariance, PTL

\* Changes are counted while files are written and removed; what a run counted
\* is never undone by the handling of another repository, so that the commit
\* does not fail for want of a difference.
THEOREM ChangesAreCommitted ==
  ASSUME WholeNames
  PROVE  Spec => []SomethingToCommit
<1>1. IndInv => SomethingToCommit
  BY DEF IndInv, Changes, SomethingToCommit
<1>. QED
  BY <1>1, Invariance, PTL
=============================================================================
