----------------------------- MODULE JobForker -----------------------------
(***************************************************************************)
(* The job-forker of prow/cmd/job-forker, run again and again for one job  *)
(* directory, and PushChanges of prow/pkg/githubinteractor, by which it    *)
(* proposes what it did.  A run clones the directory, asks GitHub for the  *)
(* release branches of every repository that has jobs in it, writes a file *)
(* of forked jobs for each branch that has none, removes the files without *)
(* a branch and pushes the difference with force to the one branch of the  *)
(* bot's fork it always uses, opening a pull request unless it saw one.    *)
(* GitHub, git and whoever merges or closes the pull request are external. *)
(***************************************************************************)
EXTENDS Naturals, FiniteSets

CONSTANTS
  Repos,          \* repositories with jobs in the directory
  Forking,        \* those with a job to be forked per release
  Branches,       \* names of release branches
  Prefix,         \* <<r, s>> if the file names of s begin with the name of r
  MaxEvents,      \* bound: changes others make to branches and pull requests
  MaxFaults,      \* bound: calls that fail
  Unprotecting    \* TRUE iff protection may change between the two listings

ASSUME ForkerAssumption == /\ Forking \subseteq Repos
                           /\ Prefix \subseteq Repos \X Repos
                           /\ MaxEvents \in Nat
                           /\ MaxFaults \in Nat
                           /\ Unprotecting \in BOOLEAN

\* A forked job file stands for its repository and branch.
File == Repos \X Branches

VARIABLES
  branches,   \* the release branches there are, as <<repository, branch>>
  protected,  \* those that are protected
  master,     \* files in the output directory on the upstream branch
  pr,         \* the pull request: "none" open, "open", or "labeled"
  head,       \* what the branch in the fork changes: files added and removed
  pc,         \* the stage of the run, "idle" between runs
  base,       \* files in the clone when the run began
  work,       \* files in its working tree
  todo,       \* repositories still to handle
  cur,        \* the repository being handled, {} or a singleton
  listed,     \* its unprotected branches, as listed
  changed,    \* changes
  prExists,   \* prExists of PushChanges
  present,    \* history: branches there since the run began
  sometime,   \* history: branches there at some time of the run
  events, faults

github == <<branches, protected, master, pr, head>>
local  == <<base, work, todo, cur, listed, changed, prExists>>
past   == <<present, sometime>>
vars   == <<github, pc, local, past, events, faults>>

TypeOK ==
  /\ branches \subseteq File
  /\ protected \subseteq branches
  /\ master \subseteq File
  /\ pr \in {"none", "open", "labeled"}
  /\ head \in [add : SUBSET File, remove : SUBSET File]
  /\ head.add \cap head.remove = {}
  /\ pc \in {"idle", "repos", "half", "commit", "push", "open", "label"}
  /\ base \subseteq File
  /\ work \subseteq File
  /\ todo \subseteq Repos
  /\ cur \subseteq todo /\ Cardinality(cur) <= 1
  /\ listed \subseteq Branches
  /\ changed \in BOOLEAN
  /\ prExists \in BOOLEAN
  /\ present \subseteq sometime /\ sometime \subseteq File
  /\ events \in 0 .. MaxEvents
  /\ faults \in 0 .. MaxFaults

\* The variables of a process that does not run.
Reset == /\ pc' = "idle"
         /\ base' = {} /\ work' = {} /\ todo' = {} /\ cur' = {} /\ listed' = {}
         /\ changed' = FALSE /\ prExists' = FALSE
         /\ present' = {} /\ sometime' = {}

Init ==
  /\ branches \in SUBSET File
  /\ protected = {}
  /\ master \in SUBSET (Forking \X Branches)
  /\ pr = "none"
  /\ head = [add |-> {}, remove |-> {}]
  /\ pc = "idle"
  /\ base = {} /\ work = {} /\ todo = {} /\ cur = {} /\ listed = {}
  /\ changed = FALSE /\ prExists = FALSE
  /\ present = {} /\ sometime = {}
  /\ events = 0 /\ faults = 0

-----------------------------------------------------------------------------
(* generateForkedConfigurations.                                           *)

\* CloneRepo and Checkout of the upstream branch.
Clone == /\ pc = "idle"
         /\ pc' = "repos"
         /\ base' = master /\ work' = master
         /\ todo' = Repos
         /\ present' = branches /\ sometime' = branches
         /\ UNCHANGED <<github, cur, listed, changed, prExists, events, faults>>

\* getReposFromJobFiles ranges over a map: the repositories come in any order.
ListUnprotected ==
  /\ pc = "repos"
  /\ \E r \in todo :
       /\ cur' = {r}
       /\ listed' = {b \in Branches : <<r, b>> \in branches \ protected}
  /\ pc' = "half"
  /\ UNCHANGED <<github, base, work, todo, changed, prExists, past, events, faults>>

\* forkJobs: a file for every branch that has none, if a job is annotated.
forkJobs(r, found) == IF r \in Forking THEN {r} \X found ELSE {}

\* Mutant of belongs: every file is taken for one of this repository.
belongsAny(r, file) == r \in Repos /\ file \in File

\* removeOrphanedJobs takes a file for one of r by the beginning of its name.
belongs(r, file) == file[1] = r \/ <<r, file[1]>> \in Prefix

orphaned(r, found, files) ==
  {f \in files : belongs(r, f) /\ f \notin {r} \X found}

\* Mutant of ForkAndClean: the protected branches are not listed.
ForkAndCleanHalf ==
  /\ pc = "half"
  /\ \E r \in cur :
       LET files == work \cup forkJobs(r, listed)
       IN  /\ work' = files \ orphaned(r, listed, files)
           /\ changed' = (changed \/ files # work \/ work' # files)
           /\ todo' = todo \ {r}
  /\ cur' = {} /\ listed' = {}
  /\ pc' = "repos"
  /\ UNCHANGED <<github, base, prExists, past, events, faults>>

\* The second listing, then forkJobs and removeOrphanedJobs for this repository.
ForkAndClean ==
  /\ pc = "half"
  /\ \E r \in cur :
       LET found == listed \cup {b \in Branches : <<r, b>> \in protected}
           files == work \cup forkJobs(r, found)
       IN  /\ work' = files \ orphaned(r, found, files)
           /\ changed' = (changed \/ files # work \/ work' # files)
           /\ todo' = todo \ {r}
  /\ cur' = {} /\ listed' = {}
  /\ pc' = "repos"
  /\ UNCHANGED <<github, base, prExists, past, events, faults>>

\* Without changes the run ends here, and leaves an open pull request alone.
Generated ==
  /\ pc = "repos"
  /\ todo = {}
  /\ UNCHANGED <<github, events, faults>>
  /\ \/ ~changed /\ Reset
     \/ changed /\ pc' = "commit" /\ UNCHANGED <<local, past>>

-----------------------------------------------------------------------------
(* PushChanges.                                                            *)

\* git commit, which fails when there is nothing to commit, and then the
\* search for an open pull request from this branch.
Commit ==
  /\ pc = "commit"
  /\ IF work = base
       THEN Reset
       ELSE /\ prExists' = (pr # "none")
            /\ pc' = "push"
            /\ UNCHANGED <<base, work, todo, cur, listed, changed, past>>
  /\ UNCHANGED <<github, events, faults>>

\* Mutant of Push: without force, the commit comes on top of the older ones.
PushOnTop ==
  /\ pc = "push"
  /\ head' = [add |-> head.add \cup (work \ base), remove |-> head.remove \cup (base \ work)]
  /\ pc' = IF prExists THEN "label" ELSE "open"
  /\ UNCHANGED <<branches, protected, master, pr, local, past, events, faults>>

\* The branch of the fork is replaced, whatever pull request it belongs to.
Push ==
  /\ pc = "push"
  /\ head' = [add |-> work \ base, remove |-> base \ work]
  /\ pc' = IF prExists THEN "label" ELSE "open"
  /\ UNCHANGED <<branches, protected, master, pr, local, past, events, faults>>

Open ==
  /\ pc = "open"
  /\ pr = "none"
  /\ pr' = "open"
  /\ pc' = "label"
  /\ UNCHANGED <<branches, protected, master, head, local, past, events, faults>>

\* Mutant of AddLabels: only a pull request this run has opened is labeled.
AddLabelsNew ==
  /\ pc = "label"
  /\ pr' = IF pr = "none" \/ prExists THEN pr ELSE "labeled"
  /\ Reset
  /\ UNCHANGED <<branches, protected, master, head, events, faults>>

\* The labels let Tide merge the pull request.  The one found before the push
\* may have been merged or closed since, and then they change nothing.
AddLabels ==
  /\ pc = "label"
  /\ pr' = IF pr = "none" THEN "none" ELSE "labeled"
  /\ Reset
  /\ UNCHANGED <<branches, protected, master, head, events, faults>>

\* A call fails and the process exits; the next run is the retry.  The call
\* that creates the pull request may have been applied.
Fail ==
  /\ faults < MaxFaults
  /\ faults' = faults + 1
  /\ \/ pc # "idle" /\ UNCHANGED github
     \/ pc = "open" /\ pr' = "open" /\ UNCHANGED <<branches, protected, master, head>>
  /\ Reset
  /\ UNCHANGED events

-----------------------------------------------------------------------------
(* The others.                                                             *)

Event == /\ events < MaxEvents
         /\ events' = events + 1
         /\ UNCHANGED <<pc, local, faults>>

CreateBranch(f) ==
  /\ Event
  /\ f \notin branches
  /\ branches' = branches \cup {f}
  /\ sometime' = IF pc = "idle" THEN {} ELSE sometime \cup {f}
  /\ UNCHANGED <<protected, master, pr, head, present>>

DeleteBranch(f) ==
  /\ Event
  /\ f \in branches \ protected
  /\ branches' = branches \ {f}
  /\ present' = present \ {f}
  /\ UNCHANGED <<protected, master, pr, head, sometime>>

\* A branch is protected or unprotected.
SetProtection(f) ==
  /\ pc = "half" => Unprotecting
  /\ Event
  /\ f \in branches
  /\ protected' = IF f \in protected THEN protected \ {f} ELSE protected \cup {f}
  /\ UNCHANGED <<branches, master, pr, head, past>>

ClosePR ==
  /\ Event
  /\ pr # "none"
  /\ pr' = "none"
  /\ UNCHANGED <<branches, protected, master, head, past>>

\* Tide merges what the branch of the fork holds by now.
Merge ==
  /\ pr = "labeled"
  /\ pr' = "none"
  /\ master' = (master \cup head.add) \ head.remove
  /\ UNCHANGED <<branches, protected, head, pc, local, past, events, faults>>

-----------------------------------------------------------------------------

Run == \/ Clone
       \/ ListUnprotected
       \/ ForkAndClean
       \/ Generated
       \/ Commit
       \/ Push
       \/ Open
       \/ AddLabels

Others == \/ \E f \in File : CreateBranch(f) \/ DeleteBranch(f) \/ SetProtection(f)
          \/ ClosePR
          \/ Merge

Next == Run \/ Fail \/ Others

Spec == Init /\ [][Next]_vars

\* The job is periodic, a run goes on to its end, and Tide merges.
Fairness == WF_vars(Run) /\ WF_vars(Merge)

FairSpec == Spec /\ Fairness

-----------------------------------------------------------------------------
(* Properties.                                                             *)

\* A run that gets as far as to commit has a file for every branch that was
\* there all the time and of which jobs are forked, and none for a branch
\* that was never there, in whatever order it took the repositories.
RunComplete ==
  pc = "commit" => /\ present \cap (Forking \X Branches) \subseteq work
                   /\ work \subseteq sometime

\* "Deleting ..., because its branch in repository ... does not exist
\* anymore": no run proposes to remove the file of a branch that was there
\* all the time.
OrphansOnly == pc = "push" => present \cap base \subseteq work

\* A run that found changes has something to commit.
SomethingToCommit == pc = "commit" => work # base

\* When branches come and go no longer, nobody closes the pull request and
\* calls stop failing, the directory ends up with exactly the files of the
\* branches there are, whatever was pushed, lost, mislabeled or overwritten.
Converges == <>[](master = branches \cap (Forking \X Branches))
=============================================================================
