--------------------------- MODULE ReleaseHandler ---------------------------
(***************************************************************************)
(* prow/cmd/release-handler, a postsubmit job for pushes that change the   *)
(* file VERSION of the base branch.  A run compares the version of the     *)
(* commit it was triggered for with the one before, and when development   *)
(* of a new minor or major version begins, it creates the release branch   *)
(* of the previous one.  Runs do not overlap (max_concurrency), but they   *)
(* come late, fail and are repeated, and people push and work on release   *)
(* branches meanwhile.  git and GitHub are external.                       *)
(***************************************************************************)
EXTENDS Naturals, FiniteSets, Sequences

CONSTANTS
  Versions,        \* versions people write into the file
  MaxCommits,      \* bound: commits on the base branch
  MaxPush,         \* bound: commits of one push
  MaxEvents,       \* bound: what people do besides pushing to the base branch
  CheckoutFails    \* TRUE iff checking out the base commit may fail

Version == [major : Nat, minor : Nat, patch : Nat, dev : BOOLEAN]

ASSUME HandlerAssumption == /\ Versions \subseteq Version
                            /\ MaxCommits \in Nat \ {0} /\ MaxPush \in Nat /\ MaxEvents \in Nat
                            /\ CheckoutFails \in BOOLEAN

-----------------------------------------------------------------------------
(* Versions.                                                               *)

\* Compare: a version under development comes before its release.
newer(v, w) ==
  \/ v.major > w.major
  \/ v.major = w.major /\ v.minor > w.minor
  \/ v.major = w.major /\ v.minor = w.minor /\ v.patch > w.patch
  \/ v.major = w.major /\ v.minor = w.minor /\ v.patch = w.patch /\ ~v.dev /\ w.dev

\* Mutant of classifyVersionChange: patches are looked at first.
classifyPatchFirst(current, previous) ==
  IF ~newer(current, previous) THEN "error"
  ELSE IF ~current.dev THEN "newRelease"
  ELSE IF ~previous.dev THEN "nextDevCycle"
  ELSE IF current.patch > previous.patch
         THEN "prepareNewPatchVersion"
         ELSE "prepareNewMajorMinorVersion"

\* All development versions have one suffix, so that two of them differ in a
\* number if at all.
classifyVersionChange(current, previous) ==
  IF ~newer(current, previous) THEN "error"
  ELSE IF ~current.dev THEN "newRelease"
  ELSE IF ~previous.dev THEN "nextDevCycle"
  ELSE IF current.major > previous.major \/ current.minor > previous.minor
         THEN "prepareNewMajorMinorVersion"
         ELSE "prepareNewPatchVersion"

\* <prefix>v<major>.<minor>
releaseBranchName(v) == <<v.major, v.minor>>

Name == {releaseBranchName(v) : v \in Versions}

-----------------------------------------------------------------------------

VARIABLES
  log,       \* the version each commit of the base branch has
  branches,  \* release branches by name: where they left the base branch,
             \* whether they have commits of their own, and who made them
  due,       \* commits a job has been triggered for
  pc,        \* "idle", or "push" with a branch created locally
  sha,       \* baseSHA of the run, or 0
  green,     \* history: commits with a successful run
  seen,      \* history: release branches there were at some time
  events

vars == <<log, branches, due, pc, sha, green, seen, events>>

Commit == 1 .. MaxCommits

TypeOK ==
  /\ log \in Seq(Versions) /\ Len(log) \in Commit
  /\ DOMAIN branches \subseteq Name
  /\ \A n \in DOMAIN branches :
       branches[n] \in [at : DOMAIN log, own : BOOLEAN, by : {"handler", "people"}]
  /\ due \subseteq DOMAIN log
  /\ pc \in {"idle", "push"}
  /\ sha \in {0} \cup DOMAIN log
  /\ pc = "push" <=> sha # 0
  /\ green \subseteq DOMAIN log
  /\ DOMAIN branches \subseteq seen /\ seen \subseteq Name
  /\ events \in 0 .. MaxEvents

Init ==
  /\ \E v \in Versions : log = <<v>>
  /\ branches = [n \in {} |-> 0]
  /\ due = {}
  /\ pc = "idle" /\ sha = 0
  /\ green = {} /\ seen = {} /\ events = 0

-----------------------------------------------------------------------------
(* A run.                                                                  *)

\* isVersionFileUpdated looks at the last commit of the push only.
isVersionFileUpdated(c) == log[c] # log[c - 1]

change(c) == classifyVersionChange(log[c], log[c - 1])

\* A new minor or major version whose predecessor has no release branch, as
\* far as the clone knows.
needsBranch(c) ==
  /\ isVersionFileUpdated(c)
  /\ change(c) = "prepareNewMajorMinorVersion"
  /\ releaseBranchName(log[c - 1]) \notin DOMAIN branches

\* The run goes as far as creating the branch in its clone.
Prepare(c) ==
  /\ pc = "idle" /\ c \in due
  /\ needsBranch(c)
  /\ pc' = "push" /\ sha' = c
  /\ due' = due \ {c}
  /\ UNCHANGED <<log, branches, green, seen, events>>

\* It ends before: there is nothing to do, or the base commit could not be
\* checked out, which is no error.
Skip(c) ==
  /\ pc = "idle" /\ c \in due
  /\ \/ ~isVersionFileUpdated(c)
     \/ change(c) # "error" /\ ~needsBranch(c)
     \/ CheckoutFails
  /\ due' = due \ {c}
  /\ green' = green \cup {c}
  /\ UNCHANGED <<log, branches, pc, sha, seen, events>>

\* It ends with an error: any call may fail, and a version must increase.
Fail(c) ==
  /\ pc = "idle" /\ c \in due
  /\ due' = due \ {c}
  /\ UNCHANGED <<log, branches, pc, sha, green, seen, events>>

Put(n, b) ==
  /\ branches' = [m \in DOMAIN branches \cup {n} |-> IF m = n THEN b ELSE branches[m]]
  /\ seen' = seen \cup {n}

\* Mutant of startingPoint: the base branch is checked out, not the base commit.
startingPointHead(c) == IF c \in DOMAIN log THEN Len(log) - 1 ELSE 0

\* Mutant of startingPoint: HEAD~1 is taken twice, once for comparing versions.
startingPointEarlier(c) == c - 2

\* HEAD~1 of the base commit, "the latest commit for" the previous version.
startingPoint(c) == c - 1

\* Mutant of accepts: the push is forced.
acceptsAny(n, at) == n \in Name /\ at \in DOMAIN log

\* git accepts a push without force if the branch is new or moves forward.
accepts(n, at) == n \in DOMAIN branches => ~branches[n].own /\ branches[n].at <= at

End == pc' = "idle" /\ sha' = 0

\* PushToCentral.  The answer may be lost, or the push fail for other reasons.
Push ==
  /\ pc = "push"
  /\ LET n  == releaseBranchName(log[sha - 1])
         at == startingPoint(sha)
     IN  \/ /\ accepts(n, at)
            /\ Put(n, [at |-> at, own |-> FALSE, by |-> "handler"])
            /\ green' \in {green, green \cup {sha}}
         \/ UNCHANGED <<branches, seen, green>>
  /\ End
  /\ UNCHANGED <<log, due, events>>

-----------------------------------------------------------------------------
(* People.                                                                 *)

\* Pull requests are merged.  Prow triggers the job, for the last commit, if
\* the push changes the file.
PushToBase(vs) ==
  /\ Len(log) + Len(vs) <= MaxCommits
  /\ log' = log \o vs
  /\ due' = IF \E c \in Len(log) + 1 .. Len(log') : log'[c] # log'[c - 1]
              THEN due \cup {Len(log')}
              ELSE due
  /\ UNCHANGED <<branches, pc, sha, green, seen, events>>

Event == /\ events < MaxEvents
         /\ events' = events + 1
         /\ UNCHANGED <<log, pc, sha, green>>

\* A job is run once more.
Rerun(c) ==
  /\ Event
  /\ c > 1 /\ c \notin due
  /\ log[c] # log[c - 1]
  /\ due' = due \cup {c}
  /\ UNCHANGED <<branches, seen>>

CreateBranch(n, c) ==
  /\ Event
  /\ n \notin DOMAIN branches
  /\ Put(n, [at |-> c, own |-> FALSE, by |-> "people"])
  /\ UNCHANGED due

CommitToBranch(n) ==
  /\ Event
  /\ n \in DOMAIN branches
  /\ branches' = [branches EXCEPT ![n] = [at |-> @.at, own |-> TRUE, by |-> @.by]]
  /\ UNCHANGED <<due, seen>>

DeleteBranch(n) ==
  /\ Event
  /\ n \in DOMAIN branches
  /\ branches' = [m \in DOMAIN branches \ {n} |-> branches[m]]
  /\ UNCHANGED <<due, seen>>

-----------------------------------------------------------------------------

Run == \/ \E c \in DOMAIN log : Prepare(c) \/ Skip(c) \/ Fail(c)
       \/ Push

People == \/ \E k \in 1 .. MaxPush : \E vs \in [1 .. k -> Versions] : PushToBase(vs)
          \/ \E c \in DOMAIN log : Rerun(c) \/ \E n \in Name : CreateBranch(n, c)
          \/ \E n \in Name : CommitToBranch(n) \/ DeleteBranch(n)

Next == Run \/ People

Spec == Init /\ [][Next]_vars

-----------------------------------------------------------------------------
(* Properties.                                                             *)

\* What a new release branch stands for: development of a later major or minor
\* version begins with commit c.
Bump(c) ==
  /\ c > 1
  /\ log[c - 1].dev /\ log[c].dev
  /\ \/ log[c].major > log[c - 1].major
     \/ log[c].major = log[c - 1].major /\ log[c].minor > log[c - 1].minor

\* A release branch the handler has made starts at the last commit before the
\* bump from its version, however many commits and runs there have been since.
BranchPoint ==
  \A n \in DOMAIN branches : branches[n].by = "handler" =>
    LET at == branches[n].at
    IN  /\ releaseBranchName(log[at]) = n
        /\ at + 1 \in DOMAIN log /\ Bump(at + 1)

\* A run that succeeds for a bump, late or repeated, leaves a release branch or
\* finds one.
GreenMeansBranched == \A c \in green : Bump(c) => releaseBranchName(log[c - 1]) \in seen

\* The handler never takes commits off a release branch, not even off one that
\* people make while it runs.
KeepsCommits ==
  [][events' = events =>
       \A n \in DOMAIN branches :
         /\ n \in DOMAIN branches'
         /\ branches[n].own => branches'[n] = branches[n]
         /\ branches'[n].at >= branches[n].at]_vars
=============================================================================
