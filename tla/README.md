# Formal models of the Gardener CI tools

This directory models the programs of `prow/` with TLA+: the image builder, the
cherrypicker plugin, the check of the peribolos configuration and the jobs that
write to GitHub. TLC checks the modules on small instances; TLAPS proves the
invariants those runs check for all values of the constants: any number of pods,
deliveries, branches, repositories, overlapping runs, lines, events and faults.

Paths below are relative to `src/prow/` unless they begin with `src/`.

## 1. Inventory

| Component | State it keeps | Operations | Interacts with |
|---|---|---|---|
| **image-builder** (`cmd/image-builder`) | pods of the plan, phase remembered per pod, error count, first stop reason (all in memory; restarted never) | `Reconcile`, `ensureBuildPodDefinition`, `reconcileBuildPods`, `startNextBuildPods`, `collectBuildPodLogs`, `stop`, verdict of `main` | API server through an informer cache (reads) and directly (writes, logs), kubelet, `interrupts` |
| **cherrypicker** (`external-plugins/cherrypicker`) | a mutex per (repository, pull request, branch); everything else lives on GitHub | `handleEvent` per webhook in a goroutine, `handleIssueComment`, `handlePullRequest`, `handle` | GitHub API, git clone, the bot's fork |
| **branch-cleaner** (`cmd/branch-cleaner`) | the lists of one run | list, sort, tag filter, `identifyBranchesToDelete`, `removeBranchProtection`, `deleteBranches` | GitHub API |
| **job-forker** (`cmd/job-forker`) | a clone for the duration of a run | `forkJobs`, `removeOrphanedJobs`, then `PushChanges` | GitHub API, git, Tide, its own earlier pull request |
| **githubinteractor** (`pkg/githubinteractor`) | none | `GetMatchingBranches`, `CloneRepo`, `PushChanges`, `Commit` | used by job-forker and milestone-activator |
| **release-handler** (`cmd/release-handler`) | a clone for the duration of a run | `isVersionFileUpdated`, `compareVersions`, `createReleaseBranch` | Prow (postsubmit), git, GitHub |
| **milestone-activator** (`cmd/milestone-activator`) | a clone for the duration of a run | `getOpenMilestone`, `updateFiles`, then `PushChanges` | git, GitHub, Tide, its own earlier pull request |
| **owners-aliases-bumper** (`cmd/owners-aliases-bumper`) | aliases and changes of one run | `addMembersFromTeams`, `calculateAliasChanges`, `writeChanges`, `commitAndPush`, `findOrCreatePR` | peribolos configuration, GitHub, git, overlapping runs of itself |
| **peribolos-checkconfig** (`cmd/peribolos-checkconfig`) | none | `checkOrg` on each organisation of one file | gates the configuration the bumper reads |

### What is hard in each, and what makes it correct

* **image-builder.** The controller decides from listings that trail the
  cluster; pods are created one call at a time and an answer can be lost; pods
  are deleted by others; errors are counted over the whole build; `Reconcile`
  goes on after `stop` until the manager has ended; the process may get a signal
  it did not ask for. *Correct*: stages in order, a stop for the right reason, no
  logs lost, errors retried and bounded, every build ends, success is reported
  only for a complete build.
* **cherrypicker.** Webhooks are handled concurrently, redelivered and
  overtaken by the merge; a request is read from comments, the description and
  labels; pushing is forced; a failing target must not stop the others; a restart
  loses goroutines. *Correct*: nobody untrusted causes a cherry-pick, every
  request is attempted, an open cherry-pick is not overwritten, no mutex is kept.
* **branch-cleaner.** The repository changes between any two calls; protection is
  removed before anything is deleted; any call may end the run. *Correct*: the
  newest stay, branches with pull requests stay, unreleased branches stay,
  protection goes only with its branch.
* **job-forker and githubinteractor.** A run reads branches repository by
  repository, pushes with force to a branch that an earlier run's open pull
  request uses, while Tide may merge that pull request at any moment. *Correct*:
  each run proposes what it saw, the directory converges to the branches there
  are.
* **release-handler.** A job comes late, after other pushes, fails, is repeated or
  loses the answer of its push; people create, extend and delete release branches
  meanwhile; errors are swallowed. *Correct*: each minor version gets its branch at
  the last commit before the bump, a green run means there is one, and commits
  people have pushed to a release branch stay.
* **milestone-activator.** Lines are cut at the offset of a marker, again and
  again, by runs and by people; an open pull request of an earlier run may be
  merged at any moment. *Correct*: deactivating undoes activating, a change that
  is reported is one, and the files end up agreeing with the open milestone.
* **owners-aliases-bumper and peribolos-checkconfig.** Changes are computed from
  one version of a file with one version of the configuration and applied to
  another; an hourly run and one after a change overlap and push to one branch with
  force; there may be several pull requests from it. *Correct*: nothing is proposed
  that the checked configuration does not say, the newest pull request is kept,
  and in the end merging it brings the file in line.

`PROJECT.json` lists each hazard at its line with the properties that cover it.

## 2. Modules

```
BuildPipeline        what a build promises (abstract)
   ^ implemented by
BuildController      reconciler + informer cache + API server + kubelet + main

Cherrypicker         webhook goroutines + lockMap + GitHub, one pull request
BranchCleaner        one run + a repository that changes
   ^ extended by
MCBranchCleaner          names of branches
JobForker            repeated runs + PushChanges + GitHub and Tide
   ^ extended by
MCJobForker          the relation of names JobForkPrefix.cfg needs
MilestoneActivator   line functions + repeated runs + PushChanges + GitHub and Tide
   ^ extended by
MCMilestoneActivator     two files

Peribolos            checkOrg, and the aliases of an organisation (no state)
   ^ extended by
AliasesBumper        overlapping runs + configuration + GitHub, one repository
   ^ extended by
MCAliasesBumper          four configurations, one of which is rejected

ReleaseHandler       runs after pushes + the base branch and release branches
   ^ extended by
MCReleaseHandler         five versions
```

The theorems about a module `M` and their proofs are in `MProofs`, which extends it
(section 5): `BuildControllerProofs`, `CherrypickerProofs`, `BranchCleanerProofs`,
`JobForkerProofs`, `AliasesBumperProofs`, `MilestoneActivatorProofs` and
`ReleaseHandlerProofs`.

Most programs do not call each other at run time, so they are composed with their
environment and not with one another. `githubinteractor` is a library: its
operations are actions of the module of the program that calls them.
`peribolos-checkconfig` and `owners-aliases-bumper` read the same file, the first
before a change of it is merged (`src/config/jobs/org/org-presubmits.yaml`), the
second afterwards (`org-periodics.yaml`, `org-postsubmits.yaml` beside it):
`AliasesBumper` composes them.

### BuildController

A pod is its index in `r.buildPods`: 1 is clonerefs, then the targets variant by
variant. `buildGroup` and `Before` give the stages. The API server is `cluster`
and the queue `watch` of events the informer has not applied to `cache` yet;
`Relist` is a broken watch after which the informer skips what it missed.

| Action | Code |
|---|---|
| `EnsureFails`, `Ensured` | `ensureBuildPodDefinition` with its claim and pod definition |
| `ListFails`, `CollectLogsFails`, `ReconcileBuildPods` | `reconcileBuildPods`: the listing, the status loop stopping at a pod whose logs it cannot get, and the loop to its end |
| `CreateNext`, `CreateFails`, `CreateDone` | one turn of the loop of `startNextBuildPods`, and its end |
| `stop`, `errorHandler` | the same functions |
| `RunPod`, `EndPod`, `DeletePod`, `Deliver`, `Relist` | kubelet, users, API server, informer (external) |
| `Interrupt`, `Exit` | `interrupts.Terminate` or a signal; the end of `main` |

One `Reconcile` is one step up to the first `Create`, because until then it reads
the cache once and otherwise only reads logs; each `Create` is a step of its own,
so that pods run, fail and are deleted between two of them. A pod's logs can be
read once its container has started.

Assumptions: the cluster uses no pod phase `Unknown`; requests queued by other
pods' events are reconciliations that find the same state; no new `Reconcile`
begins after the context is cancelled, a running one ends.

### BuildPipeline

A build is started, finished and reported: no pod before its predecessors have
succeeded, no success before all have. `BuildController` implements it with
`started <- created, outcome <- verdict`.

### Cherrypicker

One pull request and a few deliveries, each a goroutine: `handleIssueComment`,
`ListComments` and `ReadLabels` (the two reads of `handlePullRequest`), then the
loop over the branches with `Lock`, `Prepare` (everything local up to `git am`),
`Push`, `Open`, `Complete`. `Return` is any return of `handle`. The users
comment, label, close or merge, redeliver; maintainers edit and close
cherry-picks (which deletes the branch). Comments and labels are not removed.

`handle` looks for the open pull request whose head is `<login>:<branch>`
(`external-plugins/cherrypicker/server.go:548`), the form `CreatePullRequest` takes.
What GitHub returns in that field is the name of the branch alone (`HeadRef`), and so
the other readers of it have it: `cmd/branch-cleaner/branchcleaner.go:202`,
`pkg/githubinteractor/github.go:230`, `cmd/owners-aliases-bumper/github.go:142`. An
existing cherry-pick is therefore never found, even where its branch is in the upstream
repository, and is pushed again; the fake client of the plugin's tests returns the
longer form
(`external-plugins/cherrypicker/server_test.go:495`).

### BranchCleaner

A name is what stands before and what stands behind its first dot, without the
prefix `release-v`, as sequences of digits. `SortsBefore` is the comparison of
`getMatchingBranches`: the part before the dot as a string (`StringLess`), the part
behind it as a number (`NumberGreater`); where there is no dot it panics
(`Sortable`). An entry of a list is a branch together with the listing that
returned it, since a branch may be in both. Each loop turn is a step. Others
create branches, protect and unprotect them, tag, and open and close pull
requests. Where a pull request is sought in several lists those reads are one
step. `sort.Slice` is not stable, but two entries it may leave in either order are
of one branch.

### JobForker

A forked job file stands for its repository and branch. A run is `Clone`, then
per repository `ListUnprotected` and `ForkAndClean` (the second listing,
`forkJobs` for each branch, `removeOrphanedJobs`), then `Generated`, `Commit`,
`Push`, `Open`, `AddLabels`; the order of the repositories is that of a Go map,
hence any. `Fail` is a failing call anywhere: the process exits and the next
periodic run is the retry. `head` is the difference the fork's branch holds,
`Merge` is Tide applying it to `master`. The labels that let Tide merge are
assumed to be configured (`-labels-override`). `Prefix` says whose file names
begin with whose.

### Peribolos

Operators only. A team is its path in the tree; the recursion of `walkTeams` and
`addMembersFromTeams` visits every node once, whatever the order, and so becomes
quantification over paths. `checkOrg` collects all errors and is therefore a
conjunction of its checks. `Norm` is `NormLogin` (and `strings.ToLower`) as a
function on the strings of the instance.

Three things one meets here: teams whose names differ in case only pass
`checkOrg` and share one alias; a team without members has no alias, so the alias
of a team that becomes empty keeps its last members; and the alias of a child team
is `<parent>/<child>`, the alias of the parent has the parent's own members only.

### AliasesBumper

| Action | Code (`cmd/owners-aliases-bumper/`) |
|---|---|
| `Start` | the configuration is parsed and the aliases are built (`main.go:36-93`) |
| `Compare` | `calculateAliasChanges` on the file fetched over the API |
| `Write` | `checkoutRepo`, `writeChanges` on that later version, the commit; no commit, no push |
| `Push` | `PushToCentral` with force |
| `ListPRs`, `Create`, `ClosePR` | `findOrCreatePR`: the reading, the creation, one closing each |
| `Fail` | a failing call: `continue` in `main` with the next repository, a warning for a failing closing; the pull request may have been created although the answer is an error |
| `ChangeConfig` | a configuration `checkOrg` accepts is merged; the postsubmit job is due |
| `Edit`, `OpenPR`, `CloseByHand`, `Merge` | people |

A list of the file is a bag of lines, because `writeChanges` appends a login that
people have added meanwhile a second time. `Merge` merges the two sides of each
alias as git does and is possible only without a conflict; pull requests are
squashed (`src/config/prow/config.yaml:178`), so a merged branch has no further
bearing. `GetPullRequests` lists the newest first. Logins and aliases of the file are
in small letters (`Logins`, `Aliases`): `writeChanges` looks for the line that is
equal to the normalized login, so that a login the file spells in capitals is
found by the comparison, never removed, and the commit fails every hour if nothing
else changes.

### MilestoneActivator

A line is a sequence of tokens; a space is one (`"space"`), and so are a section's
start and end marker. Spaces and `"# "` are kept because `offset`, `TrimLeft` and `TrimPrefix` are about
them. `handleActivateLine`, `handleDeactivateLine`, `findSectionsInFile`
(`wellFormed`), `handleMilestoneSection` and `updateFiles` (`updatable`) are
operators, and `panics` says when slicing a line at the offset panics. Any file is
admitted; which of its lines a section can restore (`restorable`), and whether it can
restore all of them (`Restorable`), are conditions of properties. A run is
`Clone`, `Update` (the milestone and all files), then `Commit`, `Push`, `Open` and
`AddLabels` of `PushChanges`. `Fail` is a failing call; the process exits. Others
open and close milestones, comment lines in and out at the offset, close and merge
the pull request.

### ReleaseHandler

The base branch is the sequence `log` of the versions its commits have; a release
branch is its name, the commit it left the base branch at, whether it has commits
of its own, and who made it. `Prepare` is a run up to the branch it creates in its
clone, `Skip` one that ends without an error, `Fail` one that ends with one,
`Push` the push without force, which git accepts only for a new branch or one that
moves forward. Between the two others act; runs do not overlap.
`isVersionFileUpdated` compares the commit of the job with the one before, however
many commits were pushed.

## 3. Runs

| Run | Question | Instance |
|---|---|---|
| `Build` | Do stages keep their order, are stops justified, logs kept, errors bounded, is the first stop final; does every build end, a failed pod as failure, is the pipeline implemented - and is `IndInv`, on which the proofs rest, invariant? | 1 variant x 3 targets (cache pod, then two in parallel), 2 errors, lag 2, calls that may fail, lost answers, deletions |
| `BuildInterrupted` | Is "Build successful" always true? **No** | 1 x 2, outside signal |
| `BuildForeignPVC` | Does a build end if a claim is named like the namespace? **No** | 1 x 2, claim of that name |
| `Cherrypick` | Authorisation, mutex, attempts, ends, requests served | 2 deliveries, 3 branches with the base, 2 users, faults, restart |
| `CherrypickOverwrite` | Is an open cherry-pick never pushed again? **No** | as above without faults |
| `BranchCleanup` | Does a run keep what it should and delete the rest, whatever changes meanwhile? | v1.9, v1.10, v2.0 and a name without a version, all initial states, 2 changes, faults |
| `BranchCleanupTwice` | Do the last `N` stay, in any run? **No** | 3 versions, `Keep` 2, 1 change |
| `JobForking` | Is each run complete, has it something to commit, does the directory converge? | 2 repositories, 2 branches, 2 events, 1 fault |
| `JobForkPrefix` | Are only orphans removed if one repository's name begins another's? **No** | 2 repositories, 1 branch |
| `AliasesBumping` | Is what is proposed justified by the configuration, is the newest pull request kept, does merging it bring the file in line in the end? | 2 jobs, 3 accepted configurations and a rejected one, 1 alias, 2 logins, 2 events, 1 fault |
| `MilestoneActivation` | Do lines survive, is there something to commit, do files a run can handle stay so, and do they converge? | 2 files, 2 milestones, 2 events, 1 fault |
| `ReleaseHandling` | Do branches start before the bump, does green mean branched, do commits stay? | 5 versions, 4 commits in pushes of 1 or 2, 2 events, any failure |

### Why the bounds are enough

* *Builds.* The code distinguishes three groups: clonerefs, pods that fill a cache,
  and pods that run in parallel. Three targets are needed for two pods of one
  parallel stage after a cache pod. An event in flight for each of two pods (`MaxLag`
  2) lets the cache show one of two simultaneous changes. `MaxErrors` (5 in the code)
  is 2: it is only compared with a counter. With a second variant a group comes back
  after another; that, and signals from outside, the proofs cover, which remove all
  these bounds for the invariants and for the refinement.
* *Cherry-picks.* A race takes two deliveries. Three branches are the base, one
  whose cherry-pick branch exists upstream and one whose does not; commands ask
  for one branch, for two, and for the base.
* *Branches.* With `Keep` 1, three versions give lists shorter than, as long as
  and longer than the number kept; v1.9 and v1.10 are where numbers and the alphabet
  disagree, and the fourth name is one on which sorting or the search for a tag
  fails. Two changes are enough to undo something, or to change two branches
  differently.
* *Forked jobs.* Two repositories, of which one has annotated jobs, and two
  branches, in every initial state of branches and directory. Two events may come
  at any moment of any run, one fault in any call. The number of runs is
  unbounded.
* *Aliases.* Repositories and aliases are independent of each other in the code,
  so one of each is enough; it is that of a child team. Two jobs are all there
  are. The configurations add, remove and empty the team; the rejected one is that
  of a maintainer who is not of the organisation. Two events at any moment make a
  configuration change under a run, a file change under another, or two surplus
  pull requests. The number of runs is unbounded.
* *Milestones.* The two files have a section with indentation, a comment and a
  title in it, lines outside that look like those inside, two sections in one
  file, an empty line and a line with text before `milestone:`. Two titles make
  renaming, closing and two open milestones possible.
* *Releases.* Four commits allow two bumps after one another, or a release and a
  patch before one; a push of two hides a commit. Runs fail without bound.

### Where a run leaves a hazard out

Each of these restricts a passing run, because the code has no defence:

* `Deletable` leaves out `"Failed"`: a failed pod deleted before the rest of its
  stage has ended is forgotten, because `reconcileBuildPods` counts the listed
  pods only (`cmd/image-builder/buildcontroller.go:719`). The build then ends
  without an error, and `StopSound` is false.
* `KeepsNewest` speaks of runs that list no branch twice (`ListedOnce`); what a run
  does that lists one twice is `BranchCleanupTwice`. It and `CleanedUp` also ask that
  majors have as many digits as each other (`SameWidth`): as strings, v10 comes before
  v9, and the code would delete v10 first. `BranchCleanup` has versions 1 and 2 only.
* `HeldPRsKept` speaks of pull requests open during the whole run: one that is opened
  after `checkBranchToDelete` does not save its branch.
* `StrippedDeleted` says which branches lose their protection. When a call fails
  afterwards nothing gives it back.
* `Unprotecting` is FALSE in `JobForking`: a branch that loses its protection
  between the two listings of `GetMatchingBranches` is in neither, and its files
  are removed until the next run.
* `CheckoutFails` is FALSE in `ReleaseHandling`: `run` returns nil if checking out
  the base fails (`cmd/release-handler/releasehandler.go:60`), the job is green and
  the branch is missing. With TRUE, `GreenMeansBranched` is violated.
* `SomethingToCommit` and `StaysUpdatable` speak of files whose lines can all be
  restored (`Restorable`): what remains of a line when its comment at the offset is
  removed is indented at least as far as the marker and is neither a comment nor a
  marker; a blank line may end before the offset. The module admits any file, the
  instance of the run has such files only, and `TextKept`, stated line by line,
  is proved for the good lines of any file. What the code does with the others:
  * a line that ends before the offset, such as an empty line in an indented section,
    makes the slice at `cmd/milestone-activator/activator.go:269` panic whenever the
    section is to be deactivated, so that it never is (`panics`, `updatable`);
  * a line less indented than the marker gets `# ` inserted into its text behind the
    offset, is not recognised as a comment by the next run, and gets another one;
  * a comment behind the offset of an active section is found by line 249, left as it
    is by line 252 and reported as changed by line 253; if nothing else changes there
    is nothing to commit, and the run fails;
  * a line commented twice loses one comment when the section is activated and gets
    none back.
* A file with `# ` before a marker in a section (`noHiddenMarkers`) is the one
  exception `TextKept` makes, since activating makes a section of it. A comment
  people mean to stay one is commented in when the section is activated, since nothing
  tells it from an inactive line, and what follows the last `milestone:` of a line is
  replaced by the title: `TextKept` compares lines without either.
* With several open milestones every run of the milestone-activator fails;
  `Converges` allows that state to stay.
* `Proposed` allows a pull request from a fork whose branch has the bumper's name
  to take the place of the bumper's own: `findOrCreatePR` compares names of branches
  without their repository (`cmd/owners-aliases-bumper/github.go:142`), keeps that
  one and opens none. It also allows a pull request to stay open after the file
  has come to agree otherwise, since a run without changes looks at none.
* `GreenMeansBranched` speaks of commits a job has run for. A bump inside a push of
  several commits has none, and gets no branch, because only the last commit is
  compared with the one before it (`cmd/release-handler/releasehandler.go:81`).
* In `JobForking` no repository's name begins another's, so that the order in which
  the repositories come makes no difference there; `JobForkPrefix` is where it does.
* The members of an alias are compared as sets: that a login is written twice into the
  file is modelled (`ListOf` is a bag) and no property objects to it. The alias of
  `AliasesBumping` is that of a child team. The bumper's README says that an alias is
  built from a team "recursively including child teams"
  (`cmd/owners-aliases-bumper/README.md:6`); `addMembersFromTeams` gives child teams
  aliases of their own, and no property is about the alias of a parent.
* Names without a dot make the comparison of the branch-cleaner panic, in every mode,
  although `-branch-pattern` may be any regular expression
  (`cmd/branch-cleaner/README.md:5`). `Sortable` models it as a run that fails. The
  same README speaks of alphabetical order (line 7), where the code and its test
  compare minors as numbers; `KeepsNewest` is about the latter.

### Fairness

* `BuildController`: the manager requeues `Reconcile` after 30 seconds and after
  errors with backoff, a loop that has begun goes on, pods that can start do and
  end, the informer catches up, a termination the controller requested happens.
  Weak fairness is on the reconciliations and creations that are answered
  (`ReconcileAnswered`, `CreateAnswered`), among them the ones that must end in an
  error: a created pod that is not listed yet, logs that cannot be read, a pod that
  exists already, a context that is cancelled. Calls that fail of themselves (`Faults`)
  may come at any time or never, so that no build ends because its error budget is
  used up by force; nothing is assumed of lost answers, deletions, relists or outside
  signals either. `BuildForeignPVC` is violated with and without such failures.
* `Cherrypicker`: goroutines run to their end; with weak fairness per delivery a
  mutex that is released is eventually taken, because each delivery holds at most
  one and there are finitely many. Users and restarts are not fair.
* `JobForker`: the job is periodic, a run goes on, Tide merges a labelled pull
  request. Events and faults are bounded and not fair.
* `MilestoneActivator`: as `JobForker`.
* `AliasesBumper`: one job is periodic and runs go on to their end. Nobody has to
  merge anything: `Proposed` is about the pull request there is.
* `BranchCleaner` has no liveness property: a run is a finite sequence of calls.
  Neither has `ReleaseHandler`: a job that failed is not repeated by itself, and
  without pushes nothing happens (hence `CHECK_DEADLOCK FALSE`).

## 4. What the runs found

Each is a violation run and an entry of `findings` in `PROJECT.json`.

1. `BuildInterrupted`: SIGTERM from outside cancels the manager's context,
   `mgr.Start` returns nil and `controller.err` is nil, so an interrupted build
   logs "Build successful" and exits with 0.
2. `BuildForeignPVC`: the claim is looked up under the name of the namespace.
3. `CherrypickOverwrite`: the check for an existing cherry-pick looks into the
   clone of the upstream repository; the branch is pushed to the bot's fork.
4. `JobForkPrefix`: files are attributed to repositories by prefix of the name.
5. `BranchCleanupTwice`: the unprotected and the protected branches are listed by two
   calls and appended without removing doubles
   (`cmd/branch-cleaner/branchcleaner.go:95-104`). A branch protected between them
   counts twice among those kept, and one too many is deleted.

## 5. Proofs

Every invariant and action property a passing run checks is a theorem, for all
values of the constants the modules' assumptions allow; some need a hypothesis
the code does not guarantee, or their property is conditional, and sections 3 and 4
say what happens otherwise. Each
proof module has one inductive invariant, `IndInv`, which was checked on the
instance of the run before it was proved, with one lemma per action (or per group of
actions that disturb the same conjuncts), `Initially`, `Inductive`, and
`Invariance == Spec => []IndInv`. The theorems follow from `Invariance`.

### Image builder

`BuildControllerProofs` proves, for all values of the constants:

| Theorem | States | Assumes |
|---|---|---|
| `TypeCorrect` | `Spec => []TypeOK` | - |
| `FirstStop` | `Spec => FirstStopWins` | - |
| `ErrorsAreBounded` | `Spec => []ErrorBudget` | - |
| `VolumesExist` | `Spec => []VolumeExists` | `~ForeignPVC` |
| `Invariance` | `Spec => []IndInv` | `"Failed"` not in `Deletable` |
| `StagesInOrder`, `StopsAreSound`, `LogsAreComplete` | `Spec => []StageOrder`, `[]StopSound`, `[]LogsComplete` | `"Failed"` not in `Deletable` |
| `Implementation` | `Spec => ImplementsPipeline` | that, and `~Interruptible` |

Every module-level assumption is checked by TLC in the runs. The extra
assumptions are hypotheses of the theorems and not of the module; sections 3 and
4 tell what happens without them.

**The argument.** `StageOrder` speaks of pods and of success in the cluster, but
the controller sees the cache and what it remembers. Hence the parts of `IndInv`:

* `SucceededViews`: wherever `Succeeded` is seen (cluster, event in flight,
  cache, memory) the pod has succeeded. A view may be old but not wrong, as
  success is never taken back.
* `Existence`: what is mentioned anywhere has existed.
* `PlanOrder`: a pod exists only if all pods before it have a remembered phase.
  This makes "the next unset pod" the first that may be missing, also after a
  lost answer: that pod exists, has no phase, and is the first unset one.
* `Creating`: when the loop begins, nothing listed is active or failed and
  nothing remembered is active, so every remembered pod has succeeded; after the
  first creation all pods before `first` have, and what has been created since
  is in the group of `first`. With `PlanOrder` this gives `StageOrder` for the
  pod created next.
* `FailedViews`: a failure once seen stays visible: events about a failed pod
  end with the failure. It needs the assumption on `Deletable`, and makes the
  loop begin only if nothing remembered has failed.
* `LogsComplete` and `StopSound` are carried along: a stop without error happens
  with no unset pod and nothing but successes remembered.
* `Interrupts`: without outside signals the context is cancelled only after a
  stop, which with `StopSound` makes the verdict sound (`Implementation`).

`ErrorsAreBounded` and `VolumesExist` need none of this: the first is inductive with
the types, the second with "defined implies claimed" (`Provision`). Each action is a
lemma over the conjuncts it may disturb; pods that an action does not touch are
handled by lemmas shared between the actions.

### Release-handler

`ReleaseHandlerProofs` proves, for all values of the constants:

| Theorem | States | Assumes |
|---|---|---|
| `TypeCorrect` | `Spec => []TypeOK` | - |
| `BranchesStartBeforeBumps` | `Spec => []BranchPoint` | - |
| `GreenRunsHaveBranches` | `Spec => []GreenMeansBranched` | `~CheckoutFails` |
| `CommitsAreKept` | `Spec => KeepsCommits` | - |

**The argument.** A job knows a commit and looks at it much later. Two facts carry
over: jobs are triggered for commits that have one before (`DueAfterFirst`, without
which `HEAD~1` is no commit), and a run that pushes has found a bump (`Pushing`).
`ClassifiedAsBump` is the lemma on versions: `classifyVersionChange` answers
`prepareNewMajorMinorVersion` exactly for bumps, although it compares minor versions
without looking whether the major ones agree, because versions that do not increase
are refused first. `BumpStays` says that later pushes do not undo a bump. The
converse direction of the lemma gives `GreenRunsHaveBranches`: a run for a bump that
ends without an error has pushed the branch or found it. `CommitsAreKept` rests on
what git accepts without force.

### Branch-cleaner

`BranchCleanerProofs` proves, for any names, any `Keep` and any changes by others,
and without further hypotheses:

| Theorem | States |
|---|---|
| `TypeCorrect` | `Spec => []TypeOK` |
| `HeldPRsAreKept` | `Spec => []HeldPRsKept` |
| `OnlyReleasedDeleted` | `Spec => []ReleasedOnly` |
| `StrippedAreDeleted` | `Spec => []StrippedDeleted` |
| `CleanupComplete` | `Spec => []CleanedUp` |
| `NewestAreKept` | `Spec => []KeepsNewest` |

**The argument.** What was found out at one call must still be true, or must not
matter, when a later call deletes. `Progress` says for each stage which of the lists
`found`, `doomed` and the rest of them are final and which part of each has been
worked off. `HeldOpen` and `NoneHeld` relate the history of open pull requests to the
present: a branch that has had one all the time has one now, and is therefore never
put on the list. `Released` says the same of tags, which are not taken away.
`Chosen` is about order: whatever is on the list has at least `Keep` entries before
it. That the comparison is an order at all is proved from the characters up
(`StringsTotal`, `StringsIrreflexive`, `StringsTransitive`, `SortOrder`, `ListOrder`),
and `VersionOrder` says that it is the order of versions where majors have as many
digits as each other. Entries are counted, branches are promised: where no branch is
listed twice there is an injection from the entries before one to newer branches, which
is `NewestAreKept`. `CleanupComplete` does not need that, because a branch listed twice
only makes fewer than `Keep` newer ones. The first entry of a set in the sorted order
exists (`FirstOne`) because the entries before an entry are a finite set, and one that
has the fewest is chosen by well-foundedness of strict inclusion.

### Cherrypicker

`CherrypickerProofs` proves, for any number of deliveries, branches and users,
without hypotheses:

| Theorem | States |
|---|---|
| `TypeCorrect` | `Spec => []TypeOK` |
| `OneHandlerPerBranch` | two goroutines between `Lock` and `Return` have different branches |
| `CherryPicksAuthorized` | `Spec => []Authorized` |
| `OpenerHasPushed` | `Spec => []PushedByOpener` |
| `NoTargetSkipped` | `Spec => []AllAttempted` |

**The argument.** `Mutex` relates the position of each goroutine to the owner of the
mutex of its branch, so that two in the critical section have different
branches. Under it a goroutine can rely on what it has done to its own branch:
`PushedByOpener` says that from the push to the pull request nobody else has pushed.
`Reported` and `Obeyed` say that what a delivery goes
through was read from comments, the description or labels of a merged pull request,
and that requests are never taken back (`RequestsStay`), which together give
`Authorized`. `Accounted` partitions the targets of a delivery into attempted, current and
still to come, through failures and restarts.

### Job-forker

`JobForkerProofs` proves, for any repositories, branches, events and faults:

| Theorem | States | Assumes |
|---|---|---|
| `TypeCorrect` | `Spec => []TypeOK` | - |
| `NoOrphansLeft` | at the commit, no file is of a branch that did not exist at any time of the run | - |
| `RunsComplete` | `Spec => []RunComplete` | `WholeNames`, `~Unprotecting` |
| `OrphansOnlyRemoved` | `Spec => []OrphansOnly` | `WholeNames`, `~Unprotecting` |
| `ChangesAreCommitted` | `Spec => []SomethingToCommit` | `WholeNames` |

`WholeNames` says that no repository's name begins another's. `OrphansOnly` is the
property the run `JobForkPrefix` finds violated; with the hypothesis it is a theorem,
so a name that begins another's, or a protection removed between two listings, is the
only way to that defect.

**The argument.** A run looks at repositories one after the other while branches come
and go; `present` and `sometime` are the branches that were there all the time and at
any time. `Listed` relates the half-read listing of a repository to them, `Done` says
what the files of the repositories handled so far are - between the two - and
`Handling` that those of the others are still as in the clone. `Changes` is why there
is something to commit: `changed` is a flag, the difference is a set, and the flag is
set only together with a file of a finished repository that differs from `base`. It needs
`WholeNames`, because another repository may otherwise put the file back. `Seen` and
`AtRest` say what a run that is not under way has left.

### Owners-aliases-bumper

`AliasesBumperProofs` proves, for any finite number of overlapping jobs, any
configurations, aliases, logins and bounds, without further hypotheses:

| Theorem | States |
|---|---|
| `TypeCorrect` | `Spec => []TypeOK` |
| `OnlyJustifiedProposals` | `Spec => []ProposalsJustified` |
| `NewestIsKept` | `Spec => []NewestKept` |

**The argument.** `OnlyJustifiedProposals` is about two programs. `AliasesInOrg` is the
link: in a configuration `checkOrg` accepts, the users of an alias are users of the
organisation, because both look at the same members and maintainers of the same
teams, normalized alike. `RunOK` carries the rest through a run: the changes it has
computed add only users of such an alias and remove nobody in it
(`ChangesVouched`), and still do so when applied to a file people have edited since
(`WrittenJustified`), because a line is touched only if it is named. `NewestIsKept` needs
what is true of the list between runs: numbers of pull requests differ and are in no
run's `todo` when given (`Numbered`, `FreshNumber`), the newest is the last one to
the default branch (`NewestLast`, kept by `OpenedOK` and `ClosedOK`), and it is in no
run's `todo` (`NewestSpared`). The last one is what makes runs independent: a run that
lists spares the one that is newest then, and a later newest has a number no list
contains.

### Milestone-activator

`MilestoneActivatorProofs` proves, for any files whatsoever and any titles that are no
other tokens:

| Theorem | States | About |
|---|---|---|
| `TypeCorrect` | `Spec => []TypeOK` | all files |
| `TextIsKept` | `Spec => []TextKept` | every line that can be restored, whatever the lines around it |
| `ChangesAreCommitted` | `Spec => []SomethingToCommit` | files whose lines can all be restored |
| `OnlyOriginalsFail` | `Spec => []StaysUpdatable` | files whose lines can all be restored |

What the last two ask of the files is part of their properties; section 3 says what
the code does with the others. `OnlyOriginalsFail` does not say that no run fails: it
says that a file fails, for a title, exactly if it did as people wrote it.

**The argument.** It goes from lines to files to runs. `Kept` relates a line of a
section to what becomes of it: no marker appears in it, if it can be restored, so can
the new one, with the same text, and a short blank line stays. `CommentOutKept` and `UncommentKept` say so
of the two operations (after `CommentOutPlain` and `UncommentBare`: commented out, a
line is a comment at the offset, and `uncomment` gives it back), `ActivateOK` and
`DeactivateOK` of what a run does, which takes the last `milestone:`
(`LastPropertyOK`) and that no title makes a comment of what stands before it. `indent`
is a CHOOSE whose witness comes from the least number (`IndentOK`). A file *follows*
another if its lines do (`Follows`); it then has the same markers, hence the same
sections and offsets (`SameSections`), and what follows it follows the first as well
(`FollowsOn`). `HandledOK` and `Toggled` make runs and people step from a file to one
that follows it. The invariant is that the upstream branch, the clone, the tree and
whatever a merge would bring from the fork follow what people wrote; the conjunct for
the fork is a disjunction (`HeadGood`), because a file nobody changed is not merged.
`ActivateOK` and `DeactivateOK` also say that a reported change of a line that can be
restored is one, which gives `ChangesAreCommitted`. `LongEnough` says that lines which
can be restored reach the offset or are blank, and so, with the markers in their places,
`OnlyOriginalsFail`.

### Only model-checked

* Liveness: `Terminates`, `FailureReported`, `DeliveriesEnd`, `RequestsServed`,
  `Converges` (of JobForker and of MilestoneActivator) and `Proposed`. Liveness under
  fairness and `ENABLED` are out of the prover's reach.
* What a violation run shows: a counterexample is one, and proves itself.

Induction over data and RECURSIVE operators are out of reach as well; no module
declares one, and lists are treated by index. `AliasesBumper` and
`MilestoneActivator` avoid two forms the provers do not read: an `@` inside another
EXCEPT's, and strings with a blank.

## 6. Not modelled, and why

* Of the owners-aliases-bumper: the loop over repositories, whose turns share
  nothing and go on after errors; repositories to skip; aliases and logins the file
  spells in capitals. Of the release-handler: prerelease suffixes of several kinds,
  between which a change of suffix alone is an error. Of both and of the
  milestone-activator: dry runs, which do less.
* The syntax of the peribolos configuration and of OWNERS_ALIASES, and how
  `ThreeWayMergeManifest` keeps its comments.
* Of branch names in the branch-cleaner: a part behind the first dot that is no number,
  which the comparison takes for zero.
* Contents: kaniko arguments, destinations and pod names of the image builder;
  titles, bodies, release notes and issues of the cherrypicker; the forked jobs
  themselves and file names that coincide after `/` and `.` are replaced.
* Fakes (`pkg/git/fakegit`, `pkg/github/fakegithub`), because they stand in for
  others in tests only; `src/config`, `src/images`, `src/hack`, because they are
  data and scripts around Prow.
* An existing branch of the target's name in the clone, which `PushChanges`
  checks out (`pkg/githubinteractor/github.go:201`): a clone of the upstream
  repository has it only if somebody pushes it there.

## 7. Plan

Done, in this order: BuildController with BuildPipeline and their proofs,
Cherrypicker, BranchCleaner, JobForker; Peribolos with AliasesBumper,
MilestoneActivator, ReleaseHandler and its proofs.

Left to be modelled: `PodNames` (`getBuildPodName` at its boundaries, and
`defineDestinations`).

Proved: every invariant and action property of the passing runs, and the refinement
of `BuildPipeline`.

To be proved next: that the hypotheses of section 5 are needed only where they are
named (which theorems of BuildController survive without the one on `Deletable`, and
`RunComplete` for the repositories whose names begin no other); `Authorized` split by
where a request came from; that a run of the branch-cleaner without changes by others
deletes exactly what `CleanedUp` and `KeepsNewest` allow.

Parameters are CONSTANTS with named assumptions, each operation is one action and
recursion is avoided, so that these modules can be proved about as they are.
