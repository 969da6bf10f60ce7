--------------------------- MODULE BranchCleaner ---------------------------
(***************************************************************************)
(* One run of prow/cmd/branch-cleaner: it lists the branches that match a  *)
(* pattern, leaves out the first of them and those with open pull requests *)
(* and deletes the others.  Every step is a call to GitHub, and the        *)
(* repository goes on changing between them.                               *)
(***************************************************************************)
EXTENDS Integers, Sequences, FiniteSets

CONSTANTS
  Branches,           \* names of branches that match the pattern
  Keep,               \* -keep-branches
  IgnoreOpenPRs,      \* -ignore-open-prs
  ReleaseMode,        \* -release-branch-mode
  Faults,             \* TRUE iff calls to GitHub may fail
  MaxChanges          \* bound: changes others make to the repository meanwhile

\* A name without its prefix "release-v", split at the dot: the characters
\* before and after it, a digit as its value.  A name without a dot has an
\* empty minor.
Name == [major : Seq(Nat), minor : Seq(Nat)]

ASSUME BranchesAssumption == Branches \subseteq Name /\ IsFiniteSet(Branches)

ASSUME CleanerAssumption == /\ Keep \in Nat
                            /\ MaxChanges \in Nat
                            /\ {IgnoreOpenPRs, ReleaseMode, Faults} \subseteq BOOLEAN

HasDot(b) == b.minor # <<>>

\* An entry of a list of branches: a branch, and whether the listing of the
\* unprotected (1) or of the protected branches (2) returned it.
Entry == Branches \X {1, 2}

Names(E) == {e[1] : e \in E}

VARIABLES
  exists,     \* matching branches of the repository
  protected,  \* those with a branch protection rule
  prs,        \* branches an open pull request is for (or, in a fork, from)
  tagged,     \* branches whose release has a tag
  pc,         \* the stage of the run
  found,      \* matchingBranches
  todo,       \* entries the loop of this stage has still to handle
  doomed,     \* branchesToDelete
  deleted,    \* history: branches this run has deleted
  stripped,   \* history: branches this run has taken the protection from
  held,       \* history: branches with an open pull request all the time
  hadPR,      \* history: branches with an open pull request at some time
  changes     \* number of changes by others

repo == <<exists, protected, prs, tagged>>
run  == <<pc, found, todo, doomed, deleted, stripped>>
past == <<held, hadPR, changes>>
vars == <<repo, run, past>>

TypeOK ==
  /\ exists \subseteq Branches
  /\ protected \subseteq exists
  /\ prs \subseteq Branches
  /\ tagged \subseteq Branches
  /\ pc \in {"start", "half", "tags", "select", "check", "unprotect", "delete",
             "done", "failed"}
  /\ found \subseteq Entry
  /\ todo \subseteq found
  /\ doomed \subseteq found
  /\ deleted \subseteq Branches
  /\ stripped \subseteq Branches
  /\ held \subseteq hadPR
  /\ hadPR \subseteq Branches
  /\ changes \in 0 .. MaxChanges

Init ==
  /\ exists \in SUBSET Branches
  /\ protected \in SUBSET exists
  /\ prs \in SUBSET exists
  /\ tagged \in SUBSET exists
  /\ pc = "start"
  /\ found = {}
  /\ todo = {}
  /\ doomed = {}
  /\ deleted = {}
  /\ stripped = {}
  /\ held = prs
  /\ hadPR = prs
  /\ changes = 0

-----------------------------------------------------------------------------
(* The run.                                                                *)

Fail == /\ pc' = "failed"
        /\ UNCHANGED <<found, todo, doomed, deleted, stripped>>

\* s < t for strings: they part where s ends or has the smaller character.
StringLess(s, t) ==
  \E k \in 0 .. Len(s) :
    /\ k < Len(t)
    /\ \A i \in 1 .. k : s[i] = t[i]
    /\ k = Len(s) \/ s[k + 1] < t[k + 1]

\* s > t for decimal numbers without leading zeros, as strconv.Atoi reads them.
NumberGreater(s, t) == \/ Len(s) > Len(t)
                       \/ Len(s) = Len(t) /\ StringLess(t, s)

\* Mutant of SortsBefore: minors are compared as majors are.
SortsAlphabetically(a, b) == IF a.major = b.major
                             THEN StringLess(b.minor, a.minor)
                             ELSE StringLess(b.major, a.major)

\* The comparison of getMatchingBranches: minors are compared as numbers, but
\* majors as strings.
SortsBefore(a, b) == IF a.major = b.major
                     THEN NumberGreater(a.minor, b.minor)
                     ELSE StringLess(b.major, a.major)

\* sort.Slice leaves the order of two entries of one branch open; which of
\* them comes first makes no difference.
Precedes(e, f) == SortsBefore(e[1], f[1]) \/ (e[1] = f[1] /\ e[2] < f[2])

\* Sorting more than one entry looks at the part behind the dot of each, and
\* panics where there is none.
Sortable(E) == (\E e, f \in E : e # f) => \A e \in E : HasDot(e[1])

\* The loops handle their entries in the order of the list.
Turn(e) == e \in todo /\ \A f \in todo : ~Precedes(f, e)

\* GetBranches, the unprotected ones.
ListUnprotected ==
  /\ pc = "start"
  /\ \/ Faults /\ Fail
     \/ /\ found' = {<<b, 1>> : b \in exists \ protected}
        /\ pc' = "half"
        /\ UNCHANGED <<todo, doomed, deleted, stripped>>
  /\ UNCHANGED <<repo, past>>

\* Both listings.  A branch protected since the first one is in both.
Listed == found \cup {<<b, 2>> : b \in protected}

\* GetBranches, the protected ones, appended to the others and sorted.
ListProtected ==
  /\ pc = "half"
  /\ \/ /\ Faults \/ ~Sortable(Listed)
        /\ Fail
     \/ /\ Sortable(Listed)
        /\ found' = Listed
        /\ todo' = Listed
        /\ pc' = IF ReleaseMode THEN "tags" ELSE "select"
        /\ UNCHANGED <<doomed, deleted, stripped>>
  /\ UNCHANGED <<repo, past>>

\* Mutant of HasTag: a branch without a release tag counts.
anyTag(b) == b \in Branches

HasTag(b) == b \in tagged

\* identifyBranchesWithReleaseTags drops branches that are not released yet,
\* and gives up at a name without a version.
CheckTag(e) ==
  /\ pc = "tags"
  /\ Turn(e)
  /\ \/ /\ Faults \/ ~HasDot(e[1])
        /\ Fail
     \/ /\ HasDot(e[1])
        /\ todo' = todo \ {e}
        /\ found' = IF HasTag(e[1]) THEN found ELSE found \ {e}
        /\ UNCHANGED <<pc, doomed, deleted, stripped>>
  /\ UNCHANGED <<repo, past>>

\* Mutant of Surplus: an off-by-one in branches[b.options.keepBranches:].
SurplusByOne == {e \in found : Cardinality({f \in found : Precedes(f, e)}) + 1 >= Keep}

\* branches[b.options.keepBranches:], the entries after the first Keep.
Surplus == {e \in found : Cardinality({f \in found : Precedes(f, e)}) >= Keep}

\* identifyBranchesToDelete: the first Keep are kept.
Select ==
  /\ \/ pc = "select"
     \/ pc = "tags" /\ todo = {}
  /\ todo' = Surplus
  /\ pc' = "check"
  /\ UNCHANGED <<found, doomed, deleted, stripped>>
  /\ UNCHANGED <<repo, past>>

\* Mutant of Spared: open pull requests are always ignored.
neverSpared(b) == b \notin Branches

\* checkBranchToDelete finds an open pull request.
Spared(b) == ~IgnoreOpenPRs /\ b \in prs

CheckPRs(e) ==
  /\ pc = "check"
  /\ Turn(e)
  /\ \/ Faults /\ ~IgnoreOpenPRs /\ Fail
     \/ /\ todo' = todo \ {e}
        /\ doomed' = IF Spared(e[1]) THEN doomed ELSE doomed \cup {e}
        /\ UNCHANGED <<pc, found, deleted, stripped>>
  /\ UNCHANGED <<repo, past>>

\* Mutant of Checked: every listed branch loses its protection.
CheckedAll ==
  /\ pc = "check"
  /\ todo = {}
  /\ todo' = found
  /\ pc' = IF ReleaseMode THEN "unprotect" ELSE "delete"
  /\ UNCHANGED <<found, doomed, deleted, stripped>>
  /\ UNCHANGED <<repo, past>>

\* Nothing is deleted before everything is checked.
Checked ==
  /\ pc = "check"
  /\ todo = {}
  /\ todo' = doomed
  /\ pc' = IF ReleaseMode THEN "unprotect" ELSE "delete"
  /\ UNCHANGED <<found, doomed, deleted, stripped>>
  /\ UNCHANGED <<repo, past>>

\* removeBranchProtection.  There is no rule to get for a missing branch.
RemoveProtection(e) ==
  /\ pc = "unprotect"
  /\ Turn(e)
  /\ \/ /\ Faults \/ e[1] \notin exists
        /\ Fail
        /\ UNCHANGED protected
     \/ /\ e[1] \in exists
        /\ todo' = todo \ {e}
        /\ protected' = protected \ {e[1]}
        /\ stripped' = stripped \cup ({e[1]} \cap protected)
        /\ UNCHANGED <<pc, found, doomed, deleted>>
  /\ UNCHANGED <<exists, prs, tagged, past>>

ProtectionRemoved ==
  /\ pc = "unprotect"
  /\ todo = {}
  /\ todo' = doomed
  /\ pc' = "delete"
  /\ UNCHANGED <<found, doomed, deleted, stripped>>
  /\ UNCHANGED <<repo, past>>

\* Mutant of Delete: errors are ignored, and so is the branch.
DeleteIgnoringErrors(e) ==
  /\ pc = "delete"
  /\ Turn(e)
  /\ todo' = todo \ {e}
  /\ \/ UNCHANGED <<exists, deleted>>
     \/ exists' = exists \ {e[1]} /\ deleted' = deleted \cup {e[1]}
  /\ UNCHANGED <<pc, found, doomed, stripped>>
  /\ UNCHANGED <<protected, prs, tagged, past>>

\* DeleteRef.  GitHub refuses for a protected branch and for a missing one,
\* such as one deleted a moment ago under its other entry.
Delete(e) ==
  /\ pc = "delete"
  /\ Turn(e)
  /\ \/ /\ Faults \/ e[1] \notin exists \ protected
        /\ Fail
        /\ UNCHANGED exists
     \/ /\ e[1] \in exists \ protected
        /\ todo' = todo \ {e}
        /\ exists' = exists \ {e[1]}
        /\ deleted' = deleted \cup {e[1]}
        /\ UNCHANGED <<pc, found, doomed, stripped>>
  /\ UNCHANGED <<protected, prs, tagged, past>>

Deleted ==
  /\ pc = "delete"
  /\ todo = {}
  /\ pc' = "done"
  /\ UNCHANGED <<found, todo, doomed, deleted, stripped>>
  /\ UNCHANGED <<repo, past>>

-----------------------------------------------------------------------------
(* The repository, changed by others.                                      *)

Change == /\ changes < MaxChanges
          /\ changes' = changes + 1
          /\ UNCHANGED run

CreateBranch(b) == /\ Change
                   /\ b \notin exists \cup deleted
                   /\ exists' = exists \cup {b}
                   /\ UNCHANGED <<protected, prs, tagged, held, hadPR>>

\* Prow's branchprotector protects a release branch, or somebody does.
Protect(b) == /\ Change
              /\ b \in exists \ protected
              /\ protected' = protected \cup {b}
              /\ UNCHANGED <<exists, prs, tagged, held, hadPR>>

Unprotect(b) == /\ Change
                /\ b \in protected
                /\ protected' = protected \ {b}
                /\ UNCHANGED <<exists, prs, tagged, held, hadPR>>

OpenPR(b) == /\ Change
             /\ b \in exists \ prs
             /\ prs' = prs \cup {b}
             /\ hadPR' = hadPR \cup {b}
             /\ UNCHANGED <<exists, protected, tagged, held>>

ClosePR(b) == /\ Change
              /\ b \in prs
              /\ prs' = prs \ {b}
              /\ held' = held \ {b}
              /\ UNCHANGED <<exists, protected, tagged, hadPR>>

Tag(b) == /\ Change
          /\ b \in exists \ tagged
          /\ tagged' = tagged \cup {b}
          /\ UNCHANGED <<exists, protected, prs, held, hadPR>>

Finished == /\ pc \in {"done", "failed"}
            /\ UNCHANGED vars

Run == \/ ListUnprotected
       \/ ListProtected
       \/ Select
       \/ Checked
       \/ ProtectionRemoved
       \/ Deleted
       \/ \E e \in found : \/ CheckTag(e)
                           \/ CheckPRs(e)
                           \/ RemoveProtection(e)
                           \/ Delete(e)

Others == \E b \in Branches : \/ CreateBranch(b)
                              \/ Protect(b)
                              \/ Unprotect(b)
                              \/ OpenPR(b)
                              \/ ClosePR(b)
                              \/ Tag(b)

Next == Run \/ Others \/ Finished

Spec == Init /\ [][Next]_vars

-----------------------------------------------------------------------------
(* Properties.                                                             *)

\* a is a later version than b: majors and minors are numbers.
Newer(a, b) == IF a.major = b.major
               THEN NumberGreater(a.minor, b.minor)
               ELSE NumberGreater(a.major, b.major)

\* No branch is in the list twice, once by each listing.
ListedOnce == \A e, f \in found : e[1] = f[1] => e = f

\* Majors of as many digits as each other are in order as strings as well.
SameWidth == \A a, b \in Names(found) : Len(a.major) = Len(b.major)

\* Of the branches listed, and in release mode released, the newest Keep stay:
\* every branch deleted leaves that many newer ones behind, as long as majors
\* are of one width and no branch is listed twice (getMatchingBranches).
KeepsNewest ==
  ListedOnce /\ SameWidth =>
    \A b \in deleted : Cardinality({a \in Names(found) \ deleted : Newer(a, b)}) >= Keep

\* "It keeps the last N matching branches": whatever a run deletes, that many
\* of the branches it has listed stay.
KeepsN == deleted # {} => Cardinality(Names(found) \ deleted) >= Keep

\* A branch somebody has a pull request open for during the whole run is not
\* deleted, in whatever order other pull requests come and go.
HeldPRsKept == ~IgnoreOpenPRs => deleted \cap held = {}

\* Release mode deletes no branch that has not been released.
ReleasedOnly == ReleaseMode => deleted \subseteq tagged

\* A run that ends well has deleted all it should have: what is left of the
\* listed branches is among the newest Keep or has had a pull request.
CleanedUp ==
  pc = "done" /\ SameWidth =>
    \A b \in Names(found) \ (deleted \cup hadPR) :
      Cardinality({a \in Names(found) : Newer(a, b)}) < Keep

\* Only branches of the list to delete lose their protection, and when the
\* run ends well they are all gone.
StrippedDeleted == /\ stripped \subseteq Names(doomed)
                   /\ pc = "done" => stripped \subseteq deleted
=============================================================================
