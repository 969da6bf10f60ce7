------------------------ MODULE BranchCleanerProofs ------------------------
(***************************************************************************)
(* What the branch cleaner deletes, spares and leaves behind, for any      *)
(* branches, for any number of them to keep, and however often others      *)
(* change the repository while it runs.                                    *)
(***************************************************************************)
EXTENDS BranchCleaner, FiniteSetTheorems, TLAPS

\* How far the run has come: what it has chosen, what of that it has done.
Progress ==
  /\ pc \in {"start", "half", "tags", "select"} => doomed = {}
  /\ pc \in {"start", "half"} => todo = {}
  /\ pc \in {"start", "half", "tags", "select", "check", "unprotect"} => deleted = {}
  /\ pc \in {"unprotect", "delete"} => todo \subseteq doomed
  /\ deleted \subseteq Names(doomed)
  /\ stripped \subseteq Names(doomed)
  /\ pc = "delete" => \A e \in doomed \ todo : e[1] \in deleted
  /\ pc = "done" => Names(doomed) \subseteq deleted

\* A branch with a pull request open all the time has one now.
HeldOpen == held \subseteq prs /\ prs \subseteq hadPR

\* No branch to delete has had a pull request open all the time.
NoneHeld == ~IgnoreOpenPRs => Names(doomed) \cap held = {}

\* In release mode the branches still in question after the tags have one.
Released ==
  ReleaseMode =>
    /\ pc # "select"
    /\ pc = "tags" => Names(found \ todo) \subseteq tagged
    /\ pc = "check" => Names(todo) \subseteq tagged
    /\ Names(doomed) \subseteq tagged

\* The branches to delete are entries after the first Keep, all of them but
\* those that have had a pull request.
Chosen ==
  /\ doomed \subseteq Surplus
  /\ pc = "check" =>
       /\ todo \subseteq Surplus
       /\ \A e \in Surplus \ (todo \cup doomed) : e[1] \in hadPR
  /\ pc \in {"unprotect", "delete", "done"} =>
       \A e \in Surplus \ doomed : e[1] \in hadPR

IndInv == /\ TypeOK
          /\ Progress
          /\ HeldOpen
          /\ NoneHeld
          /\ Released
          /\ Chosen

-----------------------------------------------------------------------------
(* Steps of the run.                                                       *)

\* A call that fails ends the run and leaves what it was to work on alone.
LEMMA FailStep ==
  ASSUME IndInv, Fail, UNCHANGED <<repo, past>>
  PROVE  IndInv'
<1>. USE DEF IndInv, Fail, repo, past
<1>1. TypeOK'
  BY DEF TypeOK
<1>2. Progress' /\ HeldOpen' /\ NoneHeld' /\ Released'
  BY DEF Progress, HeldOpen, NoneHeld, Released, Names
<1>3. Chosen'
  BY DEF Chosen, Surplus, Precedes, Names
<1>. QED
  BY <1>1, <1>2, <1>3

\* GetBranches for the unprotected branches lists each of them once.
LEMMA ListUnprotectedStep ==
  ASSUME IndInv, ListUnprotected
  PROVE  IndInv'
<1>1. CASE Faults /\ Fail
  BY <1>1, FailStep DEF ListUnprotected
<1>2. CASE ~(Faults /\ Fail)
  <2>. USE <1>2 DEF IndInv, ListUnprotected, repo, past
  <2>1. TypeOK'
    BY DEF TypeOK, Entry, Progress
  <2>2. Progress' /\ HeldOpen' /\ NoneHeld' /\ Released'
    BY DEF Progress, HeldOpen, NoneHeld, Released, Names
  <2>3. Chosen'
    BY DEF Chosen, Progress, TypeOK, Names
  <2>. QED
    BY <2>1, <2>2, <2>3
<1>. QED
  BY <1>1, <1>2

\* The run goes on with a list that could be sorted.
LEMMA ListProtectedStep ==
  ASSUME IndInv, ListProtected
  PROVE  IndInv'
<1>1. CASE Fail
  BY <1>1, FailStep DEF ListProtected
<1>2. CASE ~Fail
  <2>. USE <1>2 DEF IndInv, ListProtected, repo, past
  <2>1. TypeOK'
    BY DEF TypeOK, Entry, Progress, Listed
  <2>2. Progress' /\ HeldOpen' /\ NoneHeld' /\ Released'
    BY DEF Progress, HeldOpen, NoneHeld, Released, Names, Listed
  <2>3. Chosen'
    BY DEF Chosen, Progress
  <2>. QED
    BY <2>1, <2>2, <2>3
<1>. QED
  BY <1>1, <1>2

\* A branch that passes the tags has one; the list only loses entries.
LEMMA CheckTagStep ==
  ASSUME IndInv, NEW e \in found, CheckTag(e)
  PROVE  IndInv'
<1>1. CASE Fail
  BY <1>1, FailStep DEF CheckTag
<1>2. CASE ~Fail
  <2>. USE <1>2 DEF IndInv, CheckTag, Turn, repo, past
  <2>1. TypeOK'
    BY DEF TypeOK, Progress
  <2>2. Progress' /\ HeldOpen' /\ NoneHeld'
    BY DEF Progress, HeldOpen, NoneHeld, Names
  <2>3. Released'
    BY DEF Released, Names, HasTag
  <2>4. Chosen'
    BY DEF Chosen, Progress, TypeOK, Names
  <2>. QED
    BY <2>1, <2>2, <2>3, <2>4
<1>. QED
  BY <1>1, <1>2

\* The entries after the first Keep are chosen.
LEMMA SelectStep ==
  ASSUME IndInv, Select
  PROVE  IndInv'
<1>. USE DEF IndInv, Select, repo, past
<1>1. Surplus \subseteq found /\ Surplus' = Surplus
  BY DEF Surplus, Precedes
<1>2. TypeOK'
  BY <1>1 DEF TypeOK
<1>3. Progress' /\ HeldOpen' /\ NoneHeld'
  BY DEF Progress, HeldOpen, NoneHeld, Names
<1>4. Released'
  BY <1>1 DEF Released, Progress, Names
<1>5. Chosen'
  BY <1>1 DEF Chosen, Progress
<1>. QED
  BY <1>2, <1>3, <1>4, <1>5

\* An entry is put on the list to delete unless a pull request is open.
LEMMA CheckPRsStep ==
  ASSUME IndInv, NEW e \in found, CheckPRs(e)
  PROVE  IndInv'
<1>1. CASE Faults /\ ~IgnoreOpenPRs /\ Fail
  BY <1>1, FailStep DEF CheckPRs
<1>2. CASE ~(Faults /\ ~IgnoreOpenPRs /\ Fail)
  <2>. USE <1>2 DEF IndInv, CheckPRs, Turn, repo, past
  <2>1. TypeOK'
    BY DEF TypeOK
  <2>2. Progress' /\ HeldOpen'
    BY DEF Progress, HeldOpen, Names
  <2>3. NoneHeld'
    BY DEF NoneHeld, HeldOpen, Spared, Names
  <2>4. Released'
    BY DEF Released, Names
  <2>5. Surplus' = Surplus
    BY DEF Surplus, Precedes
  <2>6. Chosen'
    BY <2>5 DEF Chosen, HeldOpen, Spared
  <2>. QED
    BY <2>1, <2>2, <2>3, <2>4, <2>6
<1>. QED
  BY <1>1, <1>2

\* With everything checked the deletions begin.
LEMMA CheckedStep ==
  ASSUME IndInv, Checked
  PROVE  IndInv'
<1>. USE DEF IndInv, Checked, repo, past
<1>1. TypeOK'
  BY DEF TypeOK
<1>2. Progress' /\ HeldOpen' /\ NoneHeld' /\ Released'
  BY DEF Progress, HeldOpen, NoneHeld, Released, Names
<1>3. Surplus' = Surplus
  BY DEF Surplus, Precedes
<1>4. Chosen'
  BY <1>3 DEF Chosen
<1>. QED
  BY <1>1, <1>2, <1>4

\* Only an entry of the list to delete loses its protection.
LEMMA RemoveProtectionStep ==
  ASSUME IndInv, NEW e \in found, RemoveProtection(e)
  PROVE  IndInv'
<1>1. CASE Fail /\ UNCHANGED protected
  BY <1>1, FailStep DEF RemoveProtection, repo
<1>2. CASE ~(Fail /\ UNCHANGED protected)
  <2>. USE <1>2 DEF IndInv, RemoveProtection, Turn, past
  <2>1. TypeOK'
    BY DEF TypeOK, Entry
  <2>2. Progress'
    BY DEF Progress, Names
  <2>3. HeldOpen' /\ NoneHeld' /\ Released'
    BY DEF HeldOpen, NoneHeld, Released, Names
  <2>4. Surplus' = Surplus
    BY DEF Surplus, Precedes
  <2>5. Chosen'
    BY <2>4 DEF Chosen
  <2>. QED
    BY <2>1, <2>2, <2>3, <2>5
<1>. QED
  BY <1>1, <1>2

\* The loop over the protections is followed by one over the branches.
LEMMA ProtectionRemovedStep ==
  ASSUME IndInv, ProtectionRemoved
  PROVE  IndInv'
<1>. USE DEF IndInv, ProtectionRemoved, repo, past
<1>1. TypeOK'
  BY DEF TypeOK
<1>2. Progress' /\ HeldOpen' /\ NoneHeld' /\ Released'
  BY DEF Progress, HeldOpen, NoneHeld, Released, Names
<1>3. Surplus' = Surplus
  BY DEF Surplus, Precedes
<1>4. Chosen'
  BY <1>3 DEF Chosen
<1>. QED
  BY <1>1, <1>2, <1>4

\* Only an entry of the list to delete is deleted.
LEMMA DeleteStep ==
  ASSUME IndInv, NEW e \in found, Delete(e)
  PROVE  IndInv'
<1>1. CASE Fail /\ UNCHANGED exists
  BY <1>1, FailStep DEF Delete, repo
<1>2. CASE ~(Fail /\ UNCHANGED exists)
  <2>. USE <1>2 DEF IndInv, Delete, Turn, past
  <2>1. TypeOK'
    BY DEF TypeOK, Entry
  <2>2. Progress'
    BY DEF Progress, Names
  <2>3. HeldOpen' /\ NoneHeld' /\ Released'
    BY DEF HeldOpen, NoneHeld, Released, Names
  <2>4. Surplus' = Surplus
    BY DEF Surplus, Precedes
  <2>5. Chosen'
    BY <2>4 DEF Chosen
  <2>. QED
    BY <2>1, <2>2, <2>3, <2>5
<1>. QED
  BY <1>1, <1>2

\* The run ends well when every entry to delete is handled.
LEMMA DeletedStep ==
  ASSUME IndInv, Deleted
  PROVE  IndInv'
<1>. USE DEF IndInv, Deleted, repo, past
<1>1. TypeOK'
  BY DEF TypeOK
<1>2. Progress' /\ HeldOpen' /\ NoneHeld' /\ Released'
  BY DEF Progress, HeldOpen, NoneHeld, Released, Names
<1>3. Surplus' = Surplus
  BY DEF Surplus, Precedes
<1>4. Chosen'
  BY <1>3 DEF Chosen
<1>. QED
  BY <1>1, <1>2, <1>4

-----------------------------------------------------------------------------
(* Steps of others.                                                        *)

\* Whatever others do to the repository: what the run has chosen so far has no
\* pull request open all the time, and its tags stay.
LEMMA OthersStep ==
  ASSUME IndInv, Others
  PROVE  IndInv'
<1>. PICK b \in Branches : \/ CreateBranch(b) \/ Protect(b) \/ Unprotect(b)
                         \/ OpenPR(b) \/ ClosePR(b) \/ Tag(b)
  BY DEF Others
<1>. USE DEF IndInv
<1>1. /\ UNCHANGED run
      /\ changes < MaxChanges /\ changes' = changes + 1
  BY DEF CreateBranch, Protect, Unprotect, OpenPR, ClosePR, Tag, Change
<1>2. /\ tagged \subseteq tagged'
      /\ held' \subseteq held
      /\ hadPR \subseteq hadPR'
  BY DEF CreateBranch, Protect, Unprotect, OpenPR, ClosePR, Tag
<1>3. TypeOK'
  <2>1. /\ exists' \subseteq Branches
        /\ protected' \subseteq exists'
        /\ prs' \subseteq Branches
        /\ tagged' \subseteq Branches
        /\ held' \subseteq hadPR'
        /\ hadPR' \subseteq Branches
    BY DEF TypeOK, CreateBranch, Protect, Unprotect, OpenPR, ClosePR, Tag
  <2>2. changes' \in 0 .. MaxChanges
    BY <1>1, CleanerAssumption DEF TypeOK
  <2>. QED
    BY <1>1, <2>1, <2>2 DEF TypeOK, run
<1>4. Progress'
  BY <1>1 DEF Progress, run, Names
<1>5. HeldOpen'
  BY DEF HeldOpen, CreateBranch, Protect, Unprotect, OpenPR, ClosePR, Tag
<1>6. NoneHeld' /\ Released'
  BY <1>1, <1>2 DEF NoneHeld, Released, run, Names
<1>7. Surplus' = Surplus
  BY <1>1 DEF Surplus, Precedes, run
<1>8. Chosen'
  BY <1>1, <1>2, <1>7 DEF Chosen, run
<1>. QED
  BY <1>3, <1>4, <1>5, <1>6, <1>8

-----------------------------------------------------------------------------
(* The invariant.                                                          *)

\* A run starts with nothing listed, chosen or deleted.
LEMMA Initially == Init => IndInv
<1>. SUFFICES ASSUME Init PROVE IndInv
  OBVIOUS
<1>1. TypeOK
  BY CleanerAssumption DEF Init, TypeOK
<1>2. Progress /\ HeldOpen /\ NoneHeld /\ Released /\ Chosen
  BY DEF Init, Progress, HeldOpen, NoneHeld, Released, Chosen, Names
<1>. QED
  BY <1>1, <1>2 DEF IndInv

\* Every step of the run and of others keeps the invariant.
LEMMA Inductive == IndInv /\ [Next]_vars => IndInv'
<1>. SUFFICES ASSUME IndInv, [Next]_vars PROVE IndInv'
  OBVIOUS
<1>1. CASE ListUnprotected \/ ListProtected \/ Select \/ Checked
             \/ ProtectionRemoved \/ Deleted
  BY <1>1, ListUnprotectedStep, ListProtectedStep, SelectStep, CheckedStep,
     ProtectionRemovedStep, DeletedStep
<1>2. CASE \E e \in found : \/ CheckTag(e) \/ CheckPRs(e)
                            \/ RemoveProtection(e) \/ Delete(e)
  BY <1>2, CheckTagStep, CheckPRsStep, RemoveProtectionStep, DeleteStep
<1>3. CASE Others
  BY <1>3, OthersStep
<1>4. CASE UNCHANGED vars
  <2>. USE <1>4 DEF vars, repo, run, past, IndInv
  <2>1. TypeOK' /\ Progress' /\ HeldOpen' /\ NoneHeld' /\ Released'
    BY DEF TypeOK, Progress, HeldOpen, NoneHeld, Released, Names
  <2>2. Chosen'
    BY DEF Chosen, Surplus, Precedes, Names
  <2>. QED
    BY <2>1, <2>2
<1>. QED
  BY <1>1, <1>2, <1>3, <1>4 DEF Next, Run, Finished

\* What the theorems below rest on holds in every run.
THEOREM Invariance == Spec => []IndInv
<1>. QED
  BY Initially, Inductive, PTL DEF Spec

-----------------------------------------------------------------------------
(* The order of names.                                                     *)

\* A character of a string is a number.
LEMMA Character ==
  ASSUME NEW s \in Seq(Nat), NEW i \in 1 .. Len(s)
  PROVE  s[i] \in Nat
<1>. QED
  OBVIOUS

\* Two strings that differ, differ first somewhere or one of them ends first.
LEMMA StringsTotal ==
  ASSUME NEW s \in Seq(Nat), NEW t \in Seq(Nat)
  PROVE  s = t \/ StringLess(s, t) \/ StringLess(t, s)
<1>. DEFINE D == {k \in 1 .. Len(s) : k <= Len(t) /\ s[k] # t[k]}
            U == {1 .. k : k \in D}
            R == StrictSubsetOrdering(1 .. Len(s))
<1>0. Len(s) \in Nat /\ Len(t) \in Nat
  OBVIOUS
<1>1. CASE D = {}
  <2>1. \A k \in 1 .. Len(s) : k <= Len(t) => s[k] = t[k]
    BY <1>1
  <2>2. CASE Len(s) = Len(t)
    <3>1. s = [k \in 1 .. Len(s) |-> s[k]] /\ t = [k \in 1 .. Len(t) |-> t[k]]
      OBVIOUS
    <3>2. \A k \in 1 .. Len(s) : s[k] = t[k]
      BY <1>0, <2>1, <2>2
    <3>. QED
      BY <2>2, <3>1, <3>2
  <2>3. CASE Len(s) < Len(t)
    <3>1. Len(s) \in 0 .. Len(s) /\ \A k \in 1 .. Len(s) : s[k] = t[k]
      BY <1>0, <2>1, <2>3
    <3>. QED
      BY <2>3, <3>1 DEF StringLess
  <2>4. CASE Len(t) < Len(s)
    <3>1. Len(t) \in 0 .. Len(t) /\ \A k \in 1 .. Len(t) : t[k] = s[k]
      BY <1>0, <2>1, <2>4
    <3>. QED
      BY <2>4, <3>1 DEF StringLess
  <2>. QED
    BY <1>0, <2>2, <2>3, <2>4
<1>2. CASE D # {}
  <2>1. IsFiniteSet(1 .. Len(s))
    BY <1>0, FS_Interval
  <2>2. IsWellFoundedOn(R, SUBSET (1 .. Len(s)))
    BY <2>1, FS_StrictSubsetOrderingWellFounded, FS_FiniteSubsetsOfFinite
  <2>3. U \subseteq SUBSET (1 .. Len(s)) /\ U # {}
    <3>1. \A k \in D : 1 .. k \subseteq 1 .. Len(s)
      BY <1>0
    <3>. QED
      BY <1>2, <3>1
  <2>4. PICK x \in U : \A y \in U : <<y, x>> \notin R
    <3>. HIDE DEF U, R
    <3>. QED
      BY <2>2, <2>3, WFMin
  <2>5. PICK k \in D : x = 1 .. k
    BY <2>4
  <2>6. ASSUME NEW l \in D, l < k PROVE FALSE
    <3>1. 1 .. l \subseteq 1 .. k /\ 1 .. l # 1 .. k
      <4>1. k \in 1 .. k /\ k \notin 1 .. l
        BY <2>6
      <4>. QED
        BY <2>6, <4>1
    <3>2. 1 .. l \in U
      OBVIOUS
    <3>3. 1 .. l \in SUBSET (1 .. Len(s)) /\ x \in SUBSET (1 .. Len(s))
      <4>. HIDE DEF U
      <4>. QED
        BY <2>3, <2>4, <3>2
    <3>4. <<1 .. l, x>> \in R
      BY <2>5, <3>1, <3>3 DEF StrictSubsetOrdering
    <3>. QED
      BY <2>4, <3>2, <3>4
  <2>7. /\ k \in 1 .. Len(s) /\ k <= Len(t) /\ s[k] # t[k]
        /\ k - 1 \in Nat /\ (k - 1) + 1 = k
        /\ s[k] \in Nat /\ t[k] \in Nat
    BY <1>0
  <2>8. \A l \in 1 .. (k - 1) : s[l] = t[l]
    <3>. SUFFICES ASSUME NEW l \in 1 .. (k - 1), s[l] # t[l] PROVE FALSE
      OBVIOUS
    <3>. HIDE DEF D, U, R
    <3>1. l \in 1 .. Len(s) /\ l <= Len(t) /\ l < k
      BY <1>0, <2>7
    <3>2. l \in D
      BY <3>1 DEF D
    <3>. QED
      BY <2>6, <3>1, <3>2
  <2>9. CASE s[k] < t[k]
    <3>1. k - 1 \in 0 .. Len(s) /\ k - 1 < Len(t)
      BY <1>0, <2>7
    <3>. QED
      BY <2>7, <2>8, <2>9, <3>1 DEF StringLess
  <2>10. CASE t[k] < s[k]
    <3>1. k - 1 \in 0 .. Len(t) /\ k - 1 < Len(s)
      BY <1>0, <2>7
    <3>. QED
      BY <2>7, <2>8, <2>10, <3>1 DEF StringLess
  <2>. QED
    BY <2>7, <2>9, <2>10
<1>. QED
  BY <1>1, <1>2

\* No string is smaller than itself.
LEMMA StringsIrreflexive ==
  ASSUME NEW s \in Seq(Nat)
  PROVE  ~StringLess(s, s)
<1>. SUFFICES ASSUME NEW k \in 0 .. Len(s), k < Len(s), s[k + 1] < s[k + 1]
              PROVE  FALSE
  BY DEF StringLess
<1>1. s[k + 1] \in Nat
  OBVIOUS
<1>. QED
  BY <1>1

\* Where one string falls behind a second and the second behind a third, the
\* earlier place decides.
LEMMA StringsTransitive ==
  ASSUME NEW s \in Seq(Nat), NEW t \in Seq(Nat), NEW u \in Seq(Nat),
         StringLess(s, t), StringLess(t, u)
  PROVE  StringLess(s, u)
<1>1. PICK k \in 0 .. Len(s) : /\ k < Len(t)
                               /\ \A i \in 1 .. k : s[i] = t[i]
                               /\ k = Len(s) \/ s[k + 1] < t[k + 1]
  BY DEF StringLess
<1>2. PICK l \in 0 .. Len(t) : /\ l < Len(u)
                               /\ \A i \in 1 .. l : t[i] = u[i]
                               /\ l = Len(t) \/ t[l + 1] < u[l + 1]
  BY DEF StringLess
<1>3. CASE k < l
  <2>1. k < Len(u) /\ t[k + 1] = u[k + 1]
    BY <1>1, <1>2, <1>3
  <2>2. \A i \in 1 .. k : s[i] = u[i]
    BY <1>1, <1>2, <1>3
  <2>. QED
    BY <1>1, <2>1, <2>2 DEF StringLess
<1>4. CASE l < k
  <2>1. l \in 0 .. Len(s) /\ l # Len(t) /\ s[l + 1] = t[l + 1]
    BY <1>1, <1>2, <1>4
  <2>2. \A i \in 1 .. l : s[i] = u[i]
    BY <1>1, <1>2, <1>4
  <2>3. s[l + 1] < u[l + 1]
    BY <1>2, <2>1
  <2>. QED
    BY <1>2, <2>1, <2>2, <2>3 DEF StringLess
<1>5. CASE k = l
  <2>1. k # Len(t) /\ t[k + 1] < u[k + 1]
    BY <1>1, <1>2, <1>5
  <2>2. \A i \in 1 .. k : s[i] = u[i]
    BY <1>1, <1>2, <1>5
  <2>3. k = Len(s) \/ s[k + 1] < u[k + 1]
    <3>1. CASE k = Len(s)
      BY <3>1
    <3>2. CASE k # Len(s)
      <4>. DEFINE n == k + 1
      <4>1. n \in 1 .. Len(s) /\ n \in 1 .. Len(t) /\ n \in 1 .. Len(u)
        BY <1>1, <1>2, <1>5, <3>2
      <4>2. s[n] < t[n] /\ t[n] < u[n]
        BY <1>1, <2>1, <3>2
      <4>. HIDE DEF n
      <4>3. s[n] \in Nat /\ t[n] \in Nat /\ u[n] \in Nat
        BY <4>1, Character
      <4>4. s[n] < u[n]
        BY <4>2, <4>3
      <4>. QED
        BY <4>4 DEF n
    <3>. QED
      BY <3>1, <3>2
  <2>. QED
    BY <1>1, <1>2, <1>5, <2>2, <2>3 DEF StringLess
<1>. QED
  BY <1>1, <1>2, <1>3, <1>4, <1>5

\* So the comparison of getMatchingBranches is a total order of names.
LEMMA SortOrder ==
  ASSUME NEW a \in Name, NEW b \in Name, NEW c \in Name
  PROVE  /\ a = b \/ SortsBefore(a, b) \/ SortsBefore(b, a)
         /\ ~SortsBefore(a, a)
         /\ SortsBefore(a, b) /\ SortsBefore(b, c) => SortsBefore(a, c)
<1>. USE DEF Name
<1>1. /\ Len(a.minor) \in Nat /\ Len(b.minor) \in Nat /\ Len(c.minor) \in Nat
  OBVIOUS
<1>2. a = b \/ SortsBefore(a, b) \/ SortsBefore(b, a)
  <2>1. CASE a.major # b.major
    BY <2>1, StringsTotal DEF SortsBefore
  <2>2. CASE a.major = b.major /\ a.minor # b.minor
    <3>1. StringLess(a.minor, b.minor) \/ StringLess(b.minor, a.minor)
      BY <2>2, StringsTotal
    <3>. QED
      BY <1>1, <2>2, <3>1 DEF SortsBefore, NumberGreater
  <2>3. CASE a.major = b.major /\ a.minor = b.minor
    <3>1. /\ a = [major |-> a.major, minor |-> a.minor]
          /\ b = [major |-> b.major, minor |-> b.minor]
      OBVIOUS
    <3>. QED
      BY <2>3, <3>1
  <2>. QED
    BY <2>1, <2>2, <2>3
<1>3. ~SortsBefore(a, a)
  BY <1>1, StringsIrreflexive DEF SortsBefore, NumberGreater
<1>4. ASSUME SortsBefore(a, b), SortsBefore(b, c) PROVE SortsBefore(a, c)
  <2>1. CASE a.major = b.major /\ b.major = c.major
    <3>1. StringLess(b.minor, a.minor) /\ StringLess(c.minor, b.minor)
            => StringLess(c.minor, a.minor)
      BY StringsTransitive
    <3>. QED
      BY <1>1, <1>4, <2>1, <3>1 DEF SortsBefore, NumberGreater
  <2>2. CASE a.major # b.major /\ b.major = c.major
    BY <1>4, <2>2 DEF SortsBefore
  <2>3. CASE a.major = b.major /\ b.major # c.major
    BY <1>4, <2>3 DEF SortsBefore
  <2>4. CASE a.major # b.major /\ b.major # c.major
    <3>1. StringLess(c.major, a.major)
      BY <1>4, <2>4, StringsTransitive DEF SortsBefore
    <3>2. a.major # c.major
      BY <3>1, StringsIrreflexive
    <3>. QED
      BY <3>1, <3>2 DEF SortsBefore
  <2>. QED
    BY <2>1, <2>2, <2>3, <2>4
<1>. QED
  BY <1>2, <1>3, <1>4

\* With majors of one width the order is that of the versions.
LEMMA VersionOrder ==
  ASSUME NEW a \in Name, NEW b \in Name, Len(a.major) = Len(b.major)
  PROVE  Newer(a, b) <=> SortsBefore(a, b)
<1>1. Len(a.major) \in Nat /\ Len(b.major) \in Nat
  BY DEF Name
<1>. QED
  BY <1>1 DEF Newer, SortsBefore, NumberGreater

-----------------------------------------------------------------------------
(* The order of the list.                                                  *)

\* The entries that come before e.
Before(e) == {f \in found : Precedes(f, e)}

\* The list is finite, and so are its parts.
LEMMA FiniteList ==
  ASSUME TypeOK
  PROVE  /\ IsFiniteSet(found)
         /\ \A S \in SUBSET found : IsFiniteSet(S)
<1>1. IsFiniteSet(Branches)
  BY BranchesAssumption
<1>2. IsFiniteSet({1, 2})
  <2>1. IsFiniteSet({1})
    BY FS_Singleton
  <2>2. {1, 2} = {1} \cup {2}
    OBVIOUS
  <2>. QED
    BY <2>1, <2>2, FS_AddElement
<1>3. IsFiniteSet(Entry)
  BY <1>1, <1>2, FS_Product DEF Entry
<1>4. IsFiniteSet(found)
  BY <1>3, FS_Subset DEF TypeOK
<1>. QED
  BY <1>4, FS_Subset

\* The order is total, and an entry before another has fewer before it.
LEMMA ListOrder ==
  ASSUME TypeOK, NEW e \in found, NEW f \in found
  PROVE  /\ e[1] \in Name
         /\ e = f \/ Precedes(e, f) \/ Precedes(f, e)
         /\ Precedes(f, e) => Before(f) \subseteq Before(e) /\ Before(f) # Before(e)
<1>1. \A g \in found : g = <<g[1], g[2]>> /\ g[1] \in Name /\ g[2] \in {1, 2}
  BY BranchesAssumption DEF TypeOK, Entry
<1>2. e = f \/ Precedes(e, f) \/ Precedes(f, e)
  <2>1. CASE e[1] = f[1]
    BY <1>1, <2>1 DEF Precedes
  <2>2. CASE e[1] # f[1]
    BY <1>1, <2>2, SortOrder DEF Precedes
  <2>. QED
    BY <2>1, <2>2
<1>3. ~Precedes(f, f)
  BY <1>1, SortOrder DEF Precedes
<1>4. ASSUME Precedes(f, e), NEW g \in found, Precedes(g, f) PROVE Precedes(g, e)
  <2>1. /\ SortsBefore(g[1], f[1]) /\ SortsBefore(f[1], e[1]) => SortsBefore(g[1], e[1])
        /\ e[2] \in Int /\ f[2] \in Int /\ g[2] \in Int
    BY <1>1, SortOrder
  <2>. QED
    BY <1>4, <2>1 DEF Precedes
<1>. QED
  BY <1>1, <1>2, <1>3, <1>4 DEF Before

\* A set of entries has a first one.
LEMMA FirstOne ==
  ASSUME TypeOK, NEW S \in SUBSET found, S # {}
  PROVE  \E e \in S : \A f \in S : ~Precedes(f, e)
<1>. DEFINE T == {Before(e) : e \in S}
            R == StrictSubsetOrdering(found)
<1>1. IsWellFoundedOn(R, SUBSET found)
  BY FiniteList, FS_StrictSubsetOrderingWellFounded, FS_FiniteSubsetsOfFinite
<1>2. T \subseteq SUBSET found /\ T # {}
  BY DEF Before
<1>3. PICK x \in T : \A y \in T : <<y, x>> \notin R
  <2>. HIDE DEF T, R
  <2>. QED
    BY <1>1, <1>2, WFMin
<1>4. PICK e \in S : x = Before(e)
  BY <1>3
<1>5. ASSUME NEW f \in S, Precedes(f, e) PROVE FALSE
  <2>1. Before(f) \subseteq Before(e) /\ Before(f) # Before(e)
    BY <1>5, ListOrder
  <2>2. <<Before(f), Before(e)>> \in R
    BY <2>1 DEF StrictSubsetOrdering, Before
  <2>. QED
    BY <1>3, <1>4, <2>2
<1>. QED
  BY <1>5

-----------------------------------------------------------------------------
(* What follows.                                                           *)

\* The state of the cleaner keeps its form, however it is interleaved with
\* changes by others.
THEOREM TypeCorrect == Spec => []TypeOK
<1>1. IndInv => TypeOK
  BY DEF IndInv
<1>. QED
  BY <1>1, Invariance, PTL

\* checkBranchToDelete spares a branch with an open pull request: one that has
\* had one all the time is not deleted, although the pull requests are looked
\* at one branch after the other and long before the deletions.
THEOREM HeldPRsAreKept == Spec => []HeldPRsKept
<1>1. IndInv => HeldPRsKept
  BY DEF IndInv, Progress, NoneHeld, HeldPRsKept
<1>. QED
  BY <1>1, Invariance, PTL

\* identifyBranchesWithReleaseTags: no branch is deleted before its release.
THEOREM OnlyReleasedDeleted == Spec => []ReleasedOnly
<1>1. IndInv => ReleasedOnly
  BY DEF IndInv, Progress, Released, ReleasedOnly
<1>. QED
  BY <1>1, Invariance, PTL

\* removeBranchProtection and DeleteRef work through the same list: no branch
\* stays behind without its protection when the run ends well.
THEOREM StrippedAreDeleted == Spec => []StrippedDeleted
<1>1. IndInv => StrippedDeleted
  BY DEF IndInv, Progress, StrippedDeleted
<1>. QED
  BY <1>1, Invariance, PTL

\* A run that ends well leaves no branch to clean up: what it has left of the
\* list is among the newest or has had a pull request, whether or not a branch
\* was listed twice.
THEOREM CleanupComplete == Spec => []CleanedUp
<1>1. ASSUME IndInv, pc = "done", SameWidth, NEW b \in Names(found) \ (deleted \cup hadPR)
      PROVE  Cardinality({a \in Names(found) : Newer(a, b)}) < Keep
  <2>. TypeOK
    BY <1>1 DEF IndInv
  <2>1. PICK e \in found : e[1] = b
    BY DEF Names
  <2>2. e \notin Surplus
    BY <1>1, <2>1 DEF IndInv, Progress, Chosen, Names
  <2>3. Cardinality(Before(e)) < Keep
    <3>1. Cardinality(Before(e)) \in Nat
      BY FiniteList, FS_CardinalityType DEF Before
    <3>. QED
      BY <2>2, <3>1, CleanerAssumption DEF Surplus, Before
  <2>. DEFINE A == {a \in Names(found) : Newer(a, b)}
              g == [a \in A |-> CHOOSE f \in found : f[1] = a]
  <2>4. \A a \in A : g[a] \in found /\ g[a][1] = a
    BY DEF Names
  <2>5. \A a \in A : SortsBefore(a, b)
    <3>. TAKE a \in A
    <3>1. a \in Name /\ b \in Name
      BY <2>1, <2>4, ListOrder
    <3>2. Len(a.major) = Len(b.major)
      BY <1>1 DEF SameWidth
    <3>. QED
      BY <3>1, <3>2, VersionOrder
  <2>6. g \in Injection(A, Before(e))
    BY <2>1, <2>4, <2>5 DEF Injection, IsInjective, Before, Precedes
  <2>7. Cardinality(A) <= Cardinality(Before(e)) /\ IsFiniteSet(A)
    <3>. HIDE DEF A, g
    <3>. QED
      BY <2>6, FiniteList, FS_Injection DEF Before
  <2>8. Cardinality(A) \in Nat /\ Cardinality(Before(e)) \in Nat
    BY <2>7, FiniteList, FS_CardinalityType DEF Before
  <2>. HIDE DEF A, g
  <2>9. Cardinality(A) < Keep
    BY <2>3, <2>7, <2>8, CleanerAssumption
  <2>. QED
    BY <2>9 DEF A
<1>2. IndInv => CleanedUp
  BY <1>1 DEF CleanedUp
<1>. QED
  BY <1>2, Invariance, PTL

\* branches[b.options.keepBranches:]: every deleted branch has Keep newer ones
\* of the list that are still there.  The theorem says so of lists on which the
\* order of getMatchingBranches is that of versions and no branch takes two of
\* the Keep places; on others the code does not keep them.
THEOREM NewestAreKept == Spec => []KeepsNewest
<1>1. ASSUME IndInv, ListedOnce, SameWidth, NEW b \in deleted
      PROVE  Cardinality({a \in Names(found) \ deleted : Newer(a, b)}) >= Keep
  <2>. TypeOK
    BY <1>1 DEF IndInv
  <2>0. \A f, h \in found : f[1] = h[1] => f = h
    BY <1>1 DEF ListedOnce
  <2>1. PICK e \in doomed : e[1] = b
    BY <1>1 DEF IndInv, Progress, Names
  <2>2. doomed \subseteq Surplus /\ Surplus \subseteq found
    BY <1>1 DEF IndInv, Chosen, Surplus
  <2>3. PICK m \in Surplus : \A f \in Surplus : ~Precedes(f, m)
    BY <2>1, <2>2, FirstOne
  <2>4. Cardinality(Before(m)) >= Keep
    BY <2>3 DEF Surplus, Before
  <2>5. \A f \in Before(m) : f \in found /\ f \notin Surplus
    BY <2>3 DEF Before
  <2>6. \A f \in Before(m) : f[1] \notin deleted
    BY <1>1, <2>0, <2>2, <2>5 DEF IndInv, Progress, Names
  <2>7. \A f \in Before(m) : Newer(f[1], b)
    <3>. TAKE f \in Before(m)
    <3>1. f \in Before(e)
      <4>1. m = e \/ Precedes(m, e)
        BY <2>1, <2>2, <2>3, ListOrder
      <4>. QED
        BY <2>1, <2>2, <2>3, <4>1, ListOrder
    <3>2. f[1] # e[1]
      BY <2>0, <2>1, <2>2, <2>5
    <3>3. SortsBefore(f[1], e[1])
      BY <3>1, <3>2 DEF Before, Precedes
    <3>4. f[1] \in Name /\ e[1] \in Name
      BY <2>1, <2>2, <2>5, ListOrder
    <3>5. Len(f[1].major) = Len(e[1].major)
      BY <1>1, <2>1, <2>2, <2>5 DEF SameWidth, Names
    <3>. QED
      BY <2>1, <3>3, <3>4, <3>5, VersionOrder
  <2>. DEFINE A == {a \in Names(found) \ deleted : Newer(a, b)}
              g == [f \in Before(m) |-> f[1]]
  <2>8. g \in Injection(Before(m), A)
    BY <2>0, <2>5, <2>6, <2>7 DEF Injection, IsInjective, Names
  <2>9. IsFiniteSet(A)
    <3>1. A \subseteq Branches
      BY DEF TypeOK, Entry, Names
    <3>. HIDE DEF A
    <3>. QED
      BY <3>1, BranchesAssumption, FS_Subset
  <2>10. /\ Cardinality(Before(m)) <= Cardinality(A)
         /\ Cardinality(A) \in Nat /\ Cardinality(Before(m)) \in Nat
    <3>. HIDE DEF A, g
    <3>1. IsFiniteSet(Before(m))
      BY FiniteList DEF Before
    <3>. QED
      BY <2>8, <2>9, <3>1, FS_Injection, FS_CardinalityType
  <2>. HIDE DEF A, g
  <2>11. Cardinality(A) >= Keep
    BY <2>4, <2>10, CleanerAssumption
  <2>. QED
    BY <2>11 DEF A
<1>2. IndInv => KeepsNewest
  BY <1>1 DEF KeepsNewest
<1>. QED
  BY <1>2, Invariance, PTL
=============================================================================
