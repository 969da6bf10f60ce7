------------------------ MODULE AliasesBumperProofs ------------------------
(***************************************************************************)
(* What the bumper proposes and which pull requests it closes, for any     *)
(* number of overlapping jobs, configurations, aliases and logins, and     *)
(* whatever people do meanwhile.                                           *)
(***************************************************************************)
EXTENDS AliasesBumper, FiniteSetTheorems, SequenceTheorems, TLAPS

\* A configuration vouches for changes: who is added to an alias is on its team,
\* and who is removed is not.
Vouched(c, ch) ==
  \A a \in DOMAIN ch : /\ a \in DOMAIN localAliases[c]
                       /\ ch[a].add \subseteq localAliases[c][a]
                       /\ ch[a].remove \cap localAliases[c][a] = {}

\* A file that differs from an older one by what a configuration vouches for.
Justified(c, old, new) ==
  /\ DOMAIN new = DOMAIN old
  /\ \A a \in DOMAIN new, l \in DOMAIN Norm :
       /\ new[a][l] > old[a][l] => l \in orgUsers(Configs[c])
       /\ new[a][l] < old[a][l] => l \notin localAliases[c][a]

\* What a run holds at each of its steps.
RunOK(r) ==
  /\ DOMAIN r = DOMAIN Idle
  /\ r.pc \in {"idle", "compare", "write", "push", "list", "create", "close"}
  /\ r.pc = "idle" => r = Idle
  /\ r.pc \in {"compare", "write", "push"} => r.org \in Accepted
  /\ IsChanges(r.changes)
  /\ IsFile(r.base) /\ IsFile(r.new)
  /\ r.todo \subseteq Nat \ {0} /\ IsFiniteSet(r.todo)
  /\ r.pc = "write" => Vouched(r.org, r.changes)
  /\ r.pc = "push" => Justified(r.org, r.base, r.new)

AllRuns == /\ DOMAIN runs = Bumpers
           /\ \A b \in Bumpers : RunOK(runs[b])

\* What runs and people share.
World == /\ org \in Accepted
         /\ IsFile(file) /\ IsFile(branch.base) /\ IsFile(branch.new)
         /\ due \subseteq Bumpers \ {Periodic}
         /\ events \in 0 .. MaxEvents
         /\ faults \in 0 .. MaxFaults

\* Open pull requests have numbers of their own.
Numbered == /\ prs \in Seq(PR)
            /\ \A i, j \in DOMAIN prs : prs[i].number = prs[j].number => i = j

\* The newest pull request to the default branch is the last one in the list.
NewestLast ==
  /\ newest \in Nat
  /\ newest # 0 =>
       \E i \in toDefault(prs) : /\ prs[i].number = newest
                                 /\ \A j \in toDefault(prs) : j <= i

\* No run is going to close it.
NewestSpared == /\ replaced = TRUE
                /\ \A b \in Bumpers : newest \notin runs[b].todo

IndInv == World /\ AllRuns /\ Numbered /\ NewestLast /\ NewestSpared

-----------------------------------------------------------------------------
(* Configurations and files.                                               *)

\* A configuration peribolos-checkconfig accepts gives no alias a member from
\* outside the organisation: it looks at the same users of the same teams that
\* aliases are built from.
LEMMA AliasesInOrg ==
  ASSUME NEW c \in Accepted, NEW a \in DOMAIN localAliases[c]
  PROVE  localAliases[c][a] \subseteq orgUsers(Configs[c])
<1>. DEFINE C == Configs[c]
            users(p) == normalize(C.teams[p].members \cup C.teams[p].maintainers)
            paths == {p \in DOMAIN C.teams : users(p) # {}}
<1>1. \A p \in DOMAIN C.teams : users(p) \subseteq orgUsers(C)
  BY DEF Accepted, checkOrg, TeamsInOrg, teamUsers
<1>2. localAliases[c] = addMembersFromTeams(C)
  BY DEF localAliases, Accepted
<1>3. localAliases[c][a] = UNION {users(p) : p \in {q \in paths : aliasOf(q) = a}}
  BY <1>2 DEF addMembersFromTeams
<1>. QED
  BY <1>1, <1>3

\* Logins are compared in their normal form.
LEMMA MembersNormal ==
  ASSUME NEW list
  PROVE  membersOf(list) \subseteq DOMAIN Norm
<1>. QED
  BY PeribolosAssumption DEF membersOf

\* What a run has when it holds nothing.
LEMMA IdleOK == IsFile(NoFile) /\ IsChanges(NoFile) /\ RunOK(Idle)
<1>1. IsFile(NoFile) /\ IsChanges(NoFile)
  BY DEF IsFile, IsChanges, NoFile
<1>2. IsFiniteSet({})
  BY FS_EmptySet
<1>. QED
  BY <1>1, <1>2 DEF RunOK, Idle

\* The changes computed are vouched for by the configuration they come from.
LEMMA ChangesVouched ==
  ASSUME NEW c \in Accepted, NEW f, IsFile(f)
  PROVE  LET ch == calculateAliasChanges(localAliases[c], f)
         IN  IsChanges(ch) /\ Vouched(c, ch)
<1>. DEFINE local == localAliases[c]
            differ == {a \in DOMAIN f \cap DOMAIN local : membersOf(f[a]) # local[a]}
            ch == calculateAliasChanges(local, f)
<1>1. DOMAIN ch = differ
  BY DEF calculateAliasChanges
<1>2. \A a \in differ : /\ ch[a] = [add    |-> local[a] \ membersOf(f[a]),
                                    remove |-> membersOf(f[a]) \ local[a]]
  BY DEF calculateAliasChanges
<1>3. \A a \in differ : local[a] \subseteq DOMAIN Norm
  BY BumperAssumption DEF Accepted, localAliases
<1>. HIDE DEF ch
<1>4. ASSUME NEW a \in differ
      PROVE  ch[a] \in [add : SUBSET DOMAIN Norm, remove : SUBSET DOMAIN Norm]
  <2>. DEFINE X == local[a] \ membersOf(f[a])
              Y == membersOf(f[a]) \ local[a]
  <2>1. X \in SUBSET DOMAIN Norm /\ Y \in SUBSET DOMAIN Norm
    BY <1>3, MembersNormal
  <2>2. ch[a] = [add |-> X, remove |-> Y]
    BY <1>2
  <2>. HIDE DEF X, Y
  <2>. QED
    BY <2>1, <2>2
<1>5. IsChanges(ch)
  BY <1>1, <1>4 DEF IsChanges, IsFile
<1>6. Vouched(c, ch)
  <2>. SUFFICES ASSUME NEW a \in differ
                PROVE  /\ a \in DOMAIN local
                       /\ ch[a].add \subseteq local[a]
                       /\ ch[a].remove \cap local[a] = {}
    BY <1>1 DEF Vouched
  <2>. DEFINE X == local[a] \ membersOf(f[a])
              Y == membersOf(f[a]) \ local[a]
  <2>1. ch[a] = [add |-> X, remove |-> Y]
    BY <1>2
  <2>2. ch[a].add = X /\ ch[a].remove = Y
    <3>. HIDE DEF X, Y
    <3>. QED
      BY <2>1
  <2>3. X \subseteq local[a] /\ Y \cap local[a] = {}
    OBVIOUS
  <2>4. a \in DOMAIN local
    OBVIOUS
  <2>. HIDE DEF X, Y, local
  <2>. QED
    BY <2>2, <2>3, <2>4
<1>. QED
  BY <1>5, <1>6 DEF ch

\* Applied to any file, not only the one they were computed for, such changes
\* are justified.
LEMMA WrittenJustified ==
  ASSUME NEW c \in Accepted, NEW f, IsFile(f), NEW ch, IsChanges(ch), Vouched(c, ch)
  PROVE  IsFile(writeChanges(f, ch)) /\ Justified(c, f, writeChanges(f, ch))
<1>. DEFINE new == writeChanges(f, ch)
<1>1. DOMAIN new = DOMAIN f
  BY DEF writeChanges
<1>2. ASSUME NEW a \in DOMAIN f, NEW l \in DOMAIN Norm
      PROVE  /\ f[a][l] \in Nat
             /\ new[a][l] = IF a \in DOMAIN ch /\ l \in ch[a].remove
                              THEN 0
                              ELSE f[a][l] + IF a \in DOMAIN ch /\ l \in ch[a].add THEN 1 ELSE 0
  BY DEF IsFile, List, writeChanges
<1>3. ASSUME NEW a \in DOMAIN f PROVE new[a] \in List
  <2>1. new[a] = [l \in DOMAIN Norm |-> new[a][l]]
    BY DEF writeChanges
  <2>2. \A l \in DOMAIN Norm : new[a][l] \in Nat
    <3>. HIDE DEF new
    <3>. QED
      BY <1>2
  <2>. HIDE DEF new
  <2>. QED
    BY <2>1, <2>2 DEF List
<1>. HIDE DEF new
<1>4. IsFile(new)
  BY <1>1, <1>3 DEF IsFile
<1>5. ASSUME NEW a \in DOMAIN new, NEW l \in DOMAIN Norm
      PROVE  /\ new[a][l] > f[a][l] => l \in orgUsers(Configs[c])
             /\ new[a][l] < f[a][l] => l \notin localAliases[c][a]
  <2>1. CASE new[a][l] > f[a][l]
    <3>1. a \in DOMAIN ch /\ l \in ch[a].add
      BY <1>1, <1>2, <2>1
    <3>. QED
      BY <2>1, <3>1, AliasesInOrg, <1>1, <1>2 DEF Vouched
  <2>2. CASE new[a][l] < f[a][l]
    <3>1. a \in DOMAIN ch /\ l \in ch[a].remove
      BY <1>1, <1>2, <2>2
    <3>. QED
      BY <2>2, <3>1, <1>1, <1>2 DEF Vouched
  <2>. QED
    BY <2>1, <2>2
<1>6. Justified(c, f, new)
  BY <1>1, <1>5 DEF Justified
<1>. QED
  BY <1>4, <1>6 DEF new

-----------------------------------------------------------------------------
(* Pull requests.                                                          *)

\* The numbers of the open pull requests are finitely many.
LEMMA NumbersFinite ==
  ASSUME Numbered
  PROVE  IsFiniteSet(numbers(prs)) /\ numbers(prs) \subseteq Nat \ {0}
<1>. DEFINE g == [i \in 1 .. Len(prs) |-> prs[i].number]
<1>1. DOMAIN prs = 1 .. Len(prs) /\ Len(prs) \in Nat
  BY DEF Numbered
<1>2. g \in Surjection(1 .. Len(prs), numbers(prs))
  BY <1>1 DEF Surjection, numbers
<1>3. IsFiniteSet(1 .. Len(prs))
  BY <1>1, FS_Interval
<1>4. IsFiniteSet(numbers(prs))
  <2>. HIDE DEF g
  <2>. QED
    BY <1>2, <1>3, FS_Surjection
<1>5. \A i \in DOMAIN prs : prs[i].number \in Nat \ {0}
  <2>1. \A i \in DOMAIN prs : prs[i] \in PR
    BY DEF Numbered
  <2>. QED
    BY <2>1 DEF PR
<1>. QED
  BY <1>4, <1>5 DEF numbers

\* A fresh number is one nobody refers to, not even a run that has yet to close
\* the pull request of that number.
LEMMA FreshNumber ==
  ASSUME IndInv
  PROVE  /\ Fresh \in Nat \ {0}
         /\ Fresh \notin numbers(prs)
         /\ \A b \in Bumpers : Fresh \notin runs[b].todo
<1>. USE DEF IndInv
<1>. DEFINE T == {runs[b].todo : b \in Bumpers}
            g == [b \in Bumpers |-> runs[b].todo]
            used == numbers(prs) \cup {newest} \cup UNION T
<1>1. IsFiniteSet(T)
  <2>1. g \in Surjection(Bumpers, T)
    BY DEF Surjection
  <2>. HIDE DEF g, T
  <2>. QED
    BY <2>1, FS_Surjection, BumperAssumption
<1>2. IsFiniteSet(UNION T)
  <2>1. \A S \in T : IsFiniteSet(S)
    BY DEF AllRuns, RunOK
  <2>. HIDE DEF T
  <2>. QED
    BY <1>1, <2>1, FS_UNION
<1>3. IsFiniteSet(used)
  <2>1. IsFiniteSet(numbers(prs)) /\ IsFiniteSet({newest})
    BY NumbersFinite, FS_Singleton
  <2>. HIDE DEF T
  <2>2. IsFiniteSet(numbers(prs) \cup {newest})
    BY <2>1, FS_Union
  <2>. QED
    BY <1>2, <2>2, FS_Union
<1>. DEFINE k == Cardinality(used)
<1>4. k \in Nat
  BY <1>3, FS_CardinalityType
<1>5. \E n \in 1 .. k + 1 : n \notin used
  <2>. HIDE DEF used
  <2>. SUFFICES ASSUME 1 .. k + 1 \subseteq used PROVE FALSE
    OBVIOUS
  <2>1. Cardinality(1 .. k + 1) <= k
    BY <1>3, FS_Subset
  <2>. HIDE DEF k
  <2>2. Cardinality(1 .. k + 1) = k + 1
    BY <1>4, FS_Interval
  <2>. QED
    BY <1>4, <2>1, <2>2
<1>6. Fresh = CHOOSE n \in 1 .. k + 1 : n \notin used
  BY DEF Fresh
<1>7. Fresh \in 1 .. k + 1 /\ Fresh \notin used
  <2>. HIDE DEF used, k
  <2>. QED
    BY <1>5, <1>6
<1>8. Fresh \in Nat \ {0}
  <2>. HIDE DEF used, k
  <2>. QED
    BY <1>4, <1>7
<1>. QED
  BY <1>7, <1>8

\* A new pull request is the last of the list, and no run is going to close it.
LEMMA OpenedOK ==
  ASSUME IndInv, NEW own \in BOOLEAN, NEW to \in {"default", "other"}, Opened(own, to),
         \A b \in Bumpers : runs'[b].todo \subseteq runs[b].todo
  PROVE  Numbered' /\ NewestLast' /\ NewestSpared'
<1>. USE DEF IndInv, Opened
<1>. DEFINE n == Fresh
            new == [number |-> n, own |-> own, base |-> to]
<1>1. /\ n \in Nat \ {0}
      /\ n \notin numbers(prs)
      /\ \A b \in Bumpers : n \notin runs[b].todo
  BY FreshNumber
<1>2. /\ prs' = Append(prs, new)
      /\ newest' = IF to = "default" THEN n ELSE newest
  OBVIOUS
<1>. HIDE DEF n
<1>3. new \in PR
  BY <1>1 DEF PR
<1>4. /\ prs' \in Seq(PR) /\ Len(prs') = Len(prs) + 1 /\ Len(prs) \in Nat
      /\ prs'[Len(prs) + 1] = new
      /\ DOMAIN prs = 1 .. Len(prs) /\ DOMAIN prs' = 1 .. Len(prs) + 1
      /\ \A i \in 1 .. Len(prs) : prs'[i] = prs[i]
  <2>. HIDE DEF new
  <2>. QED
    BY <1>2, <1>3 DEF Numbered
<1>5. Numbered'
  BY <1>1, <1>4 DEF Numbered, numbers
<1>6. NewestLast'
  <2>1. CASE to = "default"
    BY <1>1, <1>2, <1>4, <2>1 DEF toDefault, NewestLast
  <2>2. CASE to # "default"
    <3>1. newest' = newest
      BY <1>2, <2>2
    <3>2. toDefault(prs)' = toDefault(prs)
      BY <1>4, <2>2 DEF toDefault
    <3>3. \A i \in toDefault(prs) : prs'[i] = prs[i]
      BY <1>4 DEF toDefault
    <3>. QED
      BY <3>1, <3>2, <3>3 DEF NewestLast
  <2>. QED
    BY <2>1, <2>2
<1>7. NewestSpared'
  BY <1>1, <1>2 DEF NewestSpared
<1>. QED
  BY <1>5, <1>6, <1>7

\* A list without one of its elements.
LEMMA RemovedFrom ==
  ASSUME NEW S, NEW s \in Seq(S), NEW i \in 1 .. Len(s)
  PROVE  LET t == SubSeq(s, 1, i - 1) \o SubSeq(s, i + 1, Len(s))
         IN  /\ t \in Seq(S)
             /\ Len(t) = Len(s) - 1
             /\ \A j \in 1 .. Len(s) - 1 : t[j] = s[IF j < i THEN j ELSE j + 1]
<1>. DEFINE left  == SubSeq(s, 1, i - 1)
            right == SubSeq(s, i + 1, Len(s))
<1>1. Len(s) \in Nat /\ \A j \in 1 .. Len(s) : s[j] \in S
  OBVIOUS
<1>2. /\ left \in Seq(S) /\ Len(left) = i - 1
      /\ \A j \in 1 .. i - 1 : left[j] = s[j]
  <2>1. \A j \in 1 .. i - 1 : s[j] \in S
    BY <1>1
  <2>. HIDE DEF left
  <2>2. /\ left \in Seq(S) /\ Len(left) = IF 1 <= i - 1 THEN i - 1 - 1 + 1 ELSE 0
        /\ \A j \in 1 .. i - 1 - 1 + 1 : left[j] = s[1 + j - 1]
    BY <1>1, <2>1, SubSeqProperties, 1 \in Int, i - 1 \in Int DEF left
  <2>. QED
    BY <1>1, <2>2
<1>3. /\ right \in Seq(S) /\ Len(right) = Len(s) - i
      /\ \A j \in 1 .. Len(s) - i : right[j] = s[i + j]
  <2>1. \A j \in i + 1 .. Len(s) : s[j] \in S
    BY <1>1
  <2>. HIDE DEF right
  <2>2. /\ right \in Seq(S)
        /\ Len(right) = IF i + 1 <= Len(s) THEN Len(s) - (i + 1) + 1 ELSE 0
        /\ \A j \in 1 .. Len(s) - (i + 1) + 1 : right[j] = s[i + 1 + j - 1]
    BY <1>1, <2>1, SubSeqProperties, i + 1 \in Int, Len(s) \in Int DEF right
  <2>3. \A j \in 1 .. Len(s) - i : i + 1 + j - 1 = i + j
    BY <1>1
  <2>. QED
    BY <1>1, <2>2, <2>3
<1>. HIDE DEF left, right
<1>. DEFINE t == left \o right
<1>4. /\ t \in Seq(S) /\ Len(t) = Len(left) + Len(right)
      /\ \A j \in 1 .. Len(left) + Len(right) :
           t[j] = IF j <= Len(left) THEN left[j] ELSE right[j - Len(left)]
  BY <1>2, <1>3, ConcatProperties
<1>. HIDE DEF t
<1>5. Len(t) = Len(s) - 1
  BY <1>1, <1>2, <1>3, <1>4
<1>6. \A j \in 1 .. Len(s) - 1 : t[j] = IF j <= i - 1 THEN left[j] ELSE right[j - (i - 1)]
  <2>1. Len(left) + Len(right) = Len(s) - 1
    BY <1>1, <1>2, <1>3
  <2>. QED
    BY <1>2, <1>4, <2>1
<1>7. ASSUME NEW j \in 1 .. Len(s) - 1 PROVE t[j] = s[IF j < i THEN j ELSE j + 1]
  <2>1. CASE j < i
    BY <1>1, <1>2, <1>6, <2>1
  <2>2. CASE ~(j < i)
    <3>1. j - (i - 1) \in 1 .. Len(s) - i /\ i + (j - (i - 1)) = j + 1
      BY <1>1, <2>2
    <3>2. t[j] = right[j - (i - 1)]
      BY <1>1, <1>6, <2>2
    <3>. QED
      BY <1>3, <2>2, <3>1, <3>2
  <2>. QED
    BY <2>1, <2>2
<1>. QED
  BY <1>4, <1>5, <1>7 DEF t, left, right

\* A pull request that is closed leaves the others in their order.
LEMMA ClosedOK ==
  ASSUME Numbered, NewestLast, NEW n, Closed(n),
         newest' \in {0, newest}, n \in numbers(prs) /\ n = newest => newest' = 0
  PROVE  Numbered' /\ NewestLast'
<1>1. CASE n \notin numbers(prs)
  <2>1. prs' = prs
    BY <1>1 DEF Closed
  <2>. QED
    BY <2>1 DEF Numbered, NewestLast, toDefault
<1>2. CASE n \in numbers(prs)
  <2>. DEFINE i == CHOOSE j \in DOMAIN prs : prs[j].number = n
              len == Len(prs)
              old(j) == IF j < i THEN j ELSE j + 1
  <2>1. i \in DOMAIN prs /\ prs[i].number = n
    BY <1>2 DEF numbers
  <2>2. prs' = SubSeq(prs, 1, i - 1) \o SubSeq(prs, i + 1, Len(prs))
    BY <1>2 DEF Closed
  <2>. HIDE DEF i
  <2>3. /\ len \in Nat /\ DOMAIN prs = 1 .. len /\ i \in 1 .. len
        /\ prs \in Seq(PR)
    BY <2>1 DEF Numbered
  <2>6. /\ prs' \in Seq(PR) /\ Len(prs') = len - 1
        /\ \A j \in 1 .. len - 1 : prs'[j] = prs[old(j)]
    BY <2>2, <2>3, RemovedFrom
  <2>7. DOMAIN prs' = 1 .. len - 1 /\ \A j \in 1 .. len - 1 : old(j) \in 1 .. len
    BY <2>3, <2>6
  <2>8. \A j \in 1 .. len : j # i => \E m \in 1 .. len - 1 : old(m) = j
    <3>. SUFFICES ASSUME NEW j \in 1 .. len, j # i
                  PROVE  \E m \in 1 .. len - 1 : old(m) = j
      OBVIOUS
    <3>1. CASE j < i
      BY <2>3, <3>1
    <3>2. CASE j > i
      <4>1. j - 1 \in 1 .. len - 1 /\ old(j - 1) = j
        BY <2>3, <3>2
      <4>. QED
        BY <4>1
    <3>. QED
      BY <2>3, <3>1, <3>2
  <2>9. Numbered'
    <3>. SUFFICES ASSUME NEW j \in 1 .. len - 1, NEW m \in 1 .. len - 1,
                         prs'[j].number = prs'[m].number
                  PROVE  j = m
      BY <2>6, <2>7 DEF Numbered
    <3>1. old(j) = old(m)
      BY <2>3, <2>6, <2>7 DEF Numbered
    <3>. QED
      BY <2>3, <3>1
  <2>10. NewestLast'
    <3>. SUFFICES ASSUME newest' # 0
                  PROVE  \E m \in toDefault(prs)' : /\ prs'[m].number = newest
                                                    /\ \A j \in toDefault(prs)' : j <= m
      BY DEF NewestLast
    <3>0. newest' = newest /\ newest # n /\ newest # 0
      BY <1>2
    <3>1. PICK h \in toDefault(prs) : /\ prs[h].number = newest
                                      /\ \A j \in toDefault(prs) : j <= h
      BY <3>0 DEF NewestLast
    <3>2. h \in 1 .. len /\ h # i /\ prs[h].base = "default"
      BY <2>1, <2>3, <3>0, <3>1 DEF toDefault
    <3>3. PICK m \in 1 .. len - 1 : old(m) = h
      BY <2>8, <3>2
    <3>4. m \in toDefault(prs)' /\ prs'[m].number = newest
      BY <2>6, <2>7, <3>1, <3>2, <3>3 DEF toDefault
    <3>5. ASSUME NEW j \in toDefault(prs)' PROVE j <= m
      <4>1. j \in 1 .. len - 1 /\ old(j) \in toDefault(prs)
        BY <2>3, <2>6, <2>7, <3>5 DEF toDefault
      <4>2. old(j) <= old(m)
        BY <3>1, <3>3, <4>1
      <4>. QED
        BY <2>3, <3>3, <4>1, <4>2
    <3>. QED
      BY <3>4, <3>5
  <2>. QED
    BY <2>9, <2>10
<1>. QED
  BY <1>1, <1>2

-----------------------------------------------------------------------------
(* Steps of a run.                                                         *)

\* A step of one run that leaves pull requests alone and has none of them
\* closed that it was not going to close.
LEMMA RunStep ==
  ASSUME IndInv, NEW b \in Bumpers, NEW r, runs' = [runs EXCEPT ![b] = r],
         RunOK(r), newest \notin r.todo, UNCHANGED pulls, World'
  PROVE  IndInv'
<1>. USE DEF IndInv, pulls
<1>1. AllRuns'
  BY DEF AllRuns
<1>2. Numbered' /\ NewestLast'
  BY DEF Numbered, NewestLast, toDefault
<1>3. NewestSpared'
  BY DEF NewestSpared, AllRuns
<1>. QED
  BY <1>1, <1>2, <1>3

\* Runs that have ended hold nothing.
LEMMA EndStep ==
  ASSUME IndInv, NEW b \in Bumpers, End(b), UNCHANGED pulls, World'
  PROVE  IndInv'
<1>1. newest \notin Idle.todo
  BY DEF Idle
<1>. QED
  BY <1>1, IdleOK, RunStep DEF End

\* The configuration a run starts with is one that has been accepted.
LEMMA StartStep ==
  ASSUME IndInv, NEW b \in Bumpers, Start(b)
  PROVE  IndInv'
<1>. DEFINE r == [runs[b] EXCEPT !.pc = "compare", !.org = org]
<1>1. runs' = [runs EXCEPT ![b] = r]
  BY DEF Start
<1>2. RunOK(runs[b]) /\ org \in Accepted
  BY DEF IndInv, AllRuns, World
<1>3. RunOK(r) /\ r.todo = runs[b].todo
  BY <1>2 DEF RunOK, Idle
<1>4. newest \notin runs[b].todo
  BY DEF IndInv, NewestSpared
<1>5. World' /\ UNCHANGED pulls
  BY DEF IndInv, World, Start, github
<1>. HIDE DEF r
<1>. QED
  BY <1>1, <1>3, <1>4, <1>5, RunStep

\* What a run is going to write its configuration vouches for.
LEMMA CompareStep ==
  ASSUME IndInv, NEW b \in Bumpers, Compare(b)
  PROVE  IndInv'
<1>. DEFINE ch == calculateAliasChanges(localAliases[runs[b].org], file)
            r == [runs[b] EXCEPT !.pc = "write", !.changes = ch]
<1>1. RunOK(runs[b]) /\ runs[b].org \in Accepted
  BY DEF IndInv, AllRuns, RunOK, Compare
<1>2. World' /\ UNCHANGED pulls
  BY DEF IndInv, World, Compare, github
<1>3. CASE End(b)
  BY <1>2, <1>3, EndStep
<1>4. CASE runs' = [runs EXCEPT ![b] = r]
  <2>1. IsChanges(ch) /\ Vouched(runs[b].org, ch)
    BY <1>1, ChangesVouched DEF IndInv, World
  <2>. HIDE DEF ch
  <2>2. RunOK(r) /\ r.todo = runs[b].todo
    BY <1>1, <2>1 DEF RunOK, Idle
  <2>3. newest \notin runs[b].todo
    BY DEF IndInv, NewestSpared
  <2>. HIDE DEF r
  <2>. QED
    BY <1>2, <1>4, <2>2, <2>3, RunStep
<1>. QED
  BY <1>3, <1>4 DEF Compare

\* The changes go into the file as it is by now.
LEMMA WriteStep ==
  ASSUME IndInv, NEW b \in Bumpers, Write(b)
  PROVE  IndInv'
<1>. DEFINE new == writeChanges(file, runs[b].changes)
            r == [runs[b] EXCEPT !.pc = "push", !.base = file, !.new = new,
                                 !.changes = NoFile]
<1>1. /\ RunOK(runs[b]) /\ runs[b].org \in Accepted
      /\ IsChanges(runs[b].changes) /\ Vouched(runs[b].org, runs[b].changes)
  BY DEF IndInv, AllRuns, RunOK, Write
<1>2. World' /\ UNCHANGED pulls
  BY DEF IndInv, World, Write, github
<1>3. CASE End(b)
  BY <1>2, <1>3, EndStep
<1>4. CASE runs' = [runs EXCEPT ![b] = r]
  <2>1. IsFile(file) /\ IsFile(new) /\ Justified(runs[b].org, file, new)
    BY <1>1, WrittenJustified DEF IndInv, World
  <2>. HIDE DEF new
  <2>2. /\ DOMAIN r = DOMAIN Idle /\ r.pc = "push" /\ r.base = file /\ r.new = new
        /\ r.changes = NoFile /\ r.org = runs[b].org /\ r.todo = runs[b].todo
    BY <1>1 DEF RunOK, Idle
  <2>3. newest \notin runs[b].todo
    BY DEF IndInv, NewestSpared
  <2>. HIDE DEF r
  <2>4. RunOK(r)
    BY <1>1, <2>1, <2>2, IdleOK DEF RunOK
  <2>. QED
    BY <1>2, <1>4, <2>2, <2>3, <2>4, RunStep
<1>. QED
  BY <1>3, <1>4 DEF Write

\* The branch becomes what the run has written.
LEMMA PushStep ==
  ASSUME IndInv, NEW b \in Bumpers, Push(b)
  PROVE  IndInv'
<1>. DEFINE r == [runs[b] EXCEPT !.pc = "list", !.base = NoFile, !.new = NoFile,
                                 !.org = NoConfig]
<1>1. runs' = [runs EXCEPT ![b] = r]
  BY DEF Push
<1>2. RunOK(runs[b])
  BY DEF IndInv, AllRuns
<1>3. /\ DOMAIN r = DOMAIN Idle /\ r.pc = "list" /\ r.base = NoFile /\ r.new = NoFile
      /\ r.changes = runs[b].changes /\ r.todo = runs[b].todo
  BY <1>2 DEF RunOK, Idle
<1>4. newest \notin runs[b].todo
  BY DEF IndInv, NewestSpared
<1>5. World' /\ UNCHANGED pulls
  <2>1. branch'.base = runs[b].base /\ branch'.new = runs[b].new
    BY DEF Push
  <2>. QED
    BY <1>2, <2>1 DEF IndInv, World, Push, RunOK
<1>. HIDE DEF r
<1>6. RunOK(r)
  BY <1>2, <1>3, IdleOK DEF RunOK
<1>. QED
  BY <1>1, <1>3, <1>4, <1>5, <1>6, RunStep

\* What a run decides to close does not include the newest pull request to the
\* default branch: it is the last in the list, or there is none.
LEMMA ListPRsStep ==
  ASSUME IndInv, NEW b \in Bumpers, ListPRs(b)
  PROVE  IndInv'
<1>1. RunOK(runs[b])
  BY DEF IndInv, AllRuns
<1>2. World' /\ UNCHANGED pulls
  BY DEF IndInv, World, ListPRs, github
<1>3. IsFiniteSet(numbers(prs)) /\ numbers(prs) \subseteq Nat \ {0}
  BY NumbersFinite DEF IndInv
<1>4. PICK pc \in {"create", "close"}, S \in SUBSET numbers(prs) :
        /\ runs' = [runs EXCEPT ![b] = [@ EXCEPT !.pc = pc, !.todo = S]]
        /\ newest \notin S
  <2>1. CASE toDefault(prs) = {}
    <3>1. newest = 0
      BY <2>1 DEF IndInv, NewestLast
    <3>. QED
      BY <1>3, <2>1, <3>1 DEF ListPRs
  <2>2. CASE toDefault(prs) # {}
    <3>1. runs' = [runs EXCEPT ![b] = [@ EXCEPT !.pc = "close", !.todo = surplus]]
      BY <2>2 DEF ListPRs
    <3>2. surplus \subseteq numbers(prs)
      BY DEF surplus
    <3>3. newest \notin surplus
      <4>1. CASE newest = 0
        BY <1>3, <3>2, <4>1
      <4>2. CASE newest # 0
        <5>. DEFINE P == toDefault(prs)
                    last == CHOOSE i \in P : \A j \in P : j <= i
        <5>1. PICK i \in P : prs[i].number = newest /\ \A j \in P : j <= i
          BY <4>2 DEF IndInv, NewestLast
        <5>2. P \subseteq Nat
          BY DEF toDefault, IndInv, Numbered
        <5>3. last \in P /\ i <= last /\ last <= i
          <6>. HIDE DEF P
          <6>. QED
            BY <5>1
        <5>4. last = i
          BY <5>2, <5>3
        <5>. QED
          BY <5>1, <5>4 DEF surplus
      <4>. QED
        BY <4>1, <4>2
    <3>. QED
      BY <3>1, <3>2, <3>3
  <2>. QED
    BY <2>1, <2>2
<1>. DEFINE r == [runs[b] EXCEPT !.pc = pc, !.todo = S]
<1>5. RunOK(r) /\ r.todo = S
  <2>1. IsFiniteSet(S) /\ S \subseteq Nat \ {0}
    BY <1>3, FS_Subset
  <2>2. /\ DOMAIN r = DOMAIN Idle /\ r.pc = pc /\ r.todo = S /\ r.changes = runs[b].changes
        /\ r.base = runs[b].base /\ r.new = runs[b].new
    BY <1>1 DEF RunOK, Idle
  <2>. HIDE DEF r
  <2>. QED
    BY <1>1, <2>1, <2>2 DEF RunOK
<1>6. runs' = [runs EXCEPT ![b] = r]
  BY <1>4
<1>. HIDE DEF r
<1>. QED
  BY <1>2, <1>4, <1>5, <1>6, RunStep

\* A pull request that the bumper opens no run is going to close.
LEMMA CreateStep ==
  ASSUME IndInv, NEW b \in Bumpers, Create(b)
  PROVE  IndInv'
<1>1. World'
  BY DEF IndInv, World, Create, github
<1>2. CASE End(b) /\ UNCHANGED pulls
  BY <1>1, <1>2, EndStep
<1>3. CASE Opened(TRUE, "default") /\ Goto(b, "close")
  <2>. DEFINE r == [runs[b] EXCEPT !.pc = "close"]
  <2>1. runs' = [runs EXCEPT ![b] = r] /\ RunOK(runs[b]) /\ DOMAIN runs = Bumpers
    BY <1>3 DEF Goto, IndInv, AllRuns
  <2>2. RunOK(r) /\ r.todo = runs[b].todo
    BY <2>1 DEF RunOK, Idle
  <2>. HIDE DEF r
  <2>3. AllRuns' /\ \A x \in Bumpers : runs'[x].todo \subseteq runs[x].todo
    BY <2>1, <2>2 DEF IndInv, AllRuns
  <2>4. Numbered' /\ NewestLast' /\ NewestSpared'
    BY <1>3, <2>3, OpenedOK
  <2>. QED
    BY <1>1, <2>3, <2>4 DEF IndInv
<1>. QED
  BY <1>2, <1>3 DEF Create

\* A run closes pull requests it has found, and not the newest.
LEMMA CloseStep ==
  ASSUME IndInv, NEW b \in Bumpers, ClosePR(b)
  PROVE  IndInv'
<1>1. World'
  BY DEF IndInv, World, ClosePR, github
<1>2. CASE End(b) /\ UNCHANGED pulls
  BY <1>1, <1>2, EndStep
<1>3. ASSUME NEW n \in runs[b].todo, Closed(n),
             runs' = [runs EXCEPT ![b] = [@ EXCEPT !.todo = runs[b].todo \ {n}]],
             replaced' = (replaced /\ ~(n = newest /\ n \in numbers(prs))),
             UNCHANGED newest
      PROVE  IndInv'
  <2>. DEFINE r == [runs[b] EXCEPT !.todo = @ \ {n}]
  <2>1. runs' = [runs EXCEPT ![b] = r] /\ RunOK(runs[b]) /\ DOMAIN runs = Bumpers
    BY <1>3 DEF IndInv, AllRuns
  <2>2. n # newest
    BY DEF IndInv, NewestSpared
  <2>3. IsFiniteSet(runs[b].todo \ {n})
    BY <2>1, FS_RemoveElement DEF RunOK
  <2>4. runs[b].pc # "idle"
    BY <2>1 DEF RunOK, Idle
  <2>5. /\ DOMAIN r = DOMAIN Idle /\ r.pc = runs[b].pc /\ r.todo = runs[b].todo \ {n}
        /\ r.changes = runs[b].changes /\ r.org = runs[b].org
        /\ r.base = runs[b].base /\ r.new = runs[b].new
    BY <2>1 DEF RunOK, Idle
  <2>. HIDE DEF r
  <2>6. RunOK(r)
    BY <2>1, <2>3, <2>4, <2>5 DEF RunOK
  <2>7. AllRuns' /\ \A x \in Bumpers : runs'[x].todo \subseteq runs[x].todo
    BY <2>1, <2>5, <2>6 DEF IndInv, AllRuns
  <2>8. Numbered' /\ NewestLast'
    BY <1>3, <2>2, ClosedOK DEF IndInv
  <2>9. NewestSpared'
    BY <1>3, <2>2, <2>7 DEF IndInv, NewestSpared
  <2>. QED
    BY <1>1, <2>7, <2>8, <2>9 DEF IndInv
<1>. QED
  BY <1>2, <1>3 DEF ClosePR

\* A call that fails closes nothing, and opens at most what it should have.
LEMMA FailStep ==
  ASSUME IndInv, NEW b \in Bumpers, Fail(b)
  PROVE  IndInv'
<1>1. World'
  BY BumperAssumption DEF IndInv, World, Fail, github
<1>2. CASE End(b) /\ UNCHANGED pulls
  BY <1>1, <1>2, EndStep
<1>3. CASE Opened(TRUE, "default") /\ End(b)
  <2>1. AllRuns' /\ \A x \in Bumpers : runs'[x].todo \subseteq runs[x].todo
    <3>1. Idle.todo = {} /\ runs' = [runs EXCEPT ![b] = Idle]
      BY <1>3 DEF Idle, End
    <3>. QED
      BY <3>1, IdleOK DEF IndInv, AllRuns
  <2>2. Numbered' /\ NewestLast' /\ NewestSpared'
    BY <1>3, <2>1, OpenedOK
  <2>. QED
    BY <1>1, <2>1, <2>2 DEF IndInv
<1>4. ASSUME NEW n \in runs[b].todo,
             runs' = [runs EXCEPT ![b] = [@ EXCEPT !.todo = runs[b].todo \ {n}]], UNCHANGED pulls
      PROVE  IndInv'
  <2>. DEFINE r == [runs[b] EXCEPT !.todo = @ \ {n}]
  <2>1. runs' = [runs EXCEPT ![b] = r] /\ RunOK(runs[b])
    BY <1>4 DEF IndInv, AllRuns
  <2>2. IsFiniteSet(runs[b].todo \ {n})
    BY <2>1, FS_RemoveElement DEF RunOK
  <2>3. runs[b].pc # "idle"
    BY <2>1 DEF RunOK, Idle
  <2>4. /\ DOMAIN r = DOMAIN Idle /\ r.pc = runs[b].pc /\ r.todo = runs[b].todo \ {n}
        /\ r.changes = runs[b].changes /\ r.org = runs[b].org
        /\ r.base = runs[b].base /\ r.new = runs[b].new
    BY <2>1 DEF RunOK, Idle
  <2>. HIDE DEF r
  <2>5. RunOK(r)
    BY <2>1, <2>2, <2>3, <2>4 DEF RunOK
  <2>6. newest \notin r.todo
    BY <2>4 DEF IndInv, NewestSpared
  <2>. QED
    BY <1>1, <1>4, <2>1, <2>5, <2>6, RunStep
<1>. QED
  BY <1>2, <1>3, <1>4 DEF Fail

-----------------------------------------------------------------------------
(* Steps of people.                                                        *)

\* People who leave pull requests alone leave runs what they have.
LEMMA ElsewhereStep ==
  ASSUME IndInv, UNCHANGED <<pulls, runs>>, World'
  PROVE  IndInv'
<1>. QED
  BY DEF IndInv, AllRuns, Numbered, NewestLast, NewestSpared, pulls, toDefault

\* A change of the configuration is one that has been accepted.
LEMMA ChangeConfigStep ==
  ASSUME IndInv, NEW c \in DOMAIN Configs, ChangeConfig(c)
  PROVE  IndInv'
<1>1. World'
  BY BumperAssumption DEF IndInv, World, ChangeConfig, Event
<1>. QED
  BY <1>1, ElsewhereStep DEF ChangeConfig, Event

\* A file stays one however it is edited.
LEMMA EditStep ==
  ASSUME IndInv, NEW a \in Aliases, Edit(a)
  PROVE  IndInv'
<1>0. IsFile(file)
  BY DEF IndInv, World
<1>1. IsFile(file')
  <2>1. CASE file' = [x \in DOMAIN file \ {a} |-> file[x]]
    BY <1>0, <2>1 DEF IsFile
  <2>2. CASE file' = [x \in DOMAIN file \cup {a} |-> IF x = a THEN ListOf({}) ELSE file[x]]
    <3>1. ListOf({}) \in List
      BY DEF ListOf, List
    <3>. QED
      BY <1>0, <2>2, <3>1 DEF IsFile
  <2>3. ASSUME a \in DOMAIN file, NEW l \in Logins,
               file' = [file EXCEPT ![a] = [@ EXCEPT ![l] = IF file[a][l] > 0 THEN 0 ELSE 1]]
        PROVE  IsFile(file')
    <3>. DEFINE list == [file[a] EXCEPT ![l] = IF @ > 0 THEN 0 ELSE 1]
    <3>1. list \in List
      BY <1>0, <2>3 DEF IsFile, List
    <3>2. file' = [file EXCEPT ![a] = list]
      BY <2>3
    <3>. HIDE DEF list
    <3>. QED
      BY <1>0, <3>1, <3>2 DEF IsFile
  <2>. QED
    BY <2>1, <2>2, <2>3 DEF Edit
<1>2. World'
  BY <1>1, BumperAssumption DEF IndInv, World, Edit, Event
<1>. QED
  BY <1>2, ElsewhereStep DEF Edit, Event

\* A pull request people open is a new one.
LEMMA OpenPRStep ==
  ASSUME IndInv, NEW own \in BOOLEAN, NEW to \in {"default", "other"}, OpenPR(own, to)
  PROVE  IndInv'
<1>1. World'
  BY BumperAssumption DEF IndInv, World, OpenPR, Event, github
<1>2. Opened(own, to) /\ runs' = runs
  BY DEF OpenPR, Event
<1>3. Numbered' /\ NewestLast' /\ NewestSpared'
  BY <1>2, OpenedOK
<1>4. AllRuns'
  BY <1>2 DEF IndInv, AllRuns
<1>. QED
  BY <1>1, <1>3, <1>4 DEF IndInv

\* A merge takes every list from one of the two sides.
LEMMA MergedIsFile ==
  ASSUME IsFile(file), IsFile(branch.new)
  PROVE  IsFile(Merged)
<1>. DEFINE side(a) == IF part(branch.new, a) = part(branch.base, a)
                         THEN part(file, a) ELSE part(branch.new, a)
<1>1. \A a : \A list \in side(a) : list \in List
  BY DEF IsFile, part
<1>2. Merged = [a \in {x \in Aliases : side(x) # {}} |-> CHOOSE list \in side(a) : TRUE]
  BY DEF Merged
<1>. HIDE DEF side
<1>3. \A a \in DOMAIN Merged : a \in Aliases /\ Merged[a] \in side(a)
  BY <1>2
<1>. QED
  BY <1>1, <1>3 DEF IsFile

\* People close what they like; if it is the newest, there is none any more.
LEMMA CloseByHandStep ==
  ASSUME IndInv, NEW i \in DOMAIN prs, CloseByHand(prs[i].number) \/ Merge(prs[i])
  PROVE  IndInv'
<1>. DEFINE n == prs[i].number
<1>1. /\ Closed(n) /\ runs' = runs /\ replaced' = replaced
      /\ newest' = IF n = newest THEN 0 ELSE newest
  BY DEF CloseByHand, Merge, Event
<1>2. World'
  <2>1. CASE CloseByHand(n)
    BY <2>1, BumperAssumption DEF IndInv, World, CloseByHand, Event, github
  <2>2. CASE Merge(prs[i])
    <3>1. IsFile(file')
      BY <2>2, MergedIsFile DEF IndInv, World, Merge
    <3>. QED
      BY <2>2, <3>1 DEF IndInv, World, Merge
  <2>. QED
    BY <2>1, <2>2
<1>. HIDE DEF n
<1>3. Numbered' /\ NewestLast'
  BY <1>1, ClosedOK DEF IndInv
<1>4. AllRuns' /\ NewestSpared'
  <2>1. \A b \in Bumpers : 0 \notin runs[b].todo
    BY DEF IndInv, AllRuns, RunOK
  <2>. QED
    BY <1>1, <2>1 DEF IndInv, AllRuns, NewestSpared
<1>. QED
  BY <1>2, <1>3, <1>4 DEF IndInv

-----------------------------------------------------------------------------
(* The invariant.                                                          *)

\* At first no run goes on and no pull request is open.
LEMMA Initially == Init => IndInv
<1>. SUFFICES ASSUME Init PROVE IndInv
  OBVIOUS
<1>1. IsFile(file)
  <2>1. PICK A \in SUBSET Aliases, S \in SUBSET Logins : file = [a \in A |-> ListOf(S)]
    BY DEF Init
  <2>2. ListOf(S) \in List
    BY DEF ListOf, List
  <2>. QED
    BY <2>1, <2>2 DEF IsFile
<1>2. World
  <2>1. branch.base = NoFile /\ branch.new = NoFile
    BY DEF Init
  <2>. QED
    BY <1>1, <2>1, IdleOK, BumperAssumption DEF Init, World
<1>3. AllRuns
  BY IdleOK DEF Init, AllRuns
<1>4. Numbered /\ NewestLast
  BY DEF Init, Numbered, NewestLast
<1>5. NewestSpared
  BY DEF Init, NewestSpared, Idle
<1>. QED
  BY <1>2, <1>3, <1>4, <1>5 DEF IndInv

\* Every step, of a run or of people, keeps it.
LEMMA Inductive == IndInv /\ [Next]_vars => IndInv'
<1>. SUFFICES ASSUME IndInv, [Next]_vars PROVE IndInv'
  OBVIOUS
<1>1. ASSUME NEW b \in Bumpers, Start(b) \/ Continue(b) \/ Fail(b)
      PROVE  IndInv'
  BY <1>1, StartStep, CompareStep, WriteStep, PushStep, ListPRsStep, CreateStep,
     CloseStep, FailStep DEF Continue
<1>2. CASE People
  BY <1>2, ChangeConfigStep, EditStep, OpenPRStep, CloseByHandStep DEF People
<1>3. CASE UNCHANGED vars
  <2>1. World'
    BY <1>3 DEF IndInv, World, vars, github
  <2>. QED
    BY <1>3, <2>1, ElsewhereStep DEF vars
<1>. QED
  BY <1>1, <1>2, <1>3 DEF Next

\* What the theorems below rest on holds in every run.
THEOREM Invariance == Spec => []IndInv
<1>. QED
  BY Initially, Inductive, PTL DEF Spec

-----------------------------------------------------------------------------
(* What follows.                                                           *)

\* Files and changes keep their form, and a run that has ended leaves nothing.
THEOREM TypeCorrect == Spec => []TypeOK
<1>1. IndInv => TypeOK
  BY DEF IndInv, World, AllRuns, RunOK, Numbered, NewestLast, NewestSpared, TypeOK
<1>. QED
  BY <1>1, Invariance, PTL

\* calculateAliasChanges, writeChanges and peribolos-checkconfig: whatever file
\* the changes meet, no alias is added or removed, nobody from outside the
\* organisation comes into one, and nobody loses the alias of his team.
THEOREM OnlyJustifiedProposals == Spec => []ProposalsJustified
<1>1. IndInv => ProposalsJustified
  BY DEF IndInv, AllRuns, RunOK, Justified, ProposalsJustified
<1>. QED
  BY <1>1, Invariance, PTL

\* findOrCreatePR: of the pull requests to the default branch the newest stays,
\* although what is to be closed was decided on a list that has changed since.
THEOREM NewestIsKept == Spec => []NewestKept
<1>1. IndInv => NewestKept
  BY DEF IndInv, NewestSpared, NewestKept
<1>. QED
  BY <1>1, Invariance, PTL
=============================================================================
