--------------------------- MODULE AliasesBumper ---------------------------
(***************************************************************************)
(* prow/cmd/owners-aliases-bumper at work on one repository.  It runs      *)
(* every hour and after changes to the peribolos configuration, and two    *)
(* runs may overlap.  A run compares OWNERS_ALIASES, fetched over the API, *)
(* with the teams as configured when it started, applies the difference to *)
(* a later clone, pushes that with force to the one branch it uses, and    *)
(* sees to it that there is one open pull request for it.                  *)
(* People change the configuration, edit the file, and open, close and     *)
(* merge pull requests at any time; GitHub and git are external.           *)
(***************************************************************************)
EXTENDS Peribolos

CONSTANTS
  Bumpers,     \* jobs that run the program
  Periodic,    \* the one that is started every hour; the others run after changes
  Configs,     \* configurations people propose, by name
  Aliases,     \* aliases people write into the file, in small letters
  Logins,      \* logins people write, as they spell them
  MaxEvents,   \* bound: changes by people
  MaxFaults    \* bound: calls that fail

ASSUME BumperAssumption ==
  /\ IsFiniteSet(Bumpers) /\ Periodic \in Bumpers
  /\ MaxEvents \in Nat /\ MaxFaults \in Nat
  /\ \E c \in DOMAIN Configs : checkOrg(Configs[c])
  /\ \A c \in DOMAIN Configs : \A a \in DOMAIN addMembersFromTeams(Configs[c]) :
       addMembersFromTeams(Configs[c])[a] \subseteq DOMAIN Norm
  /\ Logins \subseteq DOMAIN Norm
  /\ \A a \in Aliases : aliasOf(a) = a

\* Those a presubmit job, peribolos-checkconfig, accepts.
Accepted == {c \in DOMAIN Configs : checkOrg(Configs[c])}

\* The aliases of each configuration.
localAliases == [c \in DOMAIN Configs |-> addMembersFromTeams(Configs[c])]

\* The list of an alias: how many lines it has for each login.
List == [DOMAIN Norm -> Nat]

\* A file holds some aliases.
IsFile(f) == DOMAIN f \subseteq Aliases /\ \A a \in DOMAIN f : f[a] \in List

NoFile == [a \in {} |-> {}]

NoConfig == "none"

IsChanges(ch) ==
  /\ DOMAIN ch \subseteq Aliases
  /\ \A a \in DOMAIN ch : ch[a] \in [add : SUBSET DOMAIN Norm, remove : SUBSET DOMAIN Norm]

VARIABLES
  org,     \* the peribolos configuration
  file,    \* OWNERS_ALIASES on the default branch
  branch,  \* the bumper's branch: the file it started from, and its own
  prs,     \* open pull requests whose head has the name of that branch, oldest first
  runs,    \* the runs
  due,     \* jobs triggered by a change and not started yet
  newest,  \* history: number of the last one opened to the default branch, or 0
  replaced, \* history: FALSE once a run has closed that one
  events, faults

github == <<org, file, branch>>
pulls  == <<prs, newest, replaced>>
vars   == <<github, pulls, runs, due, events, faults>>

\* The job's branch is in the repository itself (own), or a fork has one of the
\* same name.
PR == [number : Nat \ {0}, own : BOOLEAN, base : {"default", "other"}]

Idle == [pc |-> "idle", org |-> NoConfig, changes |-> NoFile, base |-> NoFile, new |-> NoFile,
         todo |-> {}]

TypeOK ==
  /\ org \in Accepted
  /\ IsFile(file)
  /\ IsFile(branch.base) /\ IsFile(branch.new)
  /\ prs \in Seq(PR)
  /\ newest \in Nat /\ replaced \in BOOLEAN
  /\ DOMAIN runs = Bumpers
  /\ \A b \in Bumpers :
       /\ DOMAIN runs[b] = DOMAIN Idle
       /\ runs[b].pc \in {"idle", "compare", "write", "push", "list", "create", "close"}
       /\ runs[b].pc = "idle" => runs[b] = Idle
       /\ runs[b].pc \in {"compare", "write", "push"} => runs[b].org \in Accepted
       /\ IsChanges(runs[b].changes)
       /\ IsFile(runs[b].base) /\ IsFile(runs[b].new)
       /\ runs[b].todo \subseteq Nat \ {0}
  /\ due \subseteq Bumpers \ {Periodic}
  /\ events \in 0 .. MaxEvents
  /\ faults \in 0 .. MaxFaults

membersOf(list) == {Norm[l] : l \in {k \in DOMAIN Norm : list[k] > 0}}

\* A list as people begin it.
ListOf(S) == [l \in DOMAIN Norm |-> IF l \in S THEN 1 ELSE 0]

\* Every alias that is the name of a team has the members of the team.
InSync(f, c) ==
  \A a \in DOMAIN f \cap DOMAIN localAliases[c] : membersOf(f[a]) = localAliases[c][a]

Init ==
  /\ org \in Accepted
  /\ \E A \in SUBSET Aliases, S \in SUBSET Logins : file = [a \in A |-> ListOf(S)]
  /\ branch = [base |-> NoFile, new |-> NoFile]
  /\ prs = <<>> /\ newest = 0 /\ replaced = TRUE
  /\ runs = [b \in Bumpers |-> Idle]
  /\ due = {} /\ events = 0 /\ faults = 0

-----------------------------------------------------------------------------
(* A run.                                                                  *)

Goto(b, pc) == runs' = [runs EXCEPT ![b] = [@ EXCEPT !.pc = pc]]

\* Mutant of End: the variables of a run survive it.
EndKeeping(b) == Goto(b, "idle")

\* continue, or the end of the loop: nothing of the run is left.
End(b) == runs' = [runs EXCEPT ![b] = Idle]

\* parseOrgConfig: the aliases are those of the configuration checked out.
Start(b) ==
  /\ runs[b].pc = "idle"
  /\ b = Periodic \/ b \in due
  /\ runs' = [runs EXCEPT ![b] = [@ EXCEPT !.pc = "compare", !.org = org]]
  /\ due' = due \ {b}
  /\ UNCHANGED <<github, pulls, events, faults>>

\* Compared are aliases of the file that a team has, logins being normalized.
calculateAliasChanges(local, f) ==
  LET differ == {a \in DOMAIN f \cap DOMAIN local : membersOf(f[a]) # local[a]}
  IN  [a \in differ |-> [add    |-> local[a] \ membersOf(f[a]),
                         remove |-> membersOf(f[a]) \ local[a]]]

Compare(b) ==
  /\ runs[b].pc = "compare"
  /\ LET ch == calculateAliasChanges(localAliases[runs[b].org], file)
     IN  IF DOMAIN ch = {}
           THEN End(b)
           ELSE runs' = [runs EXCEPT ![b] = [@ EXCEPT !.pc = "write", !.changes = ch]]
  /\ UNCHANGED <<github, pulls, due, events, faults>>

\* Lines that are equal to a login to be removed are deleted, however many, and
\* a line is appended for each login to be added, even if there is one.  What is
\* compared is the line as it is spelled.
writeChanges(f, ch) ==
  [a \in DOMAIN f |->
     [l \in DOMAIN Norm |->
        IF a \in DOMAIN ch /\ l \in ch[a].remove
          THEN 0
          ELSE f[a][l] + IF a \in DOMAIN ch /\ l \in ch[a].add THEN 1 ELSE 0]]

\* checkoutRepo, writeChanges and Commit, which fails when nothing has changed.
Write(b) ==
  /\ runs[b].pc = "write"
  /\ LET new == writeChanges(file, runs[b].changes)
     IN  IF new = file
           THEN End(b)
           ELSE runs' = [runs EXCEPT ![b] = [@ EXCEPT !.pc = "push", !.base = file, !.new = new,
                                                  !.changes = NoFile]]
  /\ UNCHANGED <<github, pulls, due, events, faults>>

\* PushToCentral with force.
Push(b) ==
  /\ runs[b].pc = "push"
  /\ branch' = [base |-> runs[b].base, new |-> runs[b].new]
  /\ runs' = [runs EXCEPT ![b] = [@ EXCEPT !.pc = "list", !.base = NoFile, !.new = NoFile,
                                        !.org = NoConfig]]
  /\ UNCHANGED <<org, file, pulls, due, events, faults>>

numbers(P) == {P[i].number : i \in DOMAIN P}

\* Where in the list the pull requests to the default branch are.
toDefault(P) == {i \in DOMAIN P : P[i].base = "default"}

\* Numbers nobody refers to any more are used again.
Fresh == LET used == numbers(prs) \cup {newest} \cup UNION {runs[b].todo : b \in Bumpers}
         IN  CHOOSE n \in 1 .. Cardinality(used) + 1 : n \notin used

Opened(own, base) ==
  /\ prs' = Append(prs, [number |-> Fresh, own |-> own, base |-> base])
  /\ newest' = IF base = "default" THEN Fresh ELSE newest
  /\ replaced' = (replaced \/ base = "default")

Closed(n) ==
  prs' = IF n \in numbers(prs)
           THEN LET i == CHOOSE j \in DOMAIN prs : prs[j].number = n
                IN  SubSeq(prs, 1, i - 1) \o SubSeq(prs, i + 1, Len(prs))
           ELSE prs

\* Mutant of surplus: the last of the list is kept, which is the oldest.
surplusNewer ==
  LET P == toDefault(prs) IN numbers(prs) \ {prs[CHOOSE i \in P : \A j \in P : i <= j].number}

\* prsDefaultBranch[1:], and those to other branches.  GitHub lists the newest
\* pull request first.
surplus ==
  LET P == toDefault(prs) IN numbers(prs) \ {prs[CHOOSE i \in P : \A j \in P : j <= i].number}

\* Mutant of ListPRs: any pull request from the branch will do.
ListPRsAnyBase(b) ==
  /\ runs[b].pc = "list"
  /\ runs' = IF prs = <<>>
               THEN [runs EXCEPT ![b] = [@ EXCEPT !.pc = "create"]]
               ELSE [runs EXCEPT ![b] = [@ EXCEPT !.pc = "close",
                                           !.todo = numbers(prs) \ {prs[Len(prs)].number}]]
  /\ UNCHANGED <<github, pulls, due, events, faults>>

\* findOrCreatePR: which pull requests there are.
ListPRs(b) ==
  /\ runs[b].pc = "list"
  /\ runs' = IF toDefault(prs) = {}
               THEN [runs EXCEPT ![b] = [@ EXCEPT !.pc = "create", !.todo = numbers(prs)]]
               ELSE [runs EXCEPT ![b] = [@ EXCEPT !.pc = "close", !.todo = surplus]]
  /\ UNCHANGED <<github, pulls, due, events, faults>>

\* GitHub refuses a second open pull request from one branch to another, and
\* then the run ends without closing any.
Create(b) ==
  /\ runs[b].pc = "create"
  /\ IF \E i \in DOMAIN prs : prs[i].own /\ prs[i].base = "default"
       THEN End(b) /\ UNCHANGED pulls
       ELSE Opened(TRUE, "default") /\ Goto(b, "close")
  /\ UNCHANGED <<github, due, events, faults>>

\* One after the other, whatever has become of them since.
ClosePR(b) ==
  /\ runs[b].pc = "close"
  /\ \/ /\ runs[b].todo = {}
        /\ End(b)
        /\ UNCHANGED pulls
     \/ \E n \in runs[b].todo :
          /\ Closed(n)
          /\ runs' = [runs EXCEPT ![b] = [@ EXCEPT !.todo = runs[b].todo \ {n}]]
          /\ replaced' = (replaced /\ ~(n = newest /\ n \in numbers(prs)))
          /\ UNCHANGED newest
  /\ UNCHANGED <<github, due, events, faults>>

\* A call fails: the next repository is the turn, and this one an hour later.
\* Where the call that creates the pull request fails it may have been applied;
\* a pull request that cannot be closed is left.
Fail(b) ==
  /\ faults < MaxFaults
  /\ faults' = faults + 1
  /\ \/ /\ runs[b].pc \in {"compare", "write", "push", "list", "create"}
        /\ End(b)
        /\ UNCHANGED pulls
     \/ /\ runs[b].pc = "create"
        /\ \A i \in DOMAIN prs : ~(prs[i].own /\ prs[i].base = "default")
        /\ Opened(TRUE, "default")
        /\ End(b)
     \/ /\ runs[b].pc = "close"
        /\ \E n \in runs[b].todo : runs' = [runs EXCEPT ![b] = [@ EXCEPT !.todo = runs[b].todo \ {n}]]
        /\ UNCHANGED pulls
  /\ UNCHANGED <<github, due, events>>

-----------------------------------------------------------------------------
(* People.                                                                 *)

Event == /\ events < MaxEvents
         /\ events' = events + 1
         /\ UNCHANGED <<runs, faults>>

ChangeConfig(c) ==
  /\ Event
  /\ c \in Accepted \ {org}
  /\ org' = c
  /\ due' = Bumpers \ {Periodic}
  /\ UNCHANGED <<file, branch, pulls>>

\* Somebody begins or ends a list, or adds or removes one login.
Edit(a) ==
  /\ Event
  /\ \/ /\ a \in DOMAIN file
        /\ file' = [x \in DOMAIN file \ {a} |-> file[x]]
     \/ /\ a \notin DOMAIN file
        /\ file' = [x \in DOMAIN file \cup {a} |-> IF x = a THEN ListOf({}) ELSE file[x]]
     \/ /\ a \in DOMAIN file
        /\ \E l \in Logins : file' = [file EXCEPT ![a] = [@ EXCEPT ![l] = IF file[a][l] > 0 THEN 0 ELSE 1]]
  /\ UNCHANGED <<org, branch, pulls, due>>

\* A pull request from the bumper's branch to another one, or from a branch of
\* that name in a fork.
OpenPR(own, base) ==
  /\ Event
  /\ own => /\ branch.new # NoFile
            /\ \A i \in DOMAIN prs : ~(prs[i].own /\ prs[i].base = base)
  /\ Opened(own, base)
  /\ UNCHANGED <<github, due>>

CloseByHand(n) ==
  /\ Event
  /\ Closed(n)
  /\ newest' = IF n = newest THEN 0 ELSE newest
  /\ UNCHANGED <<github, replaced, due>>

\* git merges lists that only one side has changed.
part(f, a) == IF a \in DOMAIN f THEN {f[a]} ELSE {}

Mergeable == \A a \in Aliases : \/ part(file, a) = part(branch.base, a)
                                \/ part(branch.new, a) = part(branch.base, a)

Merged ==
  LET side(a) == IF part(branch.new, a) = part(branch.base, a) THEN part(file, a)
                                                               ELSE part(branch.new, a)
  IN  [a \in {x \in Aliases : side(x) # {}} |-> CHOOSE list \in side(a) : TRUE]

\* The bumper's pull request is approved and merged, as the branch is by then.
Merge(pr) ==
  /\ pr.own /\ pr.base = "default"
  /\ Mergeable
  /\ file' = Merged
  /\ Closed(pr.number)
  /\ newest' = IF pr.number = newest THEN 0 ELSE newest
  /\ UNCHANGED <<org, branch, replaced, runs, due, events, faults>>

-----------------------------------------------------------------------------

Continue(b) == \/ Compare(b)
               \/ Write(b)
               \/ Push(b)
               \/ ListPRs(b)
               \/ Create(b)
               \/ ClosePR(b)

People == \/ \E c \in DOMAIN Configs : ChangeConfig(c)
          \/ \E a \in Aliases : Edit(a)
          \/ OpenPR(TRUE, "other")
          \/ OpenPR(FALSE, "default")
          \/ \E i \in DOMAIN prs : CloseByHand(prs[i].number) \/ Merge(prs[i])

Next == \/ \E b \in Bumpers : Start(b) \/ Continue(b) \/ Fail(b)
        \/ People

Spec == Init /\ [][Next]_vars

\* One job is periodic and a run goes on to its end.  Nobody has to merge.
Fairness == /\ WF_vars(Start(Periodic))
            /\ \A b \in Bumpers : WF_vars(Continue(b))

FairSpec == Spec /\ Fairness

-----------------------------------------------------------------------------
(* Properties.                                                             *)

\* "Only aliases already present in OWNERS_ALIASES are updated - no aliases are
\* added or removed", nobody from outside the organisation gets into an alias,
\* and nobody is removed from the alias of a team he is on: the configuration
\* the run has read, which peribolos-checkconfig has accepted, vouches for what
\* is proposed, although the file is not the one the changes were computed for.
ProposalsJustified ==
  \A b \in {x \in Bumpers : runs[x].pc = "push"} :
    LET old == runs[b].base
        new == runs[b].new
    IN  /\ DOMAIN new = DOMAIN old
        /\ \A a \in DOMAIN new, l \in DOMAIN Norm :
             /\ new[a][l] > old[a][l] => l \in orgUsers(Configs[runs[b].org])
             /\ new[a][l] < old[a][l] => l \notin localAliases[runs[b].org][a]

\* "If there are several, the newest is kept": two runs and people between them
\* never make the bumper close a pull request to the default branch that no
\* newer one has replaced.
NewestKept == replaced

Proposal == /\ Len(prs) = 1
            /\ prs[1].base = "default"
            /\ prs[1].own => Mergeable /\ InSync(Merged, org)

\* When people change nothing and calls stop failing, either the file agrees
\* with the teams for good, or there is one pull request to the default branch
\* and merging it makes them agree - unless a fork's branch of the same name
\* has taken its place.
Proposed == <>[](InSync(file, org) \/ Proposal)
=============================================================================
