------------------------------ MODULE Peribolos ------------------------------
(***************************************************************************)
(* The peribolos configuration of an organisation, the check that          *)
(* prow/cmd/peribolos-checkconfig makes of every change to it, and the     *)
(* aliases prow/cmd/owners-aliases-bumper builds from it.                  *)
(*                                                                         *)
(* A configuration is a record                                             *)
(*   admins, members : sets of logins                                      *)
(*   teams : path -> [members, maintainers, previously, privacy]           *)
(*   repos : name -> [previously, archived]                                *)
(* where the path of a team is the sequence of names from the top of the   *)
(* tree down to its own.  Both programs visit every node of the tree once  *)
(* and accumulate, so that walking it is quantifying over paths.           *)
(***************************************************************************)
EXTENDS Naturals, FiniteSets, Sequences

CONSTANTS
  Norm,            \* github.NormLogin and strings.ToLower, as a function
  MinAdmins,       \* --min-admins
  RequiredAdmins   \* --required-admins

ASSUME PeribolosAssumption == /\ MinAdmins \in Nat
                              /\ \A l \in DOMAIN Norm : /\ Norm[l] \in DOMAIN Norm
                                                        /\ Norm[Norm[l]] = Norm[l]

normalize(S) == {Norm[l] : l \in S}

-----------------------------------------------------------------------------
(* checkOrg.                                                               *)

nameOf(p) == p[Len(p)]

children(c, p) == {q \in DOMAIN c.teams : Len(q) = Len(p) + 1 /\ SubSeq(q, 1, Len(p)) = p}

\* Mutant of teamUsers: the maintainers are not looked at.
teamUsersMembers(team) == team.members

teamUsers(team) == team.members \cup team.maintainers

orgUsers(c) == normalize(c.admins) \cup normalize(c.members)

EnoughAdmins(c) == Cardinality(c.admins) >= MinAdmins /\ RequiredAdmins \subseteq c.admins

OneOrgRole(c) == normalize(c.admins) \cap normalize(c.members) = {}

\* state.members: everybody walkTeams meets is of the organisation.
TeamsInOrg(c) == \A p \in DOMAIN c.teams : normalize(teamUsers(c.teams[p])) \subseteq orgUsers(c)

\* state.names: the names of teams as they are spelled, of all levels together.
TeamNamesUnique(c) ==
  /\ \A p \in DOMAIN c.teams : nameOf(p) \notin c.teams[p].previously
  /\ \A p, q \in DOMAIN c.teams : p # q =>
       (c.teams[p].previously \cup {nameOf(p)}) \cap (c.teams[q].previously \cup {nameOf(q)}) = {}

\* nestedNotClosed: teams with a parent or with children.
NestedClosed(c) ==
  \A p \in DOMAIN c.teams : Len(p) > 1 \/ children(c, p) # {} => c.teams[p].privacy # "secret"

\* dualRoleTeams.
OneTeamRole(c) ==
  \A p \in DOMAIN c.teams :
    normalize(c.teams[p].members) \cap normalize(c.teams[p].maintainers) = {}

\* Repositories share no name, present or previous, in any spelling.
validateRepos(c) ==
  /\ \A r \in DOMAIN c.repos : c.repos[r].archived # "false"
  /\ \A r, s \in DOMAIN c.repos : r # s =>
       normalize(c.repos[r].previously \cup {r}) \cap normalize(c.repos[s].previously \cup {s}) = {}

\* All errors are collected, so that the order of the checks makes no difference.
checkOrg(c) == /\ EnoughAdmins(c)
               /\ OneOrgRole(c)
               /\ TeamsInOrg(c)
               /\ TeamNamesUnique(c)
               /\ NestedClosed(c)
               /\ OneTeamRole(c)
               /\ validateRepos(c)

-----------------------------------------------------------------------------
(* The aliases of an organisation.                                         *)

\* NormLogin(aliasPrefix + teamName), with the prefix <parents>/.
aliasOf(p) == [i \in DOMAIN p |-> Norm[p[i]]]

\* addMembersFromTeams: a team without members of its own has no alias, whatever
\* its children have, and teams whose names differ in case only share one.
addMembersFromTeams(c) ==
  LET users(p) == normalize(c.teams[p].members \cup c.teams[p].maintainers)
      paths == {p \in DOMAIN c.teams : users(p) # {}}
  IN  [a \in {aliasOf(p) : p \in paths} |-> UNION {users(p) : p \in {q \in paths : aliasOf(q) = a}}]
=============================================================================
