-------------------------- MODULE MCAliasesBumper --------------------------
(***************************************************************************)
(* AliasesBumper with the alias of one child team.                         *)
(***************************************************************************)
EXTENDS AliasesBumper, TLC

MCNorm == [s \in {"alice", "bob", "Bob", "core", "Core", "sub"} |->
             CASE s = "Bob" -> "bob" [] s = "Core" -> "core" [] OTHER -> s]

MCAliases == {<<"core", "sub">>}

Team(members, maintainers) ==
  [members |-> members, maintainers |-> maintainers, previously |-> {}, privacy |-> "closed"]

Config(members, team) ==
  [admins |-> {"alice"}, members |-> members,
   teams |-> <<"Core">> :> Team({"alice"}, {}) @@ <<"Core", "sub">> :> team,
   repos |-> "core" :> [previously |-> {}, archived |-> "unset"]]

\* Bob is on the team; he has left; the team is empty; he has left the
\* organisation and still maintains the team, which peribolos-checkconfig
\* rejects.
MCConfigs ==
  [ both     |-> Config({"Bob"}, Team({"alice"}, {"Bob"})),
    left     |-> Config({}, Team({"alice"}, {})),
    empty    |-> Config({"Bob"}, Team({}, {})),
    rejected |-> Config({}, Team({}, {"Bob"})) ]
=============================================================================
