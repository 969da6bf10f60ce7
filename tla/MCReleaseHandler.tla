-------------------------- MODULE MCReleaseHandler --------------------------
(***************************************************************************)
(* ReleaseHandler with a release, its patch, and bumps of the minor and of *)
(* the major version.                                                      *)
(***************************************************************************)
EXTENDS ReleaseHandler

V(major, minor, patch, dev) == [major |-> major, minor |-> minor, patch |-> patch, dev |-> dev]

MCVersions == {V(1, 1, 0, TRUE), V(1, 1, 0, FALSE), V(1, 1, 1, TRUE),
               V(1, 2, 1, TRUE), V(2, 0, 0, TRUE)}
=============================================================================
