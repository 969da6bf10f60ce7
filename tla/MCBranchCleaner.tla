--------------------------- MODULE MCBranchCleaner ---------------------------
(***************************************************************************)
(* BranchCleaner with release branches around v1.10, where numbers and the *)
(* alphabet disagree, and with a branch whose name holds no version.       *)
(***************************************************************************)
EXTENDS BranchCleaner

V(major, minor) == [major |-> major, minor |-> minor]

v1_9  == V(<<1>>, <<9>>)
v1_10 == V(<<1>>, <<1, 0>>)
v2_0  == V(<<2>>, <<0>>)

\* A branch whose name holds no version, as "release-next" would.
next == V(<<10>>, <<>>)

Releases == {v1_9, v1_10, v2_0}

Various == Releases \cup {next}
=============================================================================
