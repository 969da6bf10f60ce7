---------------------------- MODULE MCJobForker ----------------------------
(***************************************************************************)
(* JobForker with a repository whose name is the beginning of another's,   *)
(* such as gardener/gardener and gardener/gardener-extension.              *)
(***************************************************************************)
EXTENDS JobForker

CONSTANTS gardener, extension

PrefixPairs == {<<gardener, extension>>}
=============================================================================
