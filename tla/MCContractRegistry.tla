-------------------------- MODULE MCContractRegistry --------------------------
(***************************************************************************)
(* Two reloads of a domain with two agents overlap with two edits and a    *)
(* restart.                                                                *)
(***************************************************************************)
EXTENDS ContractRegistry, TLC

\* domain.yaml and one agent of the overlay, the other agent of the image.
MCEditable == {<<ContractsDir, 0>>, <<ContractsDir, 1>>, <<Builtin, 2>>}

MCSymmetry == Permutations(Reloaders) \cup Permutations(Editors)

===============================================================================
