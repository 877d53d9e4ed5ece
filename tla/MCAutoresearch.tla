---------------------------- MODULE MCAutoresearch ----------------------------
(***************************************************************************)
(* A domain with two agents under app/domains, edited while an improvement *)
(* run measures it and its agent runs are evaluated.                       *)
(***************************************************************************)
EXTENDS Autoresearch, TLC

MCEditable == {Builtin} \X Contracts

MCTargetChoices == {{}, {<<Builtin, 1>>}}

\* 113 of 119 passed is 0.9496: one failure more or less crosses 0.95.
MCStartCounts == {<<0, 0>>, <<113, 6>>}

MCSymmetry == Permutations(Runs)

===============================================================================
