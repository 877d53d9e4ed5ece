----------------------------- MODULE MCRagIndex -----------------------------
(***************************************************************************)
(* Three deployments: with a database and Qdrant, with neither, and the    *)
(* defaults of app/settings.py, Qdrant without a database.                 *)
(***************************************************************************)
EXTENDS RagIndex, TLC

Default == [sql |-> FALSE, qdrant |-> TRUE]
Production == [sql |-> TRUE, qdrant |-> TRUE]
Local == [sql |-> FALSE, qdrant |-> FALSE]

AllDeployments == {Default, Production, Local}
DefaultDeployment == {Default}

NameSymmetry ==
    Permutations(Callers) \cup Permutations(Tenants) \cup Permutations(Collections)

=============================================================================
