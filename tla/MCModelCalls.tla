----------------------------- MODULE MCModelCalls -----------------------------
(***************************************************************************)
(* A run with up to three prior summaries, a call of the critic and one of *)
(* the judge, with every provider.                                         *)
(***************************************************************************)
EXTENDS ModelCalls, TLC

Open(provider, keyed) ==
    [provider |-> provider, keyed |-> keyed, auth |-> FALSE, admins |-> {},
     tenantOf |-> [k \in Keys |-> "none"], restricted |-> keyed]

\* A key may be an admin's and a tenant's at once.
Closed(admins, tenantOf) ==
    [Open("stub", FALSE) EXCEPT !.auth = TRUE, !.admins = admins, !.tenantOf = tenantOf]

MCSettings ==
    {Open(provider, keyed) : provider \in Providers, keyed \in BOOLEAN} \cup
    {Closed(admins, [k \in Keys |-> IF k \in admins THEN tenant ELSE other]) :
        admins \in {{}} \cup {{k} : k \in Keys},
        tenant \in Tenants \cup {"none"}, other \in Tenants}

\* The critic shares nothing with the runs and their judges.
MCCallers == {Critics, Runners \cup Judges}

===============================================================================
