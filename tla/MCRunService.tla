---------------------------- MODULE MCRunService ----------------------------
(***************************************************************************)
(* Small instances of RunService.  Two requests share a client_run_id, the *)
(* third uses another one of the same tenant: in a cache of capacity one   *)
(* it pushes the entry of the others out.                                  *)
(***************************************************************************)
EXTENDS RunService

CONSTANTS r1, r2, r3, t1, k1, k2

OneTenant == [r \in Requests |-> t1]

SharedKey == [r \in Requests |-> IF r = r3 THEN k2 ELSE k1]
=============================================================================
