------------------------ MODULE MCIdempotencyCache ------------------------
(***************************************************************************)
(* Small instances of IdempotencyCache: one key more than the capacity, so *)
(* that an unexpired entry may have to go, and a clock that runs past the  *)
(* TTL of an entry that was written late.                                  *)
(***************************************************************************)
EXTENDS IdempotencyCache
=============================================================================
