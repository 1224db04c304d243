--------------------------- MODULE MCIdempotency ----------------------------
(***************************************************************************)
(* Model-checking instances of Idempotency.                                *)
(***************************************************************************)
EXTENDS Idempotency, TLC
=============================================================================
