--------------------------- MODULE MCIdempotency ---------------------------
(***************************************************************************)
(* Instance of Idempotency for TLC.  Requests are interchangeable, and so  *)
(* are keys and fingerprints, in every safety property.                    *)
(***************************************************************************)
EXTENDS Idempotency, TLC

Symmetry == Permutations(Requests) \cup Permutations(Keys) \cup Permutations(Fingerprints)
============================================================================
