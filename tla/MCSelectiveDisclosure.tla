----------------------- MODULE MCSelectiveDisclosure -----------------------
(* Model-checking instance of SelectiveDisclosure. *)
EXTENDS SelectiveDisclosure, TLC

KeySymmetry == Permutations(Keys) \cup Permutations(Claims) \cup Permutations(Nonces)
=============================================================================
