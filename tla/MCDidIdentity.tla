--------------------------- MODULE MCDidIdentity ---------------------------
(* Model-checking instance of DidIdentity. *)
EXTENDS DidIdentity

(* One-bit checksums over three entropies: two of them share one, as 256   *)
(* values shared by 2^256 entropies must.                                  *)
BitChecksum == [e \in 1..3 |-> e % 2]

(* A passphrase typed composed or decomposed, and another one.             *)
ThreeSpellings == {"composed", "decomposed", "another"}
Normal == [p \in ThreeSpellings |-> IF p = "composed" THEN "decomposed" ELSE p]
=============================================================================
