----------------------------- MODULE Transcript -----------------------------
(***************************************************************************)
(* What the voting code hashes: src/src/voting.rs, src/src/semaphore.rs    *)
(* and bind_context of src/src/voting_snark.rs.                            *)
(*                                                                         *)
(* A byte and a big-endian length word are both one cell, so an encoding   *)
(* without length words would be as ambiguous here as in the code.  The    *)
(* hash functions are collision free (external): a digest is represented   *)
(* by the cells that were hashed.                                          *)
(***************************************************************************)
EXTENDS Integers, Sequences

ByteStrings == Seq(Nat)

(* Domain separation tags, constants of fixed length.                      *)
NULLIFIER_TAG == 1      \* "phi-nullifier-v1"
EXTNULL_TAG == 2        \* "phi-extnull-v1"
VOTE_BIND_TAG == 3      \* "phi-vote-bind-v2"
BIND_DOMAIN == 4        \* "phi-vote-snark-bind-v1"

(* A u64 length word, the bytes, and what follows them.                    *)
Framed(b, rest) == <<Len(b)>> \o b \o rest

compute_nullifier(secret, topic) ==
    <<NULLIFIER_TAG>> \o Framed(secret, Framed(topic, <<>>))

external_nullifier(election) == <<EXTNULL_TAG>> \o Framed(election, <<>>)

(* Mutant: one nullifier per voter, whatever the election.                 *)
nullifierGlobal(secret, election) == compute_nullifier(secret, <<>>)

(* The per-election domain is itself hashed before it is the topic.        *)
nullifier(secret, election) == compute_nullifier(secret, external_nullifier(election))

(* Mutant: no length words.                                                *)
bind_nonceUnframed(election, null, signal) ==
    <<VOTE_BIND_TAG>> \o election \o signal \o null

(* bind_nonce: the nullifier has a fixed length and comes last, unframed.  *)
bind_nonce(election, null, signal) ==
    <<VOTE_BIND_TAG>> \o Framed(election, Framed(signal, null))

(* Mutant: no length words.                                                *)
bind_contextUnframed(chain, election, null, signal) ==
    <<BIND_DOMAIN>> \o chain \o election \o signal \o null

bind_context(chain, election, null, signal) ==
    <<BIND_DOMAIN>>
    \o Framed(chain, Framed(election, Framed(signal, Framed(null, <<>>))))
=============================================================================
