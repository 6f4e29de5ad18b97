----------------------------- MODULE FlutterApi -----------------------------
(***************************************************************************)
(* The hand-written Flutter surface, bindings/flutter/rust/src/api.rs: one *)
(* wrapper per exported function.  A wrapper turns a curve code into a     *)
(* curve, a nullifier of unknown length into a 32-byte array, a core error *)
(* into its text, and hands everything else to the core crate.  The        *)
(* arguments of a call are a record: parameter name |-> value.             *)
(***************************************************************************)
EXTENDS CoreApi

(* curve_from_code: 0 is secp256k1, 1 is secp256r1, anything else an error *)
Curve(code) == <<"curve", code[2]>>
KnownCurve(code) == code[2] \in {0, 1}

(* <[u8; NULLIFIER_LEN]>::try_from(nullifier)                              *)
IsNullifier(v) == Len(v[2]) = NULLIFIER_LEN
-----------------------------------------------------------------------------
api_generate_keypair(a) ==
    IF KnownCurve(a.curve) THEN Core("did::generate_keypair", <<Curve(a.curve)>>)
    ELSE CurveError

api_sign(a) ==
    IF KnownCurve(a.curve)
    THEN Stringly(Core("did::sign", <<Curve(a.curve), a.secret, a.msg>>))
    ELSE CurveError

api_verify_signature(a) ==
    IF KnownCurve(a.curve)
    THEN Core("did::verify", <<Curve(a.curve), a.public_key, a.msg, a.sig>>)
    ELSE Ok(Bool(FALSE))

api_did_from_public(a) ==
    IF KnownCurve(a.curve)
    THEN Stringly(Core("did::did_from_public", <<Curve(a.curve), a.public_key>>))
    ELSE CurveError

api_seed_generate_mnemonic(a) == Core("seed::generate_mnemonic", <<>>)

api_seed_derive_k1(a) ==
    Stringly(Core("seed::derive_k1_keypair", <<a.mnemonic, a.passphrase>>))

api_webauthn_verify(a) ==
    Core("webauthn::verify_webauthn",
         << <<a.auth_data, a.client_data_json, a.signature>>,
            a.challenge, a.public_key, a.origin, a.rp_id, a.require_uv>>)

api_compute_nullifier(a) == Core("voting::compute_nullifier", <<a.secret, a.topic>>)

api_semaphore_nullifier(a) == Core("semaphore::nullifier", <<a.secret, a.election_id>>)

(* A nullifier of another length is not an error: the answer is empty.     *)
api_semaphore_bind_nonce(a) ==
    IF IsNullifier(a.nullifier)
    THEN Core("semaphore::bind_nonce", <<a.election_id, a.nullifier, a.signal>>)
    ELSE Ok(Bytes(<<>>))

api_bbs_generate_keypair(a) == Stringly(Core("bbs::generate_keypair", <<a.message_count>>))

api_bbs_sign_credential(a) ==
    Stringly(Core("bbs::sign_credential", <<a.claims, a.secret>>))

api_bbs_derive_proof(a) ==
    Stringly(Core("bbs::derive_proof", <<a.claims, a.signature, a.reveal, a.nonce>>))

api_bbs_verify_proof(a) ==
    Core("bbs::verify_proof_bytes", <<a.proof, a.public_key, a.nonce>>)

(* Behind the voting_snark feature, and not reachable from Dart.           *)
api_vote_prove(a) ==
    Stringly(Core("voting_snark::prove_vote_bytes",
                  <<a.claims, a.signature, a.issuer_public_key, a.reveal,
                    a.chain_id, a.election_id, a.signal>>))

(* crate::api::f(..), as the generated glue names it                       *)
Api(f, a) ==
    CASE f = "generate_keypair"       -> api_generate_keypair(a)
      [] f = "sign"                   -> api_sign(a)
      [] f = "verify_signature"       -> api_verify_signature(a)
      [] f = "did_from_public"        -> api_did_from_public(a)
      [] f = "seed_generate_mnemonic" -> api_seed_generate_mnemonic(a)
      [] f = "seed_derive_k1"         -> api_seed_derive_k1(a)
      [] f = "webauthn_verify"        -> api_webauthn_verify(a)
      [] f = "compute_nullifier"      -> api_compute_nullifier(a)
      [] f = "semaphore_nullifier"    -> api_semaphore_nullifier(a)
      [] f = "semaphore_bind_nonce"   -> api_semaphore_bind_nonce(a)
      [] f = "bbs_generate_keypair"   -> api_bbs_generate_keypair(a)
      [] f = "bbs_sign_credential"    -> api_bbs_sign_credential(a)
      [] f = "bbs_derive_proof"       -> api_bbs_derive_proof(a)
      [] f = "bbs_verify_proof"       -> api_bbs_verify_proof(a)
      [] f = "vote_prove"             -> api_vote_prove(a)
=============================================================================
