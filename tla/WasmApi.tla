------------------------------ MODULE WasmApi ------------------------------
(***************************************************************************)
(* The browser surface, src/wasm.rs: one wrapper per function exported to  *)
(* JavaScript.  Claims arrive as a JavaScript Array whose elements may be  *)
(* anything: a value <<"array", s>> whose elements are <<"Uint8Array", b>> *)
(* or <<"other">>.  Errors are JavaScript strings.                         *)
(***************************************************************************)
EXTENDS CoreApi

(* curve_from_code of wasm.rs                                              *)
WasmCurveKnown(code) == code[2] = 0 \/ code[2] = 1
WasmCurve(code) == <<"curve", code[2]>>

(* Mutant: an element that is not a Uint8Array is left out.                *)
claims_from_array_skipping(array) ==
    LET taken == SelectSeq(array[2], LAMBDA v : v[1] = "Uint8Array")
    IN Ok(<<"claims", [i \in DOMAIN taken |-> taken[i][2]]>>)

(* One element that is not a Uint8Array refuses the whole array.           *)
claims_from_array(array) ==
    IF \E i \in DOMAIN array[2] : array[2][i][1] # "Uint8Array"
    THEN Message("each claim must be a Uint8Array")
    ELSE Ok(<<"claims", [i \in DOMAIN array[2] |-> array[2][i][2]]>>)

(* A function of a list of claims, and its other arguments.                *)
WithClaims(f, array, rest) ==
    LET claims == claims_from_array(array)
    IN IF claims[1] = "err" THEN claims ELSE Stringly(Core(f, <<claims[2]>> \o rest))
-----------------------------------------------------------------------------
wasm_generate_keypair(a) ==
    IF WasmCurveKnown(a.curve) THEN Core("did::generate_keypair", <<WasmCurve(a.curve)>>)
    ELSE CurveError

wasm_sign(a) ==
    IF WasmCurveKnown(a.curve)
    THEN Stringly(Core("did::sign", <<WasmCurve(a.curve), a.secret, a.msg>>))
    ELSE CurveError

wasm_verify_signature(a) ==
    IF WasmCurveKnown(a.curve)
    THEN Core("did::verify", <<WasmCurve(a.curve), a.public_key, a.msg, a.sig>>)
    ELSE Ok(Bool(FALSE))

wasm_did_from_public(a) ==
    IF WasmCurveKnown(a.curve)
    THEN Stringly(Core("did::did_from_public", <<WasmCurve(a.curve), a.public_key>>))
    ELSE CurveError

wasm_seed_generate_mnemonic(a) == Core("seed::generate_mnemonic", <<>>)

wasm_seed_derive_k1(a) ==
    Stringly(Core("seed::derive_k1_keypair", <<a.mnemonic, a.passphrase>>))

wasm_webauthn_verify(a) ==
    Core("webauthn::verify_webauthn",
         << <<a.auth_data, a.client_data_json, a.signature>>,
            a.challenge, a.public_key, a.origin, a.rp_id, a.require_uv>>)

wasm_compute_nullifier(a) == Core("voting::compute_nullifier", <<a.secret, a.topic>>)

wasm_semaphore_nullifier(a) == Core("semaphore::nullifier", <<a.secret, a.election_id>>)

wasm_semaphore_bind_nonce(a) ==
    IF Len(a.nullifier[2]) = NULLIFIER_LEN
    THEN Core("semaphore::bind_nonce", <<a.election_id, a.nullifier, a.signal>>)
    ELSE Ok(Bytes(<<>>))

(* Behind the voting_snark feature.                                        *)
wasm_vote_prove(a) ==
    WithClaims("voting_snark::prove_vote_bytes", a.claims,
               <<a.signature, a.issuer_public_key, a.reveal,
                 a.chain_id, a.election_id, a.signal>>)

wasm_bbs_generate_keypair(a) == Stringly(Core("bbs::generate_keypair", <<a.message_count>>))

wasm_bbs_sign_credential(a) == WithClaims("bbs::sign_credential", a.claims, <<a.secret>>)

wasm_bbs_derive_proof(a) ==
    WithClaims("bbs::derive_proof", a.claims, <<a.signature, a.reveal, a.nonce>>)

wasm_bbs_verify_proof(a) ==
    Core("bbs::verify_proof_bytes", <<a.proof, a.public_key, a.nonce>>)

(* The functions by the name they share with the Flutter surface.          *)
Wasm(f, a) ==
    CASE f = "generate_keypair"       -> wasm_generate_keypair(a)
      [] f = "sign"                   -> wasm_sign(a)
      [] f = "verify_signature"       -> wasm_verify_signature(a)
      [] f = "did_from_public"        -> wasm_did_from_public(a)
      [] f = "seed_generate_mnemonic" -> wasm_seed_generate_mnemonic(a)
      [] f = "seed_derive_k1"         -> wasm_seed_derive_k1(a)
      [] f = "webauthn_verify"        -> wasm_webauthn_verify(a)
      [] f = "compute_nullifier"      -> wasm_compute_nullifier(a)
      [] f = "semaphore_nullifier"    -> wasm_semaphore_nullifier(a)
      [] f = "semaphore_bind_nonce"   -> wasm_semaphore_bind_nonce(a)
      [] f = "vote_prove"             -> wasm_vote_prove(a)
      [] f = "bbs_generate_keypair"   -> wasm_bbs_generate_keypair(a)
      [] f = "bbs_sign_credential"    -> wasm_bbs_sign_credential(a)
      [] f = "bbs_derive_proof"       -> wasm_bbs_derive_proof(a)
      [] f = "bbs_verify_proof"       -> wasm_bbs_verify_proof(a)
=============================================================================
