------------------------------ MODULE Surfaces ------------------------------
(***************************************************************************)
(* "One Rust core, three outputs": a chain node asks through the C ABI, a  *)
(* browser through WebAssembly, a phone through Flutter.  The three        *)
(* wrappers are three hand-written files; this module asks them the same   *)
(* questions.                                                              *)
(***************************************************************************)
EXTENDS CAbi, FlutterApi, WasmApi

CONSTANT Questions      \* <<function, arguments>> for browser and phone

(* The parameters both surfaces give a function.                           *)
Parameters == [
    generate_keypair       |-> {"curve"},
    sign                   |-> {"curve", "secret", "msg"},
    verify_signature       |-> {"curve", "public_key", "msg", "sig"},
    did_from_public        |-> {"curve", "public_key"},
    seed_generate_mnemonic |-> {},
    seed_derive_k1         |-> {"mnemonic", "passphrase"},
    webauthn_verify        |-> {"auth_data", "client_data_json", "signature", "challenge",
                                "public_key", "origin", "rp_id", "require_uv"},
    compute_nullifier      |-> {"secret", "topic"},
    semaphore_nullifier    |-> {"secret", "election_id"},
    semaphore_bind_nonce   |-> {"election_id", "nullifier", "signal"},
    bbs_generate_keypair   |-> {"message_count"},
    bbs_sign_credential    |-> {"claims", "secret"},
    bbs_derive_proof       |-> {"claims", "signature", "reveal", "nonce"},
    bbs_verify_proof       |-> {"proof", "public_key", "nonce"},
    vote_prove             |-> {"claims", "signature", "issuer_public_key", "reveal",
                                "chain_id", "election_id", "signal"}]

(* A question gives every parameter a value, and a list of claims to the   *)
(* parameter of that name alone: Rust and Dart check the types.            *)
ASSUME QuestionsAssumption ==
    \A q \in Questions :
        /\ q[1] \in DOMAIN Parameters
        /\ DOMAIN q[2] = Parameters[q[1]]
        /\ q[2] = [n \in Parameters[q[1]] |-> q[2][n]]
        /\ \A n \in DOMAIN q[2] \ {"claims"} : q[2][n][1] # "claims"
        /\ "claims" \in DOMAIN q[2] =>
              LET s == q[2].claims[2]
              IN q[2].claims = <<"claims", [i \in 1..Len(s) |-> s[i]]>> /\ Len(s) \in Nat

VARIABLE asked          \* the question the browser and the phone were asked last

svars == <<memory, last, asked>>

NoQuestion == <<"none">>

SInit == CInit /\ asked = NoQuestion

Ask ==
    /\ MayCall
    /\ asked' \in Questions
    /\ UNCHANGED cvars

SNext ==
    \/ Ask
    \/ /\ VerifySignature \/ BbsVerifyProof \/ WebauthnVerify \/ ComputeNullifier \/ Refill
       /\ asked' = NoQuestion

SSpec == SInit /\ [][SNext]_svars
-----------------------------------------------------------------------------
(* The question behind a C call: its arguments by value, as the caller's   *)
(* memory was when it called.  A NULL with a length names no bytes, and    *)
(* what is not UTF-8 is no string.                                         *)
Named(r) == r[1] # NULL \/ r[2] = 0
Stored(r) == IF r[2] = 0 THEN <<>> ELSE SubSeq(last.before, r[1], r[1] + r[2] - 1)

Names(f) ==
    CASE f = "verify_signature"  -> {"public_key", "msg", "sig"}
      [] f = "bbs_verify_proof"  -> {"proof", "public_key", "nonce"}
      [] f = "compute_nullifier" -> {"secret", "topic"}
      [] f = "webauthn_verify"   -> {"auth_data", "client_data_json", "signature", "challenge",
                                     "public_key", "origin", "rp_id"}
Strings == {"origin", "rp_id"}

Meaningful ==
    /\ \A n \in Names(last.f) : Named(last.args[n])
    /\ \A n \in Names(last.f) \cap Strings :
          \A i \in DOMAIN Stored(last.args[n]) : IsUtf8(Stored(last.args[n])[i])

ByValue ==
    [n \in DOMAIN last.args \ {"out"} |->
        CASE n \in Names(last.f) \ Strings -> Bytes(Stored(last.args[n]))
          [] n \in Names(last.f) \cap Strings -> Text(Stored(last.args[n]))
          [] n = "curve" -> <<"u8", last.args[n]>>
          [] n = "require_uv" -> Bool(last.args[n] # 0)]

IsVerdict == last # NoCall /\ last.f # "compute_nullifier"

(* The chain accepts exactly what the phone and the browser accept: a      *)
(* verifying export returns 1 if and only if its arguments name bytes and  *)
(* both other surfaces say true of those bytes.  A null pointer with a     *)
(* length, text that is not UTF-8, an unknown curve, a panic: all 0.       *)
ChainAcceptsWhatAppsAccept ==
    IsVerdict =>
        (last.returned = <<1>> <=>
            /\ Meaningful
            /\ Api(last.f, ByValue) = Ok(Bool(TRUE))
            /\ Wasm(last.f, ByValue) = Ok(Bool(TRUE)))

(* phi_compute_nullifier writes the nullifier that the phone computes from *)
(* the bytes the caller passed, also when out overlaps the secret or the   *)
(* topic; it writes inside the stated capacity and nowhere else, and when  *)
(* it does not return 1 memory is as it was.                               *)
NullifierLandsInOut ==
    (last # NoCall /\ last.f = "compute_nullifier") =>
        LET out == last.args.out
            inOut == out[1]..(out[1] + out[2] - 1)
        IN IF last.returned = <<1>>
           THEN /\ Meaningful
                /\ Api("compute_nullifier", ByValue)
                      = Ok(Bytes(SubSeq(memory, out[1], out[1] + NULLIFIER_LEN - 1)))
                /\ \A i \in 1..MEM : memory[i] # last.before[i] => i \in inOut
           ELSE memory = last.before

(* The arguments of a question as JavaScript passes them.                  *)
AsJs(args) ==
    [n \in DOMAIN args |->
        IF args[n][1] # "claims" THEN args[n]
        ELSE <<"array", [i \in DOMAIN args[n][2] |-> <<"Uint8Array", args[n][2][i]>>]>>]

(* A question one of whose claims is not a Uint8Array.                     *)
Spoiled(args, i) == [AsJs(args) EXCEPT !.claims = <<"array", [@[2] EXCEPT ![i] = <<"other">>]>>]

(* The browser and the phone give the same answer to the same question,    *)
(* errors included; and a credential with one claim that is not a          *)
(* Uint8Array, which only a page can pass, is refused: what is signed,     *)
(* disclosed or voted with is never a shorter list than the page passed.   *)
BrowserAgreesWithPhone ==
    asked # NoQuestion =>
        /\ Wasm(asked[1], AsJs(asked[2])) = Api(asked[1], asked[2])
        /\ "claims" \in DOMAIN asked[2] =>
              \A i \in DOMAIN asked[2].claims[2] :
                  Wasm(asked[1], Spoiled(asked[2], i)) = Message("each claim must be a Uint8Array")
=============================================================================
