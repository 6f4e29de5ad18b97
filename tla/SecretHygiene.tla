--------------------------- MODULE SecretHygiene ---------------------------
(***************************************************************************)
(* Where secrets live while a function of the crate runs, and what is left *)
(* of them when it returns.  A function is the list of its steps that      *)
(* touch a secret, in the order of the source; any step marked Fail may    *)
(* return early with an error (the ? operator).  A holder is a variable    *)
(* that owns a copy: it wipes its copy when it is dropped (Zeroizing, and  *)
(* the key types of the curve crates) or it does not (a plain array, Vec   *)
(* or String).  Borrowed arguments belong to the caller and are no         *)
(* holders.  Secrets are keys, phrases, passphrases, claims, and the       *)
(* credential signature in the hands of its holder; what a proof reveals   *)
(* and what an issuer hands out signed is not.                             *)
(*                                                                         *)
(* Moves are not copies here: what a compiler leaves in registers or in a  *)
(* moved-from stack slot is outside the model.                             *)
(***************************************************************************)
EXTENDS Naturals, Sequences

VARIABLES
    function,           \* the function that runs
    pc,                 \* how many of its steps are done
    holders,            \* holder |-> what it holds and whether it wipes on drop
    residue,            \* holders that were dropped with a secret un-wiped
    result              \* "running", "ok" or "err"

vars == <<function, pc, holders, residue, result>>

(* Steps.                                                                  *)
New(x, secret, wipes) == [op |-> "new", to |-> x, secret |-> secret, wipes |-> wipes]
Blank(x) == New(x, FALSE, FALSE)                            \* a buffer still to be filled
Enter(x) == New(x, TRUE, FALSE)                             \* a plain owned secret
Hold(x) == New(x, TRUE, TRUE)                               \* one that wipes on drop
CopyTo(x, y) == [op |-> "copy", from |-> x, to |-> y, wipes |-> TRUE]
PlainCopy(x, y) == [op |-> "copy", from |-> x, to |-> y, wipes |-> FALSE]
Wrap(x) == [op |-> "wrap", of |-> x, wipes |-> TRUE]        \* Zeroizing::new(x)
Wipe(x) == [op |-> "wipe", of |-> x]                        \* x.zeroize()
Drop(x) == [op |-> "drop", of |-> x]
Give(x) == [op |-> "give", of |-> x]                        \* moved to the caller
Fail == [op |-> "fail"]                                     \* may return an error
Grow(x) == [op |-> "grow", of |-> x]                        \* x may be reallocated

(* mem::take: the value leaves its wrapper by move and is plain from then  *)
(* on; the wrapper is left empty.                                          *)
into_boundary_owned(x) == <<[op |-> "wrap", of |-> x, wipes |-> FALSE]>>

Returned(steps) == steps \o into_boundary_owned("secret") \o <<Give("secret")>>
-----------------------------------------------------------------------------
(* The core crate.                                                         *)

did_generate_keypair == <<Hold("sk"), CopyTo("sk", "sk_bytes"), CopyTo("sk_bytes", "secret")>>

did_sign == <<Fail, Hold("sk")>>

seed_generate_mnemonic == <<Hold("mnemonic"), CopyTo("mnemonic", "secret")>>

(* passphrase.nfkd().collect::<String>() reserves a quarter of the length  *)
(* and grows from there before Zeroizing::new sees it.                     *)
seed_derive_k1_keypair ==
    <<Fail, Hold("mnemonic"), Fail, Enter("passphrase"), Grow("passphrase"), Wrap("passphrase"),
      Hold("seed"), Fail, Hold("xprv"), CopyTo("xprv", "sk_bytes"), CopyTo("sk_bytes", "secret")>>

(* Vec::new() is written in pieces, eight bytes of a scalar at a time, and *)
(* grows as they come; writing to a Vec does not fail half way.            *)
ser(x, y) == <<Fail, PlainCopy(x, y), Grow(y)>>

bbs_generate_keypair ==
    <<Fail, Hold("kp")>> \o ser("kp", "secret") \o <<Wrap("secret"), Fail>>

bbs_sign_credential == <<Fail, Fail, Hold("sk"), Hold("messages"), Fail>>

bbs_derive_proof == <<Fail, Fail, Hold("sig"), Hold("messages"), Fail, Hold("pok"), Fail>>

public_from_secret == <<Hold("sk_bytes"), Fail, Hold("sk")>>

bbs_2023_generate_keypair ==
    <<Blank("ikm"), Enter("ikm"), Fail, CopyTo("ikm", "key_pair"), Wipe("ikm"),
      PlainCopy("key_pair", "sk"), CopyTo("sk", "secret"), Wipe("sk")>>

bbs_2023_sign_credential == <<Fail>> \o public_from_secret \o <<Fail>>

(* The request owns a clone of every claim, the hidden ones too.           *)
proof_gen == <<Fail, Enter("proof_messages"), Fail>>

bbs_2023_derive_proof == <<Fail>> \o proof_gen

blinded_mul ==
    <<Hold("blind"), CopyTo("m0", "masked"), CopyTo("masked", "masked_exp"),
      CopyTo("blind", "blind_exp"), Drop("blind"), Drop("masked"), Drop("masked_exp"),
      Drop("blind_exp")>>

prove_vote ==
    <<Fail, Hold("sig"), Fail, Hold("messages"), CopyTo("messages", "m0"), Hold("r0"), Fail>>
    \o blinded_mul \o <<Fail, Hold("pok"), CopyTo("m0", "dl"), Fail>>
-----------------------------------------------------------------------------
(* Flutter.  The wrappers of api.rs own the arguments the generated        *)
(* decoders made for them.                                                 *)

api_generate_keypair == <<Fail>> \o did_generate_keypair \o into_boundary_owned("secret")

api_sign == <<Enter("secret"), Wrap("secret"), Fail>> \o did_sign

api_seed_generate_mnemonic == seed_generate_mnemonic \o into_boundary_owned("secret")

api_seed_derive_k1 ==
    <<Enter("phrase"), Enter("pass"), Wrap("phrase"), Wrap("pass")>>
    \o seed_derive_k1_keypair \o into_boundary_owned("secret")

api_nullifier == <<Enter("secret"), Wrap("secret")>>

api_bbs_generate_keypair == bbs_generate_keypair \o into_boundary_owned("secret")

api_bbs_sign_credential ==
    <<Enter("claims"), Enter("secret"), Wrap("claims"), Wrap("secret")>> \o bbs_sign_credential

api_bbs_derive_proof ==
    <<Enter("claims"), Enter("signature"), Wrap("claims"), Wrap("signature")>> \o bbs_derive_proof

(* The signature stays the plain Vec it came in.                           *)
api_vote_prove == <<Enter("claims"), Enter("signature"), Wrap("claims")>> \o prove_vote

(* The generated encoder consumes the Vec, or the bytes of the String,     *)
(* copies it byte by byte into the answer for Dart and frees it as it is.  *)
sse_encode_secret == <<PlainCopy("secret", "answer"), Drop("secret"), Give("answer")>>

wire_generate_keypair == api_generate_keypair \o sse_encode_secret

wire_seed_generate_mnemonic == api_seed_generate_mnemonic \o sse_encode_secret

wire_seed_derive_k1 == api_seed_derive_k1 \o sse_encode_secret

wire_bbs_generate_keypair == api_bbs_generate_keypair \o sse_encode_secret
-----------------------------------------------------------------------------
(* The browser.  An error at a later claim drops the claims copied so far. *)
claims_from_array == <<Enter("claims"), Fail>>

wasm_bbs_sign_credential == claims_from_array \o <<Wrap("claims")>> \o bbs_sign_credential

wasm_bbs_derive_proof == claims_from_array \o <<Wrap("claims")>> \o bbs_derive_proof

wasm_vote_prove == claims_from_array \o <<Wrap("claims")>> \o prove_vote

(* WasmKeyPair and WasmBbsKeyPair keep the secret, wipe it on drop, and    *)
(* their getters hand out a clone.                                         *)
WasmKeyPair(steps) ==
    steps \o into_boundary_owned("secret")
    \o <<Wrap("secret"), PlainCopy("secret", "clone"), Give("clone")>>

Program == [
    did_generate_keypair      |-> Returned(did_generate_keypair),
    seed_generate_mnemonic    |-> Returned(seed_generate_mnemonic),
    seed_derive_k1_keypair    |-> Returned(seed_derive_k1_keypair),
    bbs_generate_keypair      |-> Returned(bbs_generate_keypair),
    bbs_2023_generate_keypair |-> Returned(bbs_2023_generate_keypair),
    bbs_2023_sign_credential  |-> bbs_2023_sign_credential,
    bbs_2023_derive_proof     |-> bbs_2023_derive_proof,
    wire_generate_keypair     |-> wire_generate_keypair,
    wire_sign                 |-> api_sign,
    wire_seed_generate_mnemonic |-> wire_seed_generate_mnemonic,
    wire_seed_derive_k1       |-> wire_seed_derive_k1,
    wire_nullifier            |-> api_nullifier,
    wire_bbs_generate_keypair |-> wire_bbs_generate_keypair,
    wire_bbs_sign_credential  |-> api_bbs_sign_credential,
    wire_bbs_derive_proof     |-> api_bbs_derive_proof,
    api_vote_prove            |-> api_vote_prove,
    wasm_generate_keypair     |-> WasmKeyPair(<<Fail>> \o did_generate_keypair),
    wasm_seed_derive_k1       |-> WasmKeyPair(seed_derive_k1_keypair),
    wasm_bbs_generate_keypair |-> WasmKeyPair(bbs_generate_keypair),
    wasm_bbs_sign_credential  |-> wasm_bbs_sign_credential,
    wasm_bbs_derive_proof     |-> wasm_bbs_derive_proof,
    wasm_vote_prove           |-> wasm_vote_prove]
-----------------------------------------------------------------------------
Step == Program[function][pc + 1]

Init ==
    /\ function \in DOMAIN Program
    /\ pc = 0
    /\ holders = <<>>
    /\ residue = {}
    /\ result = "running"

(* What remains of a set of holders when they go out of scope.             *)
Unwiped(dropped) == {x \in dropped : holders[x].secret /\ ~holders[x].wipes}

Return(how) ==
    /\ result' = how
    /\ residue' = residue \cup Unwiped(DOMAIN holders)
    /\ holders' = <<>>

Holding(x, secret, wipes) ==
    holders' = [y \in DOMAIN holders \cup {x} |->
                  IF y = x THEN [secret |-> secret, wipes |-> wipes] ELSE holders[y]]

Without(x) == [y \in DOMAIN holders \ {x} |-> holders[y]]

(* One step of the function's body.                                        *)
Do(step) ==
    \/ /\ step.op = "new"
       /\ Holding(step.to, step.secret, step.wipes)
       /\ UNCHANGED residue
    \/ /\ step.op = "copy"
       /\ Holding(step.to, holders[step.from].secret, step.wipes)
       /\ UNCHANGED residue
    \/ /\ step.op = "wrap"
       /\ Holding(step.of, holders[step.of].secret, step.wipes)
       /\ UNCHANGED residue
    \/ /\ step.op = "wipe"
       /\ Holding(step.of, FALSE, holders[step.of].wipes)
       /\ UNCHANGED residue
    \/ /\ step.op = "drop"
       /\ holders' = Without(step.of)
       /\ residue' = residue \cup Unwiped({step.of})
    \/ /\ step.op = "give"
       /\ holders' = Without(step.of)
       /\ UNCHANGED residue
    \/ /\ step.op = "grow"
       /\ residue' \in {residue, residue \cup {step.of}}
       /\ UNCHANGED holders
    \/ /\ step.op = "fail"
       /\ UNCHANGED <<holders, residue>>

Continue ==
    /\ result = "running"
    /\ pc < Len(Program[function])
    /\ Do(Step)
    /\ pc' = pc + 1
    /\ UNCHANGED <<function, result>>

FailHere ==
    /\ result = "running"
    /\ pc < Len(Program[function])
    /\ Step.op = "fail"
    /\ Return("err")
    /\ UNCHANGED <<function, pc>>

Finish ==
    /\ result = "running"
    /\ pc = Len(Program[function])
    /\ Return("ok")
    /\ UNCHANGED <<function, pc>>

(* The next call may be of any function.                                   *)
CallAgain ==
    /\ result # "running"
    /\ function' \in DOMAIN Program
    /\ pc' = 0
    /\ residue' = {}
    /\ result' = "running"
    /\ UNCHANGED holders

Next == Continue \/ FailHere \/ Finish \/ CallAgain

Spec == Init /\ [][Next]_vars
-----------------------------------------------------------------------------
(* "Secret material is ... zeroized after use" (SECURITY.md:49), "Secret    *)
(* inputs are held in zeroizing memory" (SECURITY.md:73), "No secret       *)
(* leaves Rust as an extra, un-wiped copy" (tests/secret_boundary.rs:2):   *)
(* however a function returns, by its last line or by an early error, no   *)
(* copy of a secret it owned is left in memory un-wiped, except the one it *)
(* handed to its caller.                                                   *)
ZeroizedAfterUse == residue = {}
=============================================================================
