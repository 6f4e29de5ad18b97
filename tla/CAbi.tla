-------------------------------- MODULE CAbi --------------------------------
(***************************************************************************)
(* The C ABI, src/ffi.rs, with the caller's memory: an export receives     *)
(* pointers and lengths into memory it does not own, returns 0 or 1, and   *)
(* phi_compute_nullifier writes its answer through a pointer.  Memory is a *)
(* row of cells 1..MEM and 0 is NULL.  The caller keeps its side of the    *)
(* contract: a non-null pointer names a region that lies inside memory and *)
(* that nobody changes during the call.  It may let regions overlap, pass  *)
(* NULL, and reuse memory from call to call.                               *)
(***************************************************************************)
EXTENDS CoreApi

CONSTANTS
    MEM,            \* the caller's memory, in cells
    Cells,          \* what the caller stores there
    Lengths,        \* the lengths it passes
    IsUtf8(_),      \* cell |-> BOOLEAN
    CurveCodes,     \* the curve codes it passes
    WebauthnArgs    \* the arguments it passes to phi_webauthn_verify

VARIABLES
    memory,         \* the caller's memory
    last            \* the last call: what was passed, what memory was, what came back

cvars == <<memory, last>>

NULL == 0
Some(x) == <<"some", x>>
None == <<"none">>

(* Pointer and length pairs a caller may pass.                             *)
Regions == {r \in (0..MEM) \X Lengths : r[1] = NULL \/ r[1] + r[2] <= MEM + 1}

(* What a slice can hold.                                                  *)
Slices == UNION {[1..n -> Cells] : n \in Lengths}

ASSUME MemoryAssumption ==
    MEM \in Nat /\ Lengths \subseteq Nat /\ CurveCodes \subseteq Nat

ASSUME WebauthnAssumption ==
    WebauthnArgs \subseteq
        [auth_data : Regions, client_data_json : Regions, signature : Regions,
         challenge : Regions, public_key : Regions, origin : Regions, rp_id : Regions,
         require_uv : Nat]

(* compute_nullifier returns an array of NULLIFIER_LEN bytes, or panics.   *)
ASSUME NullifierAssumption ==
    /\ NULLIFIER_LEN \in Nat
    /\ \A secret, topic \in Slices :
          LET n == Core("voting::compute_nullifier", <<Bytes(secret), Bytes(topic)>>)
          IN \/ n = <<"panic">>
             \/ n = Ok(Bytes([i \in 1..NULLIFIER_LEN |-> n[2][2][i]]))

(* A slice borrowed from memory; None for NULL with a length.              *)
as_slice(r) ==
    IF r[2] = 0 THEN Some(Bytes(<<>>))
    ELSE IF r[1] = NULL THEN None
    ELSE Some(Bytes(SubSeq(memory, r[1], r[1] + r[2] - 1)))

as_str(r) ==
    LET s == as_slice(r)
    IN IF s # None /\ \A i \in DOMAIN s[2][2] : IsUtf8(s[2][2][i])
       THEN Some(Text(s[2][2])) ELSE None

CCurve(code) == IF code \in {0, 1} THEN Some(<<"curve", code>>) ELSE None

(* let (Some(..), ..) = (..) else { return 0 }                             *)
AllSome(options) == \A i \in DOMAIN options : options[i] # None
Values(options) == [i \in DOMAIN options |-> options[i][2]]

(* guard(0, body): what comes back to C for each outcome of the body.  A   *)
(* panic is caught in a build that unwinds and becomes 0; the release      *)
(* profile aborts, and nothing comes back.                                 *)
guard(outcome) ==
    IF outcome = <<"panic">> THEN {<<0>>, <<>>}
    ELSE {<<IF outcome = Ok(Bool(TRUE)) THEN 1 ELSE 0>>}

Rejected == Ok(Bool(FALSE))
-----------------------------------------------------------------------------
(* The bodies of the verifying exports: arguments |-> outcome.             *)

phi_verify_signature(a) ==
    LET args == <<CCurve(a.curve), as_slice(a.public_key), as_slice(a.msg), as_slice(a.sig)>>
    IN IF AllSome(args) THEN Core("did::verify", Values(args)) ELSE Rejected

(* Mutant: require_uv is tested against 1 instead of against 0.            *)
phi_webauthn_verify_uv_is_one(a) ==
    LET args == <<as_slice(a.auth_data), as_slice(a.client_data_json), as_slice(a.signature),
                  as_slice(a.challenge), as_slice(a.public_key), as_str(a.origin),
                  as_str(a.rp_id)>>
        v == Values(args)
    IN IF AllSome(args)
       THEN Core("webauthn::verify_webauthn",
                 << <<v[1], v[2], v[3]>>, v[4], v[5], v[6], v[7], Bool(a.require_uv = 1)>>)
       ELSE Rejected

phi_webauthn_verify(a) ==
    LET args == <<as_slice(a.auth_data), as_slice(a.client_data_json), as_slice(a.signature),
                  as_slice(a.challenge), as_slice(a.public_key), as_str(a.origin),
                  as_str(a.rp_id)>>
        v == Values(args)
    IN IF AllSome(args)
       THEN Core("webauthn::verify_webauthn",
                 << <<v[1], v[2], v[3]>>, v[4], v[5], v[6], v[7], Bool(a.require_uv # 0)>>)
       ELSE Rejected

phi_bbs_verify_proof(a) ==
    LET args == <<as_slice(a.proof), as_slice(a.public_key), as_slice(a.nonce)>>
    IN IF AllSome(args) THEN Core("bbs::verify_proof_bytes", Values(args)) ELSE Rejected

(* phi_compute_nullifier: what comes back, and memory afterwards.          *)
Overwritten(at, bytes) ==
    [i \in DOMAIN memory |-> IF i \in at..(at + Len(bytes) - 1) THEN bytes[i - at + 1]
                             ELSE memory[i]]

(* Mutant: the capacity of out is not looked at.                           *)
phi_compute_nullifier_no_capacity(a) ==
    LET args == <<as_slice(a.secret), as_slice(a.topic)>>
        n == Core("voting::compute_nullifier", Values(args))
    IN IF a.out[1] = NULL \/ ~AllSome(args) THEN {<< <<0>>, memory>>}
       ELSE IF n = <<"panic">> THEN guard(n) \X {memory}
       ELSE {<< <<1>>, Overwritten(a.out[1], n[2][2])>>}

phi_compute_nullifier(a) ==
    LET args == <<as_slice(a.secret), as_slice(a.topic)>>
        n == Core("voting::compute_nullifier", Values(args))
    IN IF a.out[1] = NULL \/ a.out[2] < NULLIFIER_LEN \/ ~AllSome(args)
       THEN {<< <<0>>, memory>>}
       ELSE IF n = <<"panic">> THEN guard(n) \X {memory}
       ELSE {<< <<1>>, Overwritten(a.out[1], n[2][2])>>}
-----------------------------------------------------------------------------
NoCall == [f |-> "none"]

CInit ==
    /\ memory \in [1..MEM -> Cells]
    /\ last = NoCall

(* A call reads what the caller stored: bound, so that terms do not nest.  *)
MayCall == last = NoCall

Returned(f, a, r) == last' = [f |-> f, args |-> a, before |-> memory, returned |-> r]

Verify(f, a, outcome) ==
    /\ \E r \in guard(outcome) : Returned(f, a, r)
    /\ UNCHANGED memory

VerifySignature ==
    /\ MayCall
    /\ \E a \in [curve : CurveCodes, public_key : Regions, msg : Regions, sig : Regions] :
          Verify("verify_signature", a, phi_verify_signature(a))

BbsVerifyProof ==
    /\ MayCall
    /\ \E a \in [proof : Regions, public_key : Regions, nonce : Regions] :
          Verify("bbs_verify_proof", a, phi_bbs_verify_proof(a))

WebauthnVerify ==
    /\ MayCall
    /\ \E a \in WebauthnArgs : Verify("webauthn_verify", a, phi_webauthn_verify(a))

ComputeNullifier ==
    /\ MayCall
    /\ \E a \in [secret : Regions, topic : Regions, out : Regions] :
          \E r \in phi_compute_nullifier(a) :
             Returned("compute_nullifier", a, r[1]) /\ memory' = r[2]

(* If the process is alive, the caller fills its memory for the next call. *)
Refill ==
    /\ last # NoCall
    /\ last.returned # <<>>
    /\ memory' \in [1..MEM -> Cells]
    /\ last' = NoCall
=============================================================================
