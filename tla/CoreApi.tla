------------------------------ MODULE CoreApi ------------------------------
(***************************************************************************)
(* The core crate as its three boundaries see it (C ABI, WebAssembly and   *)
(* Flutter): Core(f, a) is the outcome of function f on the tuple a of its *)
(* arguments, what the functions compute being the subject of the other    *)
(* modules.                                                                *)
(*                                                                         *)
(* A value carries its Rust type: <<"bytes", s>>, <<"u8", n>> and so on.   *)
(* A byte string is a sequence of cells; a cell is a number, <<"n", k>>,   *)
(* or an opaque term (a digest, a signature) that stands for its bytes.    *)
(***************************************************************************)
EXTENDS Naturals, Sequences

CONSTANTS
    Core(_, _),         \* function of the core crate, its arguments |-> outcome
    NULLIFIER_LEN       \* voting.rs: the length of a nullifier in bytes

Bytes(s) == <<"bytes", s>>
Bool(b) == <<"bool", b>>
Text(s) == <<"text", s>>

Ok(v) == <<"ok", v>>
Err(e) == <<"err", e>>

(* An error that has become text.  impl Display for CryptoError gives      *)
(* every variant a text of its own, so a text stands for its error.        *)
Message(e) == Err(Text(<< <<"message", e>> >>))

(* .map_err(|e| e.to_string()) of a core result                            *)
Stringly(outcome) == IF outcome[1] = "err" THEN Message(outcome[2]) ELSE outcome

CurveError == Message("curve code must be 0 (secp256k1) or 1 (secp256r1)")
=============================================================================
