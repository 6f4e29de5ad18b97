------------------------------ MODULE SseCodec ------------------------------
(***************************************************************************)
(* How a call and its answer are written on the Flutter bridge: the two    *)
(* generated halves, bindings/flutter/dart/lib/src/rust/frb_generated.dart *)
(* and bindings/flutter/rust/src/frb_generated.rs.  A message is a row of  *)
(* untyped cells.  Nothing in it names a function, a parameter or a type:  *)
(* the two halves agree because both were generated from one api.rs.       *)
(*                                                                         *)
(* A u8, a u32, a bool and an i32 take one cell each here.  A cell holding *)
(* an opaque term is never read as a number: that read counts as a panic,  *)
(* where the code would go on with an arbitrary number.  Strings are made  *)
(* of cells below U8 \div 2 (ASCII) and opaque terms.                      *)
(***************************************************************************)
EXTENDS Naturals, Sequences, SequencesExt

CONSTANTS
    U8,         \* 2^8: Dart's putUint8 and Uint8List.fromList keep the low byte
    U32         \* 2^32, likewise

Num(k) == <<"n", k>>
IsNum(cell) == cell[1] = "n"

MapSeq(Op(_), s) == [i \in DOMAIN s |-> Op(s[i])]
LowByte(cell) == IF IsNum(cell) THEN Num(cell[2] % U8) ELSE cell
LowWord(k) == Num(k % U32)

(* an i32 length and the items                                             *)
Prefixed(cells) == <<Num(Len(cells))>> \o cells
-----------------------------------------------------------------------------
(* The Dart half: what each exported function writes, which number it      *)
(* calls, and how it reads the answer.                                     *)

dart_encode(type, v) ==
    CASE type = "u8"     -> <<Num(v[2] % U8)>>
      [] type = "u32"    -> <<LowWord(v[2])>>
      [] type = "bool"   -> <<Num(IF v[2] THEN 1 ELSE 0)>>
      [] type = "text"   -> Prefixed(v[2])
      [] type = "bytes"  -> Prefixed(MapSeq(LowByte, v[2]))
      [] type = "words"  -> Prefixed(MapSeq(LowWord, v[2]))
      [] type = "claims" -> <<Num(Len(v[2]))>> \o FlattenSeq(MapSeq(Prefixed, v[2]))

DartFunction(id, args, ok, err) == [funcId |-> id, args |-> args, ok |-> ok, err |-> err]

Vec(name) == <<name, "bytes">>
Str(name) == <<name, "text">>
CurveArg == <<"curve", "u8">>
ClaimsArg == <<"claims", "claims">>

RustLibApiImpl == [
    bbs_derive_proof |->
        DartFunction(1, <<ClaimsArg, Vec("signature"), <<"reveal", "words">>, Vec("nonce")>>,
                     "bytes", "text"),
    bbs_generate_keypair |->
        DartFunction(2, << <<"message_count", "u32">> >>, "pair", "text"),
    bbs_sign_credential |-> DartFunction(3, <<ClaimsArg, Vec("secret")>>, "bytes", "text"),
    bbs_verify_proof |->
        DartFunction(4, <<Vec("proof"), Vec("public_key"), Vec("nonce")>>, "bool", "none"),
    compute_nullifier |-> DartFunction(5, <<Vec("secret"), Vec("topic")>>, "bytes", "none"),
    did_from_public |-> DartFunction(6, <<CurveArg, Vec("public_key")>>, "text", "text"),
    generate_keypair |-> DartFunction(7, <<CurveArg>>, "pair", "text"),
    seed_derive_k1 |-> DartFunction(8, <<Str("mnemonic"), Str("passphrase")>>, "pair", "text"),
    seed_generate_mnemonic |-> DartFunction(9, <<>>, "text", "none"),
    semaphore_bind_nonce |->
        DartFunction(10, <<Vec("election_id"), Vec("nullifier"), Vec("signal")>>, "bytes", "none"),
    semaphore_nullifier |->
        DartFunction(11, <<Vec("secret"), Vec("election_id")>>, "bytes", "none"),
    sign |-> DartFunction(12, <<CurveArg, Vec("secret"), Vec("msg")>>, "bytes", "text"),
    verify_signature |->
        DartFunction(13, <<CurveArg, Vec("public_key"), Vec("msg"), Vec("sig")>>, "bool", "none"),
    webauthn_verify |->
        DartFunction(14, <<Vec("auth_data"), Vec("client_data_json"), Vec("signature"),
                           Vec("challenge"), Vec("public_key"), Str("origin"), Str("rp_id"),
                           <<"require_uv", "bool">> >>, "bool", "none")]

(* pdeCallFfi: a call is <<function, arguments by name>>                   *)
DartSend(c) ==
    LET d == RustLibApiImpl[c[1]]
        Field(arg) == dart_encode(arg[2], c[2][arg[1]])
    IN [funcId |-> d.funcId, data |-> FlattenSeq(MapSeq(Field, d.args))]

(* What a call means once Dart's integers have been cut to their width.    *)
Narrow(v) ==
    CASE v[1] = "u8"    -> <<"u8", v[2] % U8>>
      [] v[1] = "u32"   -> <<"u32", v[2] % U32>>
      [] v[1] = "bytes" -> <<"bytes", MapSeq(LowByte, v[2])>>
      [] v[1] = "words" -> <<"words", [i \in DOMAIN v[2] |-> v[2][i] % U32]>>
      [] OTHER -> v

Narrowed(c) == <<c[1], [name \in DOMAIN c[2] |-> Narrow(c[2][name])]>>
-----------------------------------------------------------------------------
(* Reading: a cursor over the cells.  unwrap() of a failed read panics.    *)
Got(v, pos) == [ok |-> TRUE, v |-> v, pos |-> pos]
Panic == [ok |-> FALSE]

sse_decode_i32(b, pos) ==
    IF pos < Len(b) /\ IsNum(b[pos + 1]) THEN Got(b[pos + 1][2], pos + 1) ELSE Panic

Items(b, len) ==
    IF len.ok /\ len.pos + len.v <= Len(b)
    THEN Got(SubSeq(b, len.pos + 1, len.pos + len.v), len.pos + len.v)
    ELSE Panic

sse_decode_Vec_u8(b, pos) == Items(b, sse_decode_i32(b, pos))

Words(cells) ==
    IF cells.ok /\ \A i \in DOMAIN cells.v : IsNum(cells.v[i])
    THEN Got([i \in DOMAIN cells.v |-> cells.v[i][2]], cells.pos)
    ELSE Panic

sse_decode_Vec_u32(b, pos) == Words(sse_decode_Vec_u8(b, pos))

(* A sequence read so far and the item read after it.                      *)
Longer(sofar, item) ==
    IF sofar.ok /\ item.ok THEN Got(Append(sofar.v, item.v), item.pos) ELSE Panic

Lists(b, len) ==
    LET upto[k \in 0..len.v] ==
            IF k = 0 THEN Got(<<>>, len.pos)
            ELSE Longer(upto[k - 1], sse_decode_Vec_u8(b, upto[k - 1].pos))
    IN IF len.ok THEN upto[len.v] ELSE Panic

sse_decode_Vec_Vec_u8(b, pos) == Lists(b, sse_decode_i32(b, pos))

(* String::from_utf8(inner).unwrap()                                       *)
Utf8(inner) ==
    IF inner.ok /\ \A i \in DOMAIN inner.v : IsNum(inner.v[i]) => inner.v[i][2] < U8 \div 2
    THEN inner ELSE Panic

sse_decode_String(b, pos) == Utf8(sse_decode_Vec_u8(b, pos))

Truth(byte) == IF byte.ok THEN Got(byte.v # 0, byte.pos) ELSE Panic

sse_decode_bool(b, pos) == Truth(sse_decode_i32(b, pos))

Pair(b, secret) == Longer(Longer(Got(<<>>, secret.pos), secret), sse_decode_Vec_u8(b, secret.pos))

sse_decode_KeyPair(b, pos) == Pair(b, sse_decode_Vec_u8(b, pos))

Typed(type, r) == IF r.ok THEN Got(<<type, r.v>>, r.pos) ELSE Panic

sse_decode(type, b, pos) ==
    Typed(type, CASE type \in {"u8", "u32"} -> sse_decode_i32(b, pos)
                  [] type = "bool"   -> sse_decode_bool(b, pos)
                  [] type = "text"   -> sse_decode_String(b, pos)
                  [] type = "bytes"  -> sse_decode_Vec_u8(b, pos)
                  [] type = "words"  -> sse_decode_Vec_u32(b, pos)
                  [] type = "claims" -> sse_decode_Vec_Vec_u8(b, pos)
                  [] type = "pair"   -> sse_decode_KeyPair(b, pos))
-----------------------------------------------------------------------------
(* The Rust half: each wire function decodes its parameters in this order  *)
(* and then calls the function of api.rs of the same name with them.       *)
Wire(f, args) == [call |-> f, args |-> args]

wire_bbs_derive_proof ==
    Wire("bbs_derive_proof",
         <<ClaimsArg, Vec("signature"), <<"reveal", "words">>, Vec("nonce")>>)
wire_bbs_generate_keypair == Wire("bbs_generate_keypair", << <<"message_count", "u32">> >>)
wire_bbs_sign_credential == Wire("bbs_sign_credential", <<ClaimsArg, Vec("secret")>>)
wire_bbs_verify_proof ==
    Wire("bbs_verify_proof", <<Vec("proof"), Vec("public_key"), Vec("nonce")>>)
wire_compute_nullifier == Wire("compute_nullifier", <<Vec("secret"), Vec("topic")>>)
wire_did_from_public == Wire("did_from_public", <<CurveArg, Vec("public_key")>>)
wire_generate_keypair == Wire("generate_keypair", <<CurveArg>>)
wire_seed_derive_k1 == Wire("seed_derive_k1", <<Str("mnemonic"), Str("passphrase")>>)
wire_seed_generate_mnemonic == Wire("seed_generate_mnemonic", <<>>)
wire_semaphore_bind_nonce ==
    Wire("semaphore_bind_nonce", <<Vec("election_id"), Vec("nullifier"), Vec("signal")>>)
wire_semaphore_nullifier == Wire("semaphore_nullifier", <<Vec("secret"), Vec("election_id")>>)
wire_sign == Wire("sign", <<CurveArg, Vec("secret"), Vec("msg")>>)
wire_verify_signature ==
    Wire("verify_signature", <<CurveArg, Vec("public_key"), Vec("msg"), Vec("sig")>>)
(* Mutant: two parameters of one type are decoded in the other order.      *)
wire_webauthn_verify_swapped ==
    Wire("webauthn_verify",
         <<Vec("auth_data"), Vec("client_data_json"), Vec("signature"), Vec("public_key"),
           Vec("challenge"), Str("origin"), Str("rp_id"), <<"require_uv", "bool">> >>)
wire_webauthn_verify ==
    Wire("webauthn_verify",
         <<Vec("auth_data"), Vec("client_data_json"), Vec("signature"), Vec("challenge"),
           Vec("public_key"), Str("origin"), Str("rp_id"), <<"require_uv", "bool">> >>)

(* Mutant: vote_prove is entered by hand where the sorted names put it.    *)
dispatcher_with_vote_prove ==
    <<wire_bbs_derive_proof, wire_bbs_generate_keypair, wire_bbs_sign_credential,
      wire_bbs_verify_proof, wire_compute_nullifier, wire_did_from_public,
      wire_generate_keypair, wire_seed_derive_k1, wire_seed_generate_mnemonic,
      wire_semaphore_bind_nonce, wire_semaphore_nullifier, wire_sign,
      wire_verify_signature,
      Wire("vote_prove", <<ClaimsArg, Vec("signature"), Vec("issuer_public_key"),
                           <<"reveal", "words">>, Vec("chain_id"), Vec("election_id"),
                           Vec("signal")>>),
      wire_webauthn_verify>>

(* match func_id: 1 to 14                                                  *)
pde_ffi_dispatcher_primary ==
    <<wire_bbs_derive_proof, wire_bbs_generate_keypair, wire_bbs_sign_credential,
      wire_bbs_verify_proof, wire_compute_nullifier, wire_did_from_public,
      wire_generate_keypair, wire_seed_derive_k1, wire_seed_generate_mnemonic,
      wire_semaphore_bind_nonce, wire_semaphore_nullifier, wire_sign,
      wire_verify_signature, wire_webauthn_verify>>

DecodeArgs(args, b) ==
    LET upto[k \in 0..Len(args)] ==
            IF k = 0 THEN Got(<<>>, 0)
            ELSE Longer(upto[k - 1], sse_decode(args[k][2], b, upto[k - 1].pos))
    IN upto[Len(args)]

ByName(args, values) ==
    [name \in {args[i][1] : i \in DOMAIN args} |->
        values[CHOOSE i \in DOMAIN args : args[i][1] = name]]

(* A failed read, or cells left over at deserializer.end(), is a panic.    *)
Task(wire, decoded, m) ==
    IF decoded.ok /\ decoded.pos = Len(m.data)
    THEN <<"task", <<wire.call, ByName(wire.args, decoded.v)>> >>
    ELSE <<"panic">>

Prepare(wire, m) == Task(wire, DecodeArgs(wire.args, m.data), m)

(* The dispatcher and the wire function's prepare step: an unknown number  *)
(* is unreachable!() outside every catch_unwind, so the process aborts.    *)
RustReceive(m) ==
    IF m.funcId \notin DOMAIN pde_ffi_dispatcher_primary THEN <<"abort">>
    ELSE Prepare(pde_ffi_dispatcher_primary[m.funcId], m)

(* Mutant: the key pair's fields are written public first.                 *)
sse_encode_KeyPair_public_first(pair) == Prefixed(pair[2]) \o Prefixed(pair[1])

sse_encode_KeyPair(pair) == Prefixed(pair[1]) \o Prefixed(pair[2])

sse_encode(v) ==
    CASE v[1] = "bool" -> <<Num(IF v[2] THEN 1 ELSE 0)>>
      [] v[1] \in {"bytes", "text"} -> Prefixed(v[2])
      [] v[1] = "pair" -> sse_encode_KeyPair(v[2])

(* SseCodec::encode, for transform_result_sse and for encode_panic: a      *)
(* Rust2DartAction (0 success, 1 error, 3 panic; 2 closes a stream) before *)
(* the encoded value.  The text of a panic is left out.                    *)
RustReply(outcome) ==
    CASE outcome[1] = "ok"    -> <<Num(0)>> \o sse_encode(outcome[2])
      [] outcome[1] = "err"   -> <<Num(1)>> \o sse_encode(outcome[2])
      [] outcome[1] = "panic" -> <<Num(3)>>

Carried(kind, r) == IF r.ok THEN <<kind, r.v>> ELSE <<"undecodable">>

(* Dart's SseCodec of a function: decodeSuccessData, decodeErrorData (null *)
(* for a function that cannot fail), and PanicException.                   *)
Decoded(d, data) ==
    CASE data[1][2] = 0 -> Carried("ok", sse_decode(d.ok, data, 1))
      [] data[1][2] = 1 /\ d.err # "none" -> Carried("err", sse_decode(d.err, data, 1))
      [] data[1][2] = 1 /\ d.err = "none" -> <<"undecodable">>
      [] data[1][2] = 3 -> <<"panic">>

DartRead(f, data) == Decoded(RustLibApiImpl[f], data)
-----------------------------------------------------------------------------
(* What the type checkers of Dart and Rust let through: a value of a type, *)
(* a call that gives each parameter a value of its type, and an outcome of *)
(* the types a function declares.                                          *)
IsRow(s) == Len(s) \in Nat /\ s = [i \in 1..Len(s) |-> s[i]]

IsString(s) == IsRow(s) /\ \A i \in DOMAIN s : IsNum(s[i]) => s[i][2] < U8 \div 2

HasType(type, v) ==
    /\ v = <<type, v[2]>>
    /\ \/ type \in {"u8", "u32"} /\ v[2] \in Nat
       \/ type = "bool" /\ v[2] \in BOOLEAN
       \/ type = "text" /\ IsString(v[2])
       \/ type = "bytes" /\ IsRow(v[2])
       \/ type = "words" /\ IsRow(v[2]) /\ \A i \in DOMAIN v[2] : v[2][i] \in Nat
       \/ type = "claims" /\ IsRow(v[2]) /\ \A i \in DOMAIN v[2] : IsRow(v[2][i])
       \/ type = "pair" /\ v[2] = <<v[2][1], v[2][2]>> /\ IsRow(v[2][1]) /\ IsRow(v[2][2])

TypedCall(c) ==
    /\ c = <<c[1], c[2]>>
    /\ c[1] \in DOMAIN RustLibApiImpl
    /\ LET args == RustLibApiImpl[c[1]].args
       IN /\ DOMAIN c[2] = {args[i][1] : i \in DOMAIN args}
          /\ \A i \in DOMAIN args : HasType(args[i][2], c[2][args[i][1]])

TypedOutcome(f, o) ==
    LET d == RustLibApiImpl[f]
    IN \/ o = <<"panic">>
       \/ o = <<"ok", o[2]>> /\ HasType(d.ok, o[2])
       \/ d.err # "none" /\ o = <<"err", o[2]>> /\ HasType(d.err, o[2])
=============================================================================
