-------------------------- MODULE MCFlutterBridge --------------------------
(***************************************************************************)
(* The Flutter bridge for TLC: one call of each exported function, and the *)
(* calls at its edges (an unknown curve, an integer out of its width, a    *)
(* nullifier of the wrong length, empty lists, a core error), over a core  *)
(* whose results are free terms.                                           *)
(***************************************************************************)
EXTENDS FlutterBridge, SseCodec, FlutterApi

(* A function that cannot fail answers with a term of its arguments, so    *)
(* any two arguments that change places show; one that can, fails when its *)
(* last argument is empty or zero.                                         *)
Term(f, a) == << <<f, a>> >>
Fails(a) == a # <<>> /\ a[Len(a)] \in {Bytes(<<>>), Text(<<>>), <<"u32", 0>>, Bool(FALSE)}

MCCore(f, a) ==
    CASE f \in {"did::verify", "webauthn::verify_webauthn", "bbs::verify_proof_bytes"} ->
            Ok(Bool(~Fails(a)))
      [] f \in {"did::generate_keypair"} ->
            Ok(<<"pair", <<Term("secret", a), Term("public", a)>> >>)
      [] f \in {"seed::derive_k1_keypair", "bbs::generate_keypair"} ->
            IF Fails(a) THEN Err("invalid")
            ELSE Ok(<<"pair", <<Term("secret", a), Term("public", a)>> >>)
      [] f = "seed::generate_mnemonic" -> Ok(Text(Term(f, a)))
      [] f = "did::did_from_public" ->
            IF Fails(a) THEN Err("invalid") ELSE Ok(Text(Term(f, a)))
      [] f \in {"voting::compute_nullifier", "semaphore::nullifier", "semaphore::bind_nonce"} ->
            Ok(Bytes(Term(f, a)))
      [] OTHER -> IF Fails(a) THEN Err("invalid") ELSE Ok(Bytes(Term(f, a)))

MCRun(c) == {Api(c[1], c[2])}
MCRead(c, m) == DartRead(c[1], m)

Byte(k) == Bytes(<<Num(k)>>)
Key(x) == Bytes(<< <<x>> >>)
MCCalls == {
    <<"generate_keypair", [curve |-> <<"u8", 5>>]>>,
    <<"generate_keypair", [curve |-> <<"u8", 3>>]>>,
    <<"sign", [curve |-> <<"u8", 0>>, secret |-> Key("k"), msg |-> Byte(1)]>>,
    <<"sign", [curve |-> <<"u8", 2>>, secret |-> Key("k"), msg |-> Byte(1)]>>,
    <<"verify_signature",
      [curve |-> <<"u8", 1>>, public_key |-> Key("p"), msg |-> Byte(6), sig |-> Key("s")]>>,
    <<"did_from_public", [curve |-> <<"u8", 0>>, public_key |-> Bytes(<<>>)]>>,
    <<"seed_generate_mnemonic", <<>> >>,
    <<"seed_derive_k1", [mnemonic |-> Text(<<Num(1), Num(0)>>), passphrase |-> Text(<<Num(1)>>)]>>,
    <<"seed_derive_k1", [mnemonic |-> Text(<<Num(1)>>), passphrase |-> Text(<<>>)]>>,
    <<"webauthn_verify",
      [auth_data |-> Key("a"), client_data_json |-> Key("c"), signature |-> Key("s"),
       challenge |-> Key("ch"), public_key |-> Key("p"), origin |-> Text(<<Num(1)>>),
       rp_id |-> Text(<<Num(0)>>), require_uv |-> Bool(TRUE)]>>,
    <<"compute_nullifier", [secret |-> Key("k"), topic |-> Byte(1)]>>,
    <<"semaphore_nullifier", [secret |-> Key("k"), election_id |-> Byte(2)]>>,
    <<"semaphore_bind_nonce",
      [election_id |-> Byte(1), nullifier |-> Bytes(<<Num(2), Num(3)>>), signal |-> Byte(0)]>>,
    <<"semaphore_bind_nonce",
      [election_id |-> Byte(1), nullifier |-> Byte(2), signal |-> Byte(0)]>>,
    <<"bbs_generate_keypair", [message_count |-> <<"u32", 9>>]>>,
    <<"bbs_sign_credential",
      [claims |-> <<"claims", << <<Num(1)>>, <<>>, <<Num(2), Num(3)>> >> >>, secret |-> Key("k")]>>,
    <<"bbs_derive_proof",
      [claims |-> <<"claims", << <<Num(1)>> >> >>, signature |-> Key("s"),
       reveal |-> <<"words", <<0, 9>> >>, nonce |-> Byte(1)]>>,
    <<"bbs_verify_proof", [proof |-> Key("f"), public_key |-> Key("p"), nonce |-> Byte(1)]>>}

(* These calls, and what the wrappers answer them with, are of the types   *)
(* the functions declare: the hypothesis under which the halves are proved *)
(* to agree.                                                               *)
ASSUME CallsAreTyped ==
    \A c \in MCCalls :
        TypedCall(c) /\ \A o \in MCRun(Narrowed(c)) \cup {PanicOutcome} : TypedOutcome(c[1], o)
=============================================================================
