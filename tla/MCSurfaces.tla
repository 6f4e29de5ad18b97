----------------------------- MODULE MCSurfaces -----------------------------
(***************************************************************************)
(* The three surfaces for TLC, over a stand-in core that tells all its     *)
(* arguments apart: its verifiers accept some questions, refuse others and *)
(* panic on one input; its other functions answer with free terms.         *)
(***************************************************************************)
EXTENDS Surfaces

x == <<"x">>
y == <<"y">>
MCCells == {x, y}
MCIsUtf8(cell) == cell # y

(* Seven regions at once: the one or two in play vary, the rest stay put.  *)
MCWebauthnArgs ==
    LET names == {"auth_data", "client_data_json", "signature", "challenge", "public_key",
                  "origin", "rp_id", "require_uv"}
        rest == [n \in names |-> IF n = "require_uv" THEN 0 ELSE <<1, 1>>]
    IN {[rest EXCEPT ![n] = r, !.rp_id = s, !.require_uv = uv] :
            n \in names \ {"require_uv", "rp_id"}, r \in Regions, s \in Regions, uv \in 0..2}

(* A verdict, and the input on which the verifier panics.                  *)
Size(v) == Len(v[2])
Verdict(accepted, poison) == IF poison = Bytes(<<y, y>>) THEN <<"panic">> ELSE Ok(Bool(accepted))

(* Seven arguments, each with a weight of its own, so that exchanging two  *)
(* of different length changes the verdict on some question.               *)
Weight(s) == Size(s[1]) + 2 * Size(s[2]) + 3 * Size(s[3]) + 4 * Size(s[4]) + 5 * Size(s[5])
             + 6 * Size(s[6]) + 7 * Size(s[7])
Accepting == {n \in 0..64 : n % 7 > 4}

Term(f, a) == << <<f, a>> >>
Fallible(a, v) == IF Size(a[Len(a)]) = 0 THEN Err("invalid") ELSE Ok(v)

MCCore(f, a) ==
    CASE f = "did::verify" ->
            Verdict(a[1][2] = 1 \/ (a[2] # a[3] /\ Size(a[4]) > Size(a[3])), a[4])
      [] f = "bbs::verify_proof_bytes" ->
            Verdict(Size(a[1]) >= Size(a[2]) /\ a[3] # a[2], a[1])
      [] f = "webauthn::verify_webauthn" ->
            Verdict(Weight(<<a[1][1], a[1][2], a[1][3], a[2], a[3], a[4], a[5]>>)
                       + (IF a[6][2] THEN 1 ELSE 0) \in Accepting, a[1][3])
      [] f = "voting::compute_nullifier" ->
            IF a[2] = Bytes(<<y, y>>) THEN <<"panic">>
            ELSE Ok(Bytes(<< <<"first", a>>, <<"second", a>> >>))
      [] f \in {"did::generate_keypair"} -> Ok(<<"pair", <<Term("secret", a), Term("public", a)>> >>)
      [] f = "bbs::generate_keypair" ->
            IF a[1][2] = 0 THEN Err("invalid")
            ELSE Ok(<<"pair", <<Term("secret", a), Term("public", a)>> >>)
      [] f = "seed::derive_k1_keypair" ->
            Fallible(a, <<"pair", <<Term("secret", a), Term("public", a)>> >>)
      [] f \in {"seed::generate_mnemonic", "did::did_from_public"} -> Ok(Text(Term(f, a)))
      [] f \in {"semaphore::nullifier", "semaphore::bind_nonce"} -> Ok(Bytes(Term(f, a)))
      [] OTHER -> Fallible(a, Bytes(Term(f, a)))

One(cell) == Bytes(<<cell>>)
Three == <<"claims", << <<x>>, <<>>, <<y, x>> >> >>
WebauthnBase ==
    [auth_data |-> One(x), client_data_json |-> One(x), signature |-> One(x),
     challenge |-> One(x), public_key |-> One(x), origin |-> Text(<<x>>),
     rp_id |-> Text(<<x>>), require_uv |-> Bool(FALSE)]
Codes == {<<"u8", k>> : k \in 0..2}
MCQuestions ==
    {<<"generate_keypair", [curve |-> c]>> : c \in Codes}
    \cup {<<"sign", [curve |-> c, secret |-> One(x), msg |-> m]>> : c \in Codes, m \in {One(y), Bytes(<<>>)}}
    \cup {<<"verify_signature", [curve |-> c, public_key |-> One(x), msg |-> One(y), sig |-> Bytes(<<x, x>>)]>>
             : c \in Codes}
    \cup {<<"did_from_public", [curve |-> c, public_key |-> One(x)]>> : c \in Codes}
    \cup {<<"seed_generate_mnemonic", <<>> >>,
          <<"seed_derive_k1", [mnemonic |-> Text(<<x>>), passphrase |-> Text(<<y>>)]>>,
          <<"seed_derive_k1", [mnemonic |-> Text(<<x>>), passphrase |-> Text(<<>>)]>>}
    \cup {<<"webauthn_verify", [[WebauthnBase EXCEPT ![n][2] = v] EXCEPT !.require_uv = Bool(uv)]>>
             : n \in DOMAIN WebauthnBase \ {"require_uv"}, v \in {<<>>, <<x, x>>}, uv \in BOOLEAN}
    \cup {<<"compute_nullifier", [secret |-> One(x), topic |-> One(y)]>>,
          <<"semaphore_nullifier", [secret |-> One(x), election_id |-> One(y)]>>}
    \cup {<<"semaphore_bind_nonce", [election_id |-> One(x), nullifier |-> n, signal |-> One(y)]>>
             : n \in {One(y), Bytes(<<x, y>>), Bytes(<<>>)}}
    \cup {<<"bbs_generate_keypair", [message_count |-> <<"u32", k>>]>> : k \in 0..1}
    \cup {<<"bbs_sign_credential", [claims |-> c, secret |-> One(x)]>> : c \in {Three, <<"claims", <<>> >>}}
    \cup {<<"bbs_derive_proof", [claims |-> Three, signature |-> One(x), reveal |-> <<"words", <<0>> >>,
                                 nonce |-> One(y)]>>,
          <<"bbs_verify_proof", [proof |-> Bytes(<<x, x>>), public_key |-> One(y), nonce |-> One(x)]>>,
          <<"vote_prove", [claims |-> Three, signature |-> One(x), issuer_public_key |-> One(y),
                           reveal |-> <<"words", <<1>> >>, chain_id |-> One(x), election_id |-> One(y),
                           signal |-> Bytes(<<x, y>>)]>>}
=============================================================================
