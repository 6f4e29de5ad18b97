--------------------------- MODULE IdentityProofs ---------------------------
(***************************************************************************)
(* Proofs about the two ways to show who one is: passkeys (WebAuthn) and   *)
(* self-owned identities (DidIdentity).                                    *)
(*                                                                         *)
(* WebAuthn, for any origins, relying parties, keys and challenges and any *)
(* number of ceremonies and logins.  Whatever happens to an assertion on   *)
(* its way, the signature in it is over what the authenticator saw and the *)
(* browser wrote (MadeInv), so what the verifier accepts is the ceremony's *)
(* own data; and a challenge that logged somebody in is never outstanding  *)
(* again (SpentInv).                                                       *)
(*                                                                         *)
(* DidIdentity, the second half: a registered DID is made of its point     *)
(* alone (RegistryInv), and what was typed in decides the restored key     *)
(* (EnteredInv).                                                           *)
(***************************************************************************)
EXTENDS WebAuthn, DidIdentity, TLAPS

(* A ceremony's message says what its page did, and its signature is over  *)
(* that message.                                                           *)
Truthful(c, cd, ad) ==
    /\ cd.typ = c.typ /\ cd.origin = c.origin
    /\ c.framed <=> cd.crossOrigin = "TRUE" \/ cd.topOrigin
    /\ ad.rpIdHash = KeyRp[c.key] /\ ad.len = MIN_AUTH_DATA_LEN

MadeInv ==
    \A c \in made : \E cd, ad, s : \E form \in Encodings :
        /\ c.msg = [client_data_json |-> cd, authenticator_data |-> ad,
                    signature |-> [key |-> c.key, over |-> <<ad, cd>>, s |-> s,
                                   form |-> form]]
        /\ Truthful(c, cd, ad)

(* A login has used up its challenge, and no other login shares it.        *)
SpentInv ==
    \A a \in accepted :
        /\ a.ch \in used \ issued
        /\ \A b \in accepted : a.ch = b.ch => a = b

IInv ==
    /\ issued \subseteq used
    /\ MadeInv
    /\ LoginsAreGenuine
    /\ SpentInv

(* Nothing done to a message on its way changes whose signature it carries *)
(* or what that signature is over.                                         *)
LEMMA AlteredKeepsSignature ==
    ASSUME NEW cd, NEW ad, NEW key, NEW s, NEW form,
           NEW msg, msg = [client_data_json |-> cd, authenticator_data |-> ad,
                           signature |-> [key |-> key, over |-> <<ad, cd>>, s |-> s,
                                          form |-> form]],
           NEW m \in Altered(msg)
    PROVE  m.signature.key = key /\ m.signature.over = <<ad, cd>>
<1> DEFINE sig == [key |-> key, over |-> <<ad, cd>>, s |-> s, form |-> form]
<1>1. msg = [client_data_json |-> cd, authenticator_data |-> ad, signature |-> sig]
  OBVIOUS
<1>2. sig.key = key /\ sig.over = <<ad, cd>>
  OBVIOUS
<1>3. \/ m.signature = sig
      \/ m.signature = [sig EXCEPT !.s = Other(@)]
      \/ \E f \in Encodings : m.signature = [sig EXCEPT !.form = f]
  <2> HIDE DEF sig
  <2>1. CASE m = msg
    BY <1>1, <2>1
  <2>2. CASE \/ m = [msg EXCEPT !.signature.s = Other(@)]
             \/ \E f \in Encodings : m = [msg EXCEPT !.signature.form = f]
    BY <1>1, <2>2
  <2>3. CASE \/ \E ch \in Challenges :
                    m = [msg EXCEPT !.client_data_json.challenge = URL_SAFE_NO_PAD(ch)]
             \/ m = [msg EXCEPT !.client_data_json.challenge.padded = TRUE]
             \/ m = [msg EXCEPT !.client_data_json.typ = "webauthn.get"]
             \/ m = [msg EXCEPT !.client_data_json.origin = Home]
    BY <1>1, <2>3
  <2>4. CASE m = [msg EXCEPT !.client_data_json.crossOrigin = "None",
                             !.client_data_json.topOrigin = FALSE]
    BY <1>1, <2>4
  <2>5. CASE \/ m = [msg EXCEPT !.authenticator_data.rpIdHash = HomeRp]
             \/ m = [msg EXCEPT !.authenticator_data.flags = Flags]
             \/ m = [msg EXCEPT !.authenticator_data.signCount = @ + 1]
             \/ m = [msg EXCEPT !.authenticator_data.len = MIN_AUTH_DATA_LEN - 1]
    BY <1>1, <2>5
  <2> QED
    BY <2>1, <2>2, <2>3, <2>4, <2>5 DEF Altered
<1>4. \A x : /\ [sig EXCEPT !.s = x].key = key /\ [sig EXCEPT !.form = x].key = key
            /\ [sig EXCEPT !.s = x].over = <<ad, cd>>
            /\ [sig EXCEPT !.form = x].over = <<ad, cd>>
  OBVIOUS
<1> HIDE DEF sig
<1> QED
  BY <1>2, <1>3, <1>4

(* What the verifier accepts is what the ceremony's authenticator signed,  *)
(* with the key the verifier was given and a low S.                        *)
LEMMA VerifiedIsSigned ==
    ASSUME MadeInv, NEW c \in made, NEW m \in Altered(c.msg), NEW ch, NEW key,
           NEW origin, NEW rp, NEW require_uv,
           verify_inner(m, ch, key, origin, rp, require_uv)
    PROVE  /\ key = c.key
           /\ m.client_data_json = c.msg.client_data_json
           /\ m.authenticator_data = c.msg.authenticator_data
           /\ m.signature.s = "low"
           /\ Truthful(c, c.msg.client_data_json, c.msg.authenticator_data)
<1>1. PICK cd, ad, s, form :
          /\ c.msg = [client_data_json |-> cd, authenticator_data |-> ad,
                      signature |-> [key |-> c.key, over |-> <<ad, cd>>, s |-> s,
                                     form |-> form]]
          /\ Truthful(c, cd, ad)
  BY DEF MadeInv
<1>2. m.signature.key = c.key /\ m.signature.over = <<ad, cd>>
  BY <1>1, AlteredKeepsSignature
<1>3. /\ m.signature.s = "low" /\ m.signature.key = key
      /\ m.signature.over = <<m.authenticator_data, m.client_data_json>>
  BY DEF verify_inner, verify_p256_low_s
<1>4. m.authenticator_data = ad /\ m.client_data_json = cd
  BY <1>2, <1>3
<1>5. c.msg.client_data_json = cd /\ c.msg.authenticator_data = ad
  BY <1>1
<1> QED
  BY <1>1, <1>2, <1>3, <1>4, <1>5

(* A new challenge is not one that has logged anybody in.                  *)
LEMMA IssuePreserves ==
    ASSUME IInv, NEW ch \in Challenges, Issue(ch)
    PROVE  IInv'
<1>1. issued' \subseteq used'
  BY DEF IInv, Issue
<1>2. SpentInv'
  BY DEF IInv, SpentInv, Issue
<1> QED
  BY <1>1, <1>2 DEF IInv, Issue, MadeInv, LoginsAreGenuine

(* A ceremony adds a message that says what its page did.                  *)
LEMMA CeremonyPreserves ==
    ASSUME IInv, NEW key \in Keys, NEW origin \in Origins, NEW framed \in BOOLEAN,
           NEW ch \in used, NEW typ, NEW flags, NEW s, NEW form \in Encodings,
           NEW cd \in ClientDatas(origin, framed, ch, typ),
           Ceremony(key, origin, framed, cd, flags, s, form)
    PROVE  IInv'
<1> DEFINE ad == [len |-> MIN_AUTH_DATA_LEN, rpIdHash |-> KeyRp[key], flags |-> flags,
                  signCount |-> Cardinality(made) + 1]
           c == [key |-> key, origin |-> origin, framed |-> framed, typ |-> cd.typ,
                 msg |-> [client_data_json |-> cd, authenticator_data |-> ad,
                          signature |-> [key |-> key, over |-> <<ad, cd>>, s |-> s,
                                         form |-> form]]]
<1>1. made' = made \cup {c} /\ UNCHANGED <<issued, used, accepted>>
  BY DEF Ceremony
<1>2. /\ cd.origin = origin
      /\ framed <=> cd.crossOrigin = "TRUE" \/ cd.topOrigin
  BY DEF ClientDatas
<1>3. Truthful(c, cd, ad)
  <2>1. /\ c.typ = cd.typ /\ c.origin = origin /\ c.key = key /\ c.framed = framed
        /\ ad.rpIdHash = KeyRp[key] /\ ad.len = MIN_AUTH_DATA_LEN
    OBVIOUS
  <2> HIDE DEF c, ad
  <2> QED
    BY <1>2, <2>1 DEF Truthful
<1>4. c.msg = [client_data_json |-> cd, authenticator_data |-> ad,
               signature |-> [key |-> c.key, over |-> <<ad, cd>>, s |-> s, form |-> form]]
  OBVIOUS
<1> HIDE DEF c, ad
<1>5. MadeInv'
  <2> SUFFICES ASSUME NEW x \in made'
               PROVE  \E cd_, ad_, s_ : \E f \in Encodings :
                          /\ x.msg = [client_data_json |-> cd_, authenticator_data |-> ad_,
                                      signature |-> [key |-> x.key, over |-> <<ad_, cd_>>,
                                                     s |-> s_, form |-> f]]
                          /\ Truthful(x, cd_, ad_)
    BY DEF MadeInv, Truthful
  <2>1. CASE x \in made
    BY <2>1 DEF IInv, MadeInv
  <2>2. CASE x = c
    BY <1>3, <1>4, <2>2
  <2> QED
    BY <1>1, <2>1, <2>2
<1> QED
  BY <1>1, <1>5 DEF IInv, LoginsAreGenuine, SpentInv

(* A login is for the ceremony's own data and takes its challenge back.    *)
LEMMA LoginPreserves ==
    ASSUME IInv, NEW c \in made, NEW m \in Altered(c.msg), NEW ch \in issued,
           NEW key \in Keys, NEW require_uv \in BOOLEAN, Login(c, m, ch, key, require_uv)
    PROVE  IInv'
<1> DEFINE new == [ceremony |-> c, msg |-> m, ch |-> ch, key |-> key,
                   require_uv |-> require_uv,
                   details |-> AssertionDetails(m.authenticator_data)]
<1>1. /\ accepted' = accepted \cup {new} /\ issued' = issued \ {ch}
      /\ used' = used /\ made' = made
      /\ verify_inner(m, ch, key, Home, HomeRp, require_uv)
  BY DEF Login
<1>2. /\ key = c.key
      /\ m.client_data_json = c.msg.client_data_json
      /\ m.authenticator_data = c.msg.authenticator_data
      /\ Truthful(c, c.msg.client_data_json, c.msg.authenticator_data)
  BY <1>1, VerifiedIsSigned DEF IInv
<1>3. /\ ClientDataOk(c.msg.client_data_json, ch, Home)
      /\ AuthDataOk(c.msg.authenticator_data, HomeRp, require_uv)
  BY <1>1, <1>2 DEF verify_inner
<1>4. /\ new.ceremony = c /\ new.ch = ch /\ new.key = key /\ new.require_uv = require_uv
      /\ new.details = AssertionDetails(c.msg.authenticator_data)
  BY <1>2
<1>5. /\ new.details.user_present = ("UP" \in c.msg.authenticator_data.flags)
      /\ new.details.user_verified = ("UV" \in c.msg.authenticator_data.flags)
  BY <1>4 DEF AssertionDetails
<1> HIDE DEF new
<1>6. LoginsAreGenuine'
  <2>1. /\ c.key = key /\ KeyRp[key] = HomeRp
        /\ c.origin = Home /\ ~c.framed /\ c.typ = "webauthn.get"
        /\ c.msg.client_data_json.challenge = URL_SAFE_NO_PAD(ch)
    BY <1>2, <1>3 DEF Truthful, ClientDataOk, AuthDataOk
  <2>2. /\ new.details.user_present
        /\ require_uv => new.details.user_verified
    BY <1>3, <1>5 DEF AuthDataOk
  <2> QED
    BY <1>1, <1>4, <2>1, <2>2 DEF IInv, LoginsAreGenuine
<1>7. SpentInv'
  BY <1>1, <1>4 DEF IInv, SpentInv
<1> QED
  BY <1>1, <1>6, <1>7 DEF IInv, MadeInv

(* The inductive invariant holds in every reachable state.                 *)
THEOREM Invariance == Spec => []IInv
<1>1. Init => IInv
  BY DEF Init, IInv, MadeInv, LoginsAreGenuine, SpentInv
<1>2. IInv /\ [Next]_vars => IInv'
  <2>1. ASSUME IInv, Next PROVE IInv'
    <3>1. CASE \E ch \in Challenges : Issue(ch)
      BY <2>1, <3>1, IssuePreserves
    <3>2. CASE \E key \in Keys, origin \in Origins, framed \in BOOLEAN, ch \in used,
                  typ \in {"webauthn.get", "webauthn.create"}, flags \in FlagSets,
                  s \in {"low", "high"}, form \in Encodings :
               \E cd \in ClientDatas(origin, framed, ch, typ) :
                   Ceremony(key, origin, framed, cd, flags, s, form)
      BY <2>1, <3>2, CeremonyPreserves
    <3>3. CASE \E c \in made : \E m \in Altered(c.msg) :
               \E ch \in issued, key \in Keys, require_uv \in BOOLEAN :
                   Login(c, m, ch, key, require_uv)
      BY <2>1, <3>3, LoginPreserves
    <3> QED
      BY <2>1, <3>1, <3>2, <3>3 DEF Next
  <2>2. IInv /\ UNCHANGED vars => IInv'
    BY DEF vars, IInv, MadeInv, LoginsAreGenuine, SpentInv
  <2> QED
    BY <2>1, <2>2
<1> QED
  BY <1>1, <1>2, PTL DEF Spec

(* Every login verify_inner lets through is a sign-in the key's holder     *)
(* made on the home page, with the gestures required.                      *)
THEOREM LoginsStayGenuine == Spec => []LoginsAreGenuine
<1>1. IInv => LoginsAreGenuine
  BY DEF IInv
<1> QED
  BY <1>1, Invariance, PTL

(* An assertion logs its user in at most once, because verify_inner        *)
(* compares the challenge it was signed for.                               *)
THEOREM AssertionsAreNotReplayed == Spec => []NoReplay
<1>1. IInv => NoReplay
  <2> SUFFICES ASSUME IInv, NEW a \in accepted, NEW b \in accepted,
                      a.ceremony = b.ceremony
               PROVE  a = b
    BY DEF NoReplay
  <2>1. URL_SAFE_NO_PAD(a.ch) = URL_SAFE_NO_PAD(b.ch)
    BY DEF IInv, LoginsAreGenuine
  <2>2. a.ch = b.ch
    BY <2>1 DEF URL_SAFE_NO_PAD
  <2> QED
    BY <2>2 DEF IInv, SpentInv
<1> QED
  BY <1>1, Invariance, PTL

(* The low-S rule leaves one acceptable value of each ceremony's           *)
(* signature.                                                              *)
THEOREM SignaturesAreNotMalleable == Spec => []OneSignatureValue
<1>1. IInv => OneSignatureValue
  BY VerifiedIsSigned DEF IInv, OneSignatureValue
<1> QED
  BY <1>1, Invariance, PTL

(* No honest sign-in is refused while its challenge is outstanding.        *)
THEOREM HonestLoginsAreAccepted == Spec => []HonestLoginsSucceed
<1>1. IInv => HonestLoginsSucceed
  <2> SUFFICES ASSUME IInv, NEW c \in made, NEW ch \in issued, NEW require_uv \in BOOLEAN,
                      c.origin = Home, KeyRp[c.key] = HomeRp, ~c.framed,
                      c.typ = "webauthn.get",
                      c.msg.client_data_json.challenge = URL_SAFE_NO_PAD(ch),
                      AuthDataOk(c.msg.authenticator_data, HomeRp, require_uv),
                      c.msg.signature.s = "low",
                      c.msg.signature.form.enc = "raw" => ~c.msg.signature.form.alike
               PROVE  verify_inner(c.msg, ch, c.key, Home, HomeRp, require_uv)
    BY DEF HonestLoginsSucceed
  <2>0. PICK cd, ad, s : \E form \in Encodings :
            /\ c.msg = [client_data_json |-> cd, authenticator_data |-> ad,
                        signature |-> [key |-> c.key, over |-> <<ad, cd>>, s |-> s,
                                       form |-> form]]
            /\ Truthful(c, cd, ad)
    BY DEF IInv, MadeInv
  <2>1. PICK form \in Encodings :
            /\ c.msg = [client_data_json |-> cd, authenticator_data |-> ad,
                        signature |-> [key |-> c.key, over |-> <<ad, cd>>, s |-> s,
                                       form |-> form]]
            /\ Truthful(c, cd, ad)
    BY <2>0
  <2>2. /\ c.msg.client_data_json = cd /\ c.msg.authenticator_data = ad
        /\ c.msg.signature.key = c.key /\ c.msg.signature.over = <<ad, cd>>
        /\ c.msg.signature.form = form
    BY <2>1
  <2>3. ClientDataOk(cd, ch, Home)
    BY <2>1, <2>2 DEF ClientDataOk, Truthful
  <2>4. LongEnough(ad)
    BY <2>1 DEF LongEnough, Truthful, MIN_AUTH_DATA_LEN
  <2>5. ParsedAsWritten(form)
    BY <2>1, <2>2 DEF ParsedAsWritten, Encodings
  <2>6. verify_p256_low_s(c.key, <<ad, cd>>, c.msg.signature)
    BY <2>2, <2>5 DEF verify_p256_low_s
  <2> QED
    BY <2>2, <2>3, <2>4, <2>6 DEF verify_inner
<1> QED
  BY <1>1, Invariance, PTL
-----------------------------------------------------------------------------
(* Self-owned identities, src/src/did.rs and src/src/seed.rs, for any      *)
(* entropies, passphrases and messages and any number of keys and DIDs.    *)
(* A passphrase has one normal form, and None is neither a key nor a       *)
(* point: these are assumptions of DidIdentity.                            *)

(* The encoding a DID is derived from.                                     *)
Canonical(curve) == IF curve = "Secp256k1" THEN "compressed" ELSE "uncompressed"

(* A registered DID names the curve and the canonical encoding of a point. *)
RegistryInv ==
    \A r \in registry : \E curve \in Curves : \E id :
        /\ r.point = [curve |-> curve, id |-> id]
        /\ r.did = <<tag(curve), to_encoded_point(r.point, Canonical(curve))>>

(* The wallet holds a key.                                                 *)
WalletInv == generated \in 0..MaxKeys /\ (wallet # None => wallet \in KeyPairs)

(* The backup is of a key derived from a phrase as it was written down.    *)
BackupInv ==
    backup # None =>
        \E e \in Entropies, p \in Spellings :
            backup = [phrase |-> Written(e), spelling |-> p,
                      key |-> derive_k1_keypair(Written(e), p)]

(* What was typed in is what the wallet was derived from, unless it was    *)
(* refused.                                                                *)
EnteredInv ==
    entered # None =>
        /\ backup # None
        /\ entered.phrase \in Typed /\ entered.spelling \in Spellings
        /\ LET key == derive_k1_keypair(entered.phrase, entered.spelling)
           IN key # None => wallet = key

(* A signature is of the key that made it, on the curve its caller named.  *)
SignedInv ==
    signed # None =>
        \E key \in KeyPairs, curve \in Curves, msg \in Messages :
            signed = [by |-> [curve |-> curve,
                              id |-> IF curve = key.curve THEN key.id ELSE <<"other", key.id>>],
                      key |-> key, msg |-> msg, len |-> 64, s |-> "low"]

DidInv == RegistryInv /\ WalletInv /\ BackupInv /\ EnteredInv /\ SignedInv

(* A curve code that is not refused names a curve.                         *)
LEMMA CodesNameCurves ==
    ASSUME NEW code \in Codes, curve_from_code(code) # None
    PROVE  curve_from_code(code) \in Curves
BY DEF curve_from_code, Curves, Codes

(* What is derived from a phrase is a key of that phrase's entropy and     *)
(* that passphrase's normal form, or nothing.                              *)
LEMMA DerivedKeys ==
    ASSUME NEW phrase, phrase.entropy \in Entropies, NEW p \in Spellings
    PROVE  LET key == derive_k1_keypair(phrase, p)
               derived == [curve |-> "Secp256k1", id |-> <<"seed", phrase.entropy, Nfkd[p]>>,
                           twin |-> FALSE]
           IN /\ key = None \/ key \in KeyPairs
              /\ derived \in KeyPairs
              /\ MnemonicOk(trim(phrase)) => key = derived
              /\ ~MnemonicOk(trim(phrase)) => key = None
<1> DEFINE derived == [curve |-> "Secp256k1", id |-> <<"seed", phrase.entropy, Nfkd[p]>>,
                       twin |-> FALSE]
<1>1. Nfkd[p] \in Spellings
  BY ConstantsAssumption
<1>2. <<"seed", phrase.entropy, Nfkd[p]>> \in Ids
  BY <1>1 DEF Ids
<1>3. derived \in KeyPairs
  BY <1>2 DEF KeyPairs, Curves
<1>4. derive_k1_keypair(phrase, p) = IF ~MnemonicOk(trim(phrase)) THEN None ELSE derived
  BY DEF derive_k1_keypair, nfkd
<1> QED
  BY <1>3, <1>4

(* Nobody has a key yet.                                                   *)
LEMMA InitDidInv ==
    ASSUME DidInit
    PROVE  DidInv
BY ConstantsAssumption DEF DidInit, DidInv, RegistryInv, WalletInv, BackupInv, EnteredInv, SignedInv

(* No operation of a wallet leaves the invariant.                          *)
LEMMA NextDidInv ==
    ASSUME DidInv, [DidNext]_didVars
    PROVE  DidInv'
<1> USE DEF DidInv
<1>1. ASSUME NEW code \in Codes, NEW twin \in BOOLEAN, GenerateKeypair(code, twin)
      PROVE  DidInv'
  <2>1. /\ wallet = None /\ generated < MaxKeys /\ generated' = generated + 1
        /\ wallet' = [curve |-> curve_from_code(code), id |-> <<"random", generated>>,
                      twin |-> twin]
        /\ curve_from_code(code) # None
        /\ UNCHANGED <<backup, entered, registry, signed>>
    BY <1>1 DEF GenerateKeypair
  <2>2. curve_from_code(code) \in Curves
    BY <2>1, CodesNameCurves
  <2>3. generated \in 0..MaxKeys /\ generated' \in 0..MaxKeys
    BY <2>1, ConstantsAssumption DEF WalletInv
  <2>4. <<"random", generated>> \in Ids
    BY <2>3 DEF Ids
  <2>5. WalletInv'
    BY <2>1, <2>2, <2>3, <2>4 DEF WalletInv, KeyPairs
  <2>6. EnteredInv'
    <3> SUFFICES ASSUME entered # None,
                        derive_k1_keypair(entered.phrase, entered.spelling) # None
                 PROVE  FALSE
      BY <2>1 DEF EnteredInv
    <3> DEFINE key == derive_k1_keypair(entered.phrase, entered.spelling)
    <3>1. wallet = key
      BY DEF EnteredInv
    <3> QED BY <2>1, <3>1
  <2>7. RegistryInv' /\ BackupInv' /\ SignedInv'
    BY <2>1 DEF RegistryInv, BackupInv, SignedInv
  <2> QED BY <2>5, <2>6, <2>7
<1>2. ASSUME NEW e \in Entropies, NEW p \in Spellings, CreateSeed(e, p)
      PROVE  DidInv'
  <2> DEFINE key == derive_k1_keypair(Written(e), p)
  <2>1. /\ backup = None /\ wallet' = key
        /\ backup' = [phrase |-> Written(e), spelling |-> p, key |-> key]
        /\ UNCHANGED <<generated, entered, registry, signed>>
    BY <1>2 DEF CreateSeed
  <2>2. Written(e).entropy = e
    BY DEF Written, Phrase
  <2>3. key = None \/ key \in KeyPairs
    BY <2>2, DerivedKeys
  <2> HIDE DEF key
  <2>4. WalletInv'
    BY <2>1, <2>3 DEF WalletInv
  <2>5. BackupInv'
    BY <2>1 DEF BackupInv, key
  <2>6. EnteredInv'
    BY <2>1 DEF EnteredInv
  <2>7. RegistryInv' /\ SignedInv'
    BY <2>1 DEF RegistryInv, SignedInv
  <2> QED BY <2>4, <2>5, <2>6, <2>7
<1>3. CASE LoseDevice
  BY <1>3 DEF LoseDevice, RegistryInv, WalletInv, BackupInv, EnteredInv, SignedInv
<1>4. ASSUME NEW phrase \in Typed, NEW p \in Spellings, Restore(phrase, p)
      PROVE  DidInv'
  <2> DEFINE key == derive_k1_keypair(phrase, p)
  <2>1. /\ backup # None /\ wallet' = key
        /\ entered' = [phrase |-> phrase, spelling |-> p]
        /\ UNCHANGED <<backup, generated, registry, signed>>
    BY <1>4 DEF Restore
  <2>2. phrase.entropy \in Entropies
    BY DEF Typed, Phrase
  <2>3. key = None \/ key \in KeyPairs
    BY <2>2, DerivedKeys
  <2>4. entered'.phrase = phrase /\ entered'.spelling = p
    BY <2>1
  <2> HIDE DEF key
  <2>5. WalletInv'
    BY <2>1, <2>3 DEF WalletInv
  <2>6. EnteredInv'
    BY <2>1, <2>4 DEF EnteredInv, key
  <2>7. RegistryInv' /\ BackupInv' /\ SignedInv'
    BY <2>1 DEF RegistryInv, BackupInv, SignedInv
  <2> QED BY <2>5, <2>6, <2>7
<1>5. ASSUME NEW code \in Codes, NEW form \in Forms, Register(code, form)
      PROVE  DidInv'
  <2> DEFINE enc == Encode(wallet, form)
             curve == curve_from_code(code)
             point == from_sec1_bytes(curve, enc)
             r == [did |-> did_from_public(curve, enc), point |-> point]
  <2>1. /\ curve # None /\ did_from_public(curve, enc) # None
        /\ registry' = registry \cup {r}
        /\ UNCHANGED <<wallet, backup, generated, entered, signed>>
    BY <1>5 DEF Register
  <2>2. curve \in Curves
    BY <2>1, CodesNameCurves
  <2> HIDE DEF curve, enc
  <2>3. /\ point # None
        /\ did_from_public(curve, enc)
              = <<tag(curve), to_encoded_point(point, Canonical(curve))>>
    BY <2>1 DEF did_from_public, canonical_sec1, Canonical
  <2>4. point = [curve |-> curve, id |-> enc.id]
    BY <2>3 DEF from_sec1_bytes
  <2>5. RegistryInv'
    <3>1. r.point = [curve |-> curve, id |-> enc.id]
      BY <2>4
    <3>2. r.did = <<tag(curve), to_encoded_point(r.point, Canonical(curve))>>
      BY <2>3
    <3> HIDE DEF r
    <3> QED BY <2>1, <2>2, <3>1, <3>2 DEF RegistryInv
  <2>6. WalletInv' /\ BackupInv' /\ EnteredInv' /\ SignedInv'
    BY <2>1 DEF WalletInv, BackupInv, EnteredInv, SignedInv
  <2> QED BY <2>5, <2>6
<1>6. ASSUME NEW code \in Codes, NEW msg \in Messages, NEW s \in {"low", "high"},
             Sign(code, msg, s)
      PROVE  DidInv'
  <2> DEFINE curve == curve_from_code(code)
  <2>1. /\ wallet # None /\ curve # None
        /\ signed' = [by |-> [curve |-> curve,
                              id |-> IF curve = wallet.curve THEN wallet.id
                                     ELSE <<"other", wallet.id>>],
                      key |-> wallet, msg |-> msg, len |-> 64, s |-> "low"]
        /\ UNCHANGED <<wallet, backup, generated, entered, registry>>
    BY <1>6 DEF Sign, normalize_s
  <2>2. curve \in Curves
    BY <2>1, CodesNameCurves
  <2> HIDE DEF curve
  <2>3. wallet \in KeyPairs
    BY <2>1 DEF WalletInv
  <2>4. SignedInv'
    BY <2>1, <2>2, <2>3 DEF SignedInv
  <2>5. RegistryInv' /\ WalletInv' /\ BackupInv' /\ EnteredInv'
    BY <2>1 DEF RegistryInv, WalletInv, BackupInv, EnteredInv
  <2> QED BY <2>4, <2>5
<1>7. CASE UNCHANGED didVars
  BY <1>7 DEF didVars, RegistryInv, WalletInv, BackupInv, EnteredInv, SignedInv
<1> QED
  BY <1>1, <1>2, <1>3, <1>4, <1>5, <1>6, <1>7 DEF DidNext

(* A phrase typed in with the right checksum and no gap is accepted.       *)
LEMMA TypedPhrases ==
    ASSUME NEW t \in Typed, t.check = Checksum[t.entropy], ~t.gap
    PROVE  MnemonicOk(trim(t))
<1>1. PICK g \in Entropies, c \in {Checksum[x] : x \in Entropies}, b \in BOOLEAN,
           h \in BOOLEAN : t = Phrase(g, c, b, h)
  BY DEF Typed
<1>2. trim(t) = [t EXCEPT !.padded = FALSE]
  BY DEF trim
<1>3. /\ t = [entropy |-> g, check |-> c, padded |-> b, gap |-> h]
      /\ t.entropy = g /\ t.check = c /\ t.gap = h
  BY <1>1 DEF Phrase
<1>4. h = FALSE
  BY <1>3
<1> DEFINE u == [t EXCEPT !.padded = FALSE]
<1>5. u.padded = FALSE /\ u.gap = h /\ u.check = c /\ u.entropy = g
  BY <1>3
<1>6. trim(t) = u /\ c = Checksum[g]
  BY <1>2, <1>3
<1> HIDE DEF u
<1> QED
  BY <1>4, <1>5, <1>6 DEF MnemonicOk

(* What a wallet and its owner hold and have registered, at every moment.  *)
THEOREM DidInvariance ==
    DidSpec => []DidInv
<1>1. DidInit => DidInv
  BY InitDidInv
<1>2. DidInv /\ [DidNext]_didVars => DidInv'
  BY NextDidInv
<1> QED
  BY <1>1, <1>2, PTL DEF DidSpec

(* Two registrations have one DID exactly when they are of one point,      *)
(* whatever keys, curves and encodings they were made with.                *)
THEOREM DidsStandForPoints ==
    DidSpec => []DidsIdentifyPoints
<1>1. DidInv => DidsIdentifyPoints
  <2> SUFFICES ASSUME RegistryInv, NEW r \in registry, NEW t \in registry
               PROVE  r.did = t.did <=> r.point = t.point
    BY DEF DidInv, DidsIdentifyPoints
  <2>c. PICK c \in Curves : \E i :
           /\ r.point = [curve |-> c, id |-> i]
           /\ r.did = <<tag(c), to_encoded_point(r.point, Canonical(c))>>
    BY DEF RegistryInv
  <2>1. PICK i :
           /\ r.point = [curve |-> c, id |-> i]
           /\ r.did = <<tag(c), to_encoded_point(r.point, Canonical(c))>>
    BY <2>c
  <2>d. PICK d \in Curves : \E j :
           /\ t.point = [curve |-> d, id |-> j]
           /\ t.did = <<tag(d), to_encoded_point(t.point, Canonical(d))>>
    BY DEF RegistryInv
  <2>2. PICK j :
           /\ t.point = [curve |-> d, id |-> j]
           /\ t.did = <<tag(d), to_encoded_point(t.point, Canonical(d))>>
    BY <2>d
  <2>3. r.point.curve = c /\ r.point.id = i /\ t.point.curve = d /\ t.point.id = j
    BY <2>1, <2>2
  <2>4. ASSUME r.point = t.point PROVE r.did = t.did
    BY <2>1, <2>2, <2>3, <2>4
  <2>5. ASSUME r.did = t.did PROVE r.point = t.point
    <3>1. /\ tag(c) = tag(d)
          /\ to_encoded_point(r.point, Canonical(c))
                = to_encoded_point(t.point, Canonical(d))
      BY <2>1, <2>2, <2>5
    <3>2. c = d
      BY <3>1 DEF tag, Curves
    <3>3. i = j
      <4>1. Canonical(c) \in {"compressed", "uncompressed"}
        BY DEF Canonical
      <4>2. CASE Canonical(c) = "compressed"
        BY <2>3, <3>1, <3>2, <4>2 DEF to_encoded_point
      <4>3. CASE Canonical(c) = "uncompressed"
        BY <2>3, <3>1, <3>2, <4>3 DEF to_encoded_point
      <4> QED BY <4>1, <4>2, <4>3
    <3> QED BY <2>1, <2>2, <3>2, <3>3
  <2> QED BY <2>4, <2>5
<1> QED
  BY <1>1, DidInvariance, PTL

(* The phrase written down restores the key it was written for, whatever   *)
(* was done with the wallet in between, and only with the same passphrase. *)
THEOREM OwnersRecoverTheirKeys ==
    DidSpec => []RecoveryRestoresIdentity
<1>1. DidInv => RecoveryRestoresIdentity
  <2> SUFFICES ASSUME DidInv, entered # None,
                      entered.phrase.entropy = backup.phrase.entropy,
                      entered.phrase.check = backup.phrase.check, ~entered.phrase.gap
               PROVE  wallet = backup.key <=> Nfkd[entered.spelling] = Nfkd[backup.spelling]
    BY DEF RecoveryRestoresIdentity
  <2> DEFINE typed == entered.phrase
             q == entered.spelling
             Key(e, p) == [curve |-> "Secp256k1", id |-> <<"seed", e, Nfkd[p]>>, twin |-> FALSE]
  <2>1. /\ backup # None /\ typed \in Typed /\ q \in Spellings
        /\ derive_k1_keypair(typed, q) # None => wallet = derive_k1_keypair(typed, q)
    BY DEF DidInv, EnteredInv
  <2>2. PICK e \in Entropies, p \in Spellings :
           backup = [phrase |-> Written(e), spelling |-> p,
                     key |-> derive_k1_keypair(Written(e), p)]
    BY <2>1 DEF DidInv, BackupInv
  <2>3. /\ Written(e) = [entropy |-> e, check |-> Checksum[e], padded |-> FALSE, gap |-> FALSE]
        /\ MnemonicOk(trim(Written(e)))
    BY DEF Written, Phrase, MnemonicOk, trim
  <2>4. backup.key = Key(e, p) /\ backup.spelling = p
    <3>1. Written(e).entropy = e
      BY <2>3
    <3>2. derive_k1_keypair(Written(e), p) = Key(e, p)
      BY <2>3, <3>1, DerivedKeys
    <3> QED BY <2>2, <3>2
  <2>5. typed.entropy = e /\ typed.check = Checksum[e]
    BY <2>2, <2>3
  <2>6. MnemonicOk(trim(typed))
    BY <2>1, <2>5, TypedPhrases
  <2>7. wallet = Key(e, q)
    <3>1. derive_k1_keypair(typed, q) = Key(e, q) /\ Key(e, q) \in KeyPairs
      BY <2>1, <2>5, <2>6, DerivedKeys
    <3>2. None \notin KeyPairs
      BY ConstantsAssumption
    <3> QED BY <2>1, <3>1, <3>2
  <2>8. Key(e, q) = Key(e, p) <=> Nfkd[q] = Nfkd[p]
    <3>1. Key(e, q).id = <<"seed", e, Nfkd[q]>> /\ Key(e, p).id = <<"seed", e, Nfkd[p]>>
      OBVIOUS
    <3>2. ASSUME Key(e, q) = Key(e, p) PROVE Nfkd[q] = Nfkd[p]
      <4>1. <<"seed", e, Nfkd[q]>> = <<"seed", e, Nfkd[p]>>
        BY <3>1, <3>2
      <4> QED BY <4>1
    <3> QED BY <3>2
  <2> HIDE DEF Key
  <2> QED BY <2>4, <2>7, <2>8
<1> QED
  BY <1>1, DidInvariance, PTL

(* A signature is good for its key, curve and message, with its low S,     *)
(* and for nothing else.                                                   *)
THEOREM SignaturesStayFirm ==
    DidSpec => []SignaturesAreFirm
<1>1. DidInv => SignaturesAreFirm
  <2> SUFFICES ASSUME SignedInv, signed # None, NEW form \in Forms,
                      NEW curve \in Curves, NEW msg \in Messages
               PROVE  /\ verify(curve, Encode(signed.key, form), msg, signed)
                         <=> /\ signed.by.curve = signed.key.curve
                             /\ curve = signed.key.curve /\ msg = signed.msg
                      /\ ~verify(curve, Encode(signed.key, form), msg,
                                     Flipped(signed))
    BY DEF DidInv, SignaturesAreFirm
  <2>1. PICK key \in KeyPairs, c \in Curves, m \in Messages :
           signed = [by |-> [curve |-> c,
                             id |-> IF c = key.curve THEN key.id ELSE <<"other", key.id>>],
                     key |-> key, msg |-> m, len |-> 64, s |-> "low"]
    BY DEF SignedInv
  <2> DEFINE enc == Encode(key, form)
             point == [curve |-> curve, id |-> key.id]
  <2>2. /\ signed.key = key /\ signed.msg = m /\ signed.len = 64 /\ signed.s = "low"
        /\ signed.by.curve = c
        /\ signed.by = [curve |-> c,
                        id |-> IF c = key.curve THEN key.id ELSE <<"other", key.id>>]
    BY <2>1
  <2>3. key.id \in Ids /\ <<"other", key.id>> # key.id
    <3>1. key.id \in Ids
      BY DEF KeyPairs
    <3>2. \A x \in Ids : x[1] # "other"
      BY DEF Ids
    <3> QED BY <3>1, <3>2
  <2>4. point # None
    BY <2>3, ConstantsAssumption
  <2>5. /\ enc.curve = key.curve /\ enc.id = key.id /\ enc.form = form /\ enc.twin = key.twin
    BY DEF Encode
  <2>6. from_sec1_bytes(curve, enc) = IF key.curve = curve \/ (form = "compressed" /\ key.twin)
                                         THEN point ELSE None
    BY <2>5 DEF from_sec1_bytes
  <2>7. signed.by = point <=> c = curve /\ c = key.curve
    BY <2>2, <2>3
  <2>8. verify(curve, enc, msg, signed)
        <=> signed.by = point /\ from_sec1_bytes(curve, enc) = point /\ m = msg
    <3> HIDE DEF enc, point
    <3> QED BY <2>2, <2>4, <2>6 DEF verify
  <2>9. verify(curve, enc, msg, signed) <=> c = key.curve /\ curve = key.curve /\ msg = m
    BY <2>6, <2>7, <2>8
  <2>10. Flipped(signed).s = "high"
    BY <2>1 DEF Flipped
  <2>11. ~verify(curve, enc, msg, Flipped(signed))
    BY <2>10 DEF verify
  <2> QED BY <2>2, <2>9, <2>11
<1> QED
  BY <1>1, DidInvariance, PTL
=============================================================================
