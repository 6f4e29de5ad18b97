------------------------------ MODULE WebAuthn ------------------------------
(***************************************************************************)
(* The WebAuthn verifier, src/src/webauthn.rs, between a relying party     *)
(* that issues challenges and browsers and authenticators that answer      *)
(* them.  Pages of several origins run ceremonies, alone or framed in one  *)
(* another; what they produce is carried, repeated and altered on its way  *)
(* to the verifier.                                                        *)
(*                                                                         *)
(* Browsers, authenticators and the relying party are outside the          *)
(* repository; they do what the verifier's checks take for granted: a      *)
(* browser reports the page's origin and framing truthfully, an            *)
(* authenticator uses a key only for its relying party, and the relying    *)
(* party uses a challenge once.  Hashes and signatures are symbolic.       *)
(***************************************************************************)
EXTENDS Integers, FiniteSets

CONSTANTS
    Challenges,     \* challenge byte strings
    Origins,        \* page origins
    RpIds,          \* relying party ids
    RpOf,           \* the id a page of an origin may use
    Keys,           \* authenticator key pairs
    KeyRp,          \* the relying party each key belongs to
    Home, HomeRp,   \* the origin and id the verifier is called with
    MaxCeremonies   \* bound: ceremonies run

ASSUME RpAssumption ==
    RpOf \in [Origins -> RpIds] /\ KeyRp \in [Keys -> RpIds]
ASSUME HomeAssumption == Home \in Origins /\ HomeRp \in RpIds
ASSUME BoundAssumption == MaxCeremonies \in Nat

VARIABLES
    issued,     \* challenges the relying party has outstanding
    used,       \* challenges it has issued so far
    made,       \* ceremonies run: what the page did and what was signed
    accepted    \* logins: the ceremony behind each, and what was returned

vars == <<issued, used, made, accepted>>

Flags == {"UP", "UV", "BE", "BS"}
MIN_AUTH_DATA_LEN == 37     \* 32 rpIdHash, 1 flags, 4 counter

(* base64url without padding of a challenge, as a text.                    *)
URL_SAFE_NO_PAD(ch) == [b64 |-> ch, padded |-> FALSE]

Init == issued = {} /\ used = {} /\ made = {} /\ accepted = {}

Issue(ch) ==
    /\ ch \notin used
    /\ issued' = issued \cup {ch}
    /\ used' = used \cup {ch}
    /\ UNCHANGED <<made, accepted>>
-----------------------------------------------------------------------------
(* How an authenticator may write one signature: `alike` says that the     *)
(* bytes also parse in the other encoding, to another pair (r, s): a DER   *)
(* encoding of exactly 64 bytes, or a raw pair that happens to be DER.     *)
Encodings == [enc : {"der", "raw"}, alike : BOOLEAN]

(* A page asks for a signature.  crossOrigin is None, FALSE or TRUE.       *)
ClientDatas(origin, framed, ch, typ) ==
    {cd \in [typ : {typ}, challenge : {URL_SAFE_NO_PAD(ch)}, origin : {origin},
             crossOrigin : {"None", "FALSE", "TRUE"}, topOrigin : BOOLEAN] :
        framed <=> cd.crossOrigin = "TRUE" \/ cd.topOrigin}

(* The ceremony: the authenticator signs for its own relying party, with   *)
(* whatever gestures the user made, counting up; S is not normalised.      *)
Ceremony(key, origin, framed, cd, flags, s, form) ==
    /\ Cardinality(made) < MaxCeremonies
    /\ RpOf[origin] = KeyRp[key]
    /\ LET ad == [len |-> MIN_AUTH_DATA_LEN, rpIdHash |-> KeyRp[key], flags |-> flags,
                  signCount |-> Cardinality(made) + 1]
       IN made' = made \cup
              {[key |-> key, origin |-> origin, framed |-> framed, typ |-> cd.typ,
                msg |-> [client_data_json |-> cd, authenticator_data |-> ad,
                         signature |-> [key |-> key, over |-> <<ad, cd>>, s |-> s,
                                        form |-> form]]]}
    /\ UNCHANGED <<issued, used, accepted>>

(* On the way the signed data may be altered, cut short or lose its form,  *)
(* and a signature may be negated or rewritten: (r, n - s) signs the same. *)
Other(s) == IF s = "low" THEN "high" ELSE "low"

Altered(m) ==
    LET cd == m.client_data_json
        ad == m.authenticator_data
    IN {m, [m EXCEPT !.signature.s = Other(@)]}
       \cup {[m EXCEPT !.signature.form = f] : f \in Encodings}
       \cup {[m EXCEPT !.client_data_json.challenge = URL_SAFE_NO_PAD(ch)] : ch \in Challenges}
       \cup {[m EXCEPT !.client_data_json.challenge.padded = TRUE],
             [m EXCEPT !.client_data_json.typ = "webauthn.get"],
             [m EXCEPT !.client_data_json.origin = Home],
             [m EXCEPT !.client_data_json.crossOrigin = "None",
                       !.client_data_json.topOrigin = FALSE],
             [m EXCEPT !.authenticator_data.rpIdHash = HomeRp],
             [m EXCEPT !.authenticator_data.flags = Flags],
             [m EXCEPT !.authenticator_data.signCount = @ + 1],
             [m EXCEPT !.authenticator_data.len = MIN_AUTH_DATA_LEN - 1]}
-----------------------------------------------------------------------------
(* Mutant: the challenge is not compared.                                  *)
ClientDataOkAnyChallenge(cd, ch, origin) ==
    /\ cd.typ = "webauthn.get"
    /\ cd.origin = origin
    /\ ~(cd.crossOrigin = "TRUE" \/ cd.topOrigin)

ClientDataOk(cd, ch, origin) ==
    /\ cd.typ = "webauthn.get"
    /\ cd.origin = origin
    /\ ~(cd.crossOrigin = "TRUE" \/ cd.topOrigin)
    /\ cd.challenge = URL_SAFE_NO_PAD(ch)

LongEnough(ad) == ad.len >= MIN_AUTH_DATA_LEN

(* Mutant: verification, where required, stands in for presence.           *)
AuthDataOkEither(ad, rp, require_uv) ==
    /\ ad.rpIdHash = rp
    /\ IF require_uv THEN "UV" \in ad.flags ELSE "UP" \in ad.flags

AuthDataOk(ad, rp, require_uv) ==
    /\ ad.rpIdHash = rp
    /\ "UP" \in ad.flags
    /\ require_uv => "UV" \in ad.flags

(* Mutant: raw is tried before DER.                                        *)
ParsedRawFirst(form) == form.enc = "raw" \/ ~form.alike

(* from_der, and from_slice when that fails: whether the parsed pair is    *)
(* the one that was written.                                               *)
ParsedAsWritten(form) == form.enc = "der" \/ ~form.alike

(* Mutant: high S passes.                                                  *)
verify_p256_any_s(key, signed, sig) ==
    /\ ParsedAsWritten(sig.form)
    /\ sig.key = key /\ sig.over = signed

verify_p256_low_s(key, signed, sig) ==
    /\ ParsedAsWritten(sig.form)
    /\ sig.s = "low"
    /\ sig.key = key /\ sig.over = signed

(* verify_inner. Past the length test it slices [..32], [32], [33..37].    *)
verify_inner(m, ch, key, origin, rp, require_uv) ==
    LET cd == m.client_data_json
        ad == m.authenticator_data
    IN /\ ClientDataOk(cd, ch, origin)
       /\ LongEnough(ad)
       /\ AuthDataOk(ad, rp, require_uv)
       /\ verify_p256_low_s(key, <<ad, cd>>, m.signature)

AssertionDetails(ad) ==
    [sign_count |-> ad.signCount, user_present |-> "UP" \in ad.flags,
     user_verified |-> "UV" \in ad.flags, backup_eligible |-> "BE" \in ad.flags,
     backup_state |-> "BS" \in ad.flags]

(* The relying party verifies what arrived for an outstanding challenge    *)
(* and takes the challenge back when it logs the user in.                  *)
Login(c, m, ch, key, require_uv) ==
    /\ ch \in issued
    /\ verify_inner(m, ch, key, Home, HomeRp, require_uv)
    /\ accepted' = accepted \cup
           {[ceremony |-> c, msg |-> m, ch |-> ch, key |-> key, require_uv |-> require_uv,
             details |-> AssertionDetails(m.authenticator_data)]}
    /\ issued' = issued \ {ch}
    /\ UNCHANGED <<used, made>>

FlagSets == {{"UP"}, {"UP", "UV"}, {"UV", "BE"}, Flags}

Next ==
    \/ \E ch \in Challenges : Issue(ch)
    \/ \E key \in Keys, origin \in Origins, framed \in BOOLEAN, ch \in used,
          typ \in {"webauthn.get", "webauthn.create"}, flags \in FlagSets,
          s \in {"low", "high"}, form \in Encodings :
       \E cd \in ClientDatas(origin, framed, ch, typ) :
           Ceremony(key, origin, framed, cd, flags, s, form)
    \/ \E c \in made : \E m \in Altered(c.msg) :
       \E ch \in issued, key \in Keys, require_uv \in BOOLEAN :
           Login(c, m, ch, key, require_uv)

Spec == Init /\ [][Next]_vars
-----------------------------------------------------------------------------
(* Every login is backed by a ceremony the key's authenticator signed, run *)
(* for sign-in on the home page itself and not in a frame, for this        *)
(* challenge, with the user present and, where required, verified; and the *)
(* details returned are what the authenticator reported then.              *)
LoginsAreGenuine ==
    \A a \in accepted :
        /\ a.ceremony.key = a.key /\ KeyRp[a.key] = HomeRp
        /\ a.ceremony.origin = Home /\ ~a.ceremony.framed
        /\ a.ceremony.typ = "webauthn.get"
        /\ a.ceremony.msg.client_data_json.challenge = URL_SAFE_NO_PAD(a.ch)
        /\ a.details.user_present
        /\ a.require_uv => a.details.user_verified
        /\ a.details = AssertionDetails(a.ceremony.msg.authenticator_data)

(* A ceremony logs its user in at most once, however often its assertion   *)
(* is repeated and for whichever challenge.                                *)
NoReplay == \A a, b \in accepted : a.ceremony = b.ceremony => a = b

(* Of all the rewritings of one ceremony's signature a relay can make, at  *)
(* most one value (r, s) is accepted ("malleability defense",              *)
(* webauthn.rs:197).                                                       *)
OneSignatureValue ==
    \A c \in made : \A ch \in issued : \A m, n \in Altered(c.msg) :
        /\ verify_inner(m, ch, c.key, Home, HomeRp, FALSE)
        /\ verify_inner(n, ch, c.key, Home, HomeRp, FALSE)
        => m.signature.s = n.signature.s

(* An unframed sign-in on the home page with the gestures required, an S   *)
(* the authenticator left low, and its signature written as DER, or raw    *)
(* without looking like DER, is accepted while its challenge is out.       *)
HonestLoginsSucceed ==
    \A c \in made : \A ch \in issued : \A require_uv \in BOOLEAN :
        /\ c.origin = Home /\ KeyRp[c.key] = HomeRp /\ ~c.framed /\ c.typ = "webauthn.get"
        /\ c.msg.client_data_json.challenge = URL_SAFE_NO_PAD(ch)
        /\ AuthDataOk(c.msg.authenticator_data, HomeRp, require_uv)
        /\ c.msg.signature.s = "low"
        /\ c.msg.signature.form.enc = "raw" => ~c.msg.signature.form.alike
        => verify_inner(c.msg, ch, c.key, Home, HomeRp, require_uv)
=============================================================================
