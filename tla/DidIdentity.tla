---------------------------- MODULE DidIdentity ----------------------------
(***************************************************************************)
(* Self-owned identities: key pairs and signatures on two curves and the   *)
(* did:phi identifiers derived from them (src/src/did.rs), and the         *)
(* recovery phrase of the self-custody path (src/src/seed.rs).  A wallet   *)
(* makes or derives a key, registers its DID in whatever encoding its      *)
(* platform emits, signs, loses its device and is restored from what its   *)
(* owner types in.                                                         *)
(*                                                                         *)
(* A point is [curve, id]; `twin` says that its compressed encoding, which *)
(* names only an x coordinate, happens to be valid on the other curve too. *)
(* Hashing, ECDSA and BIP-32 are symbolic: each is injective.              *)
(***************************************************************************)
EXTENDS Integers, Sequences, FiniteSets

CONSTANTS
    Entropies,      \* BIP-39 entropies
    Checksum,       \* their checksum words: fewer than there are entropies
    Spellings,      \* ways a passphrase can be typed
    Nfkd,           \* what each one normalizes to
    Messages,
    MaxKeys,        \* bound: random key pairs generated
    MaxDids,        \* bound: DIDs registered
    None

Curves == {"Secp256k1", "Secp256r1"}
Forms == {"compressed", "uncompressed"}
Codes == 0..2

(* Keys: random ones, and those derived from a phrase and a passphrase.    *)
Ids == {<<"random", k>> : k \in 0..MaxKeys}
       \cup {<<"seed", e, p>> : e \in Entropies, p \in Spellings}
KeyPairs == [curve : Curves, id : Ids, twin : BOOLEAN]

(* A passphrase has one normal form; None is neither a key nor a point.    *)
ASSUME ConstantsAssumption ==
    /\ Nfkd \in [Spellings -> Spellings] /\ \A p \in Spellings : Nfkd[Nfkd[p]] = Nfkd[p]
    /\ Checksum \in [Entropies -> Nat]
    /\ None \notin KeyPairs /\ None \notin [curve : Curves, id : Ids]
    /\ MaxKeys \in Nat /\ MaxDids \in Nat

VARIABLES
    wallet,     \* the key pair on the device: [curve, id, twin] or None
    backup,     \* what the owner wrote down: [phrase, pass, wallet] or None
    generated,  \* random key pairs generated so far
    entered,    \* what was last typed in to restore: [typed, spelling] or None
    registry,   \* DIDs registered so far, with the point each stands for
    signed      \* the last signature of this wallet, or None

didVars == <<wallet, backup, generated, entered, registry, signed>>

DidInit ==
    /\ wallet = None /\ backup = None /\ entered = None
    /\ generated = 0 /\ registry = {} /\ signed = None
-----------------------------------------------------------------------------
(* curve_from_code of the C, wasm and Flutter boundaries.                  *)
curve_from_code(code) ==
    CASE code = 0 -> "Secp256k1" [] code = 1 -> "Secp256r1" [] OTHER -> None

(* The encodings of a key; compressed bytes do not say which curve.        *)
Encode(k, form) == [form |-> form, curve |-> k.curve, id |-> k.id, twin |-> k.twin]

(* from_sec1_bytes on a curve: the point, or None.                         *)
from_sec1_bytes(curve, enc) ==
    IF enc.curve = curve \/ (enc.form = "compressed" /\ enc.twin)
    THEN [curve |-> curve, id |-> enc.id] ELSE None

(* to_encoded_point: the bytes of a point, apart from the curve of a       *)
(* compressed one.                                                         *)
to_encoded_point(point, form) ==
    IF form = "compressed" THEN <<"compressed", point.id>>
    ELSE <<"uncompressed", point.id, point.curve>>

(* Mutant: the encoding is kept as it was given.                           *)
canonical_sec1AsGiven(curve, enc) ==
    IF from_sec1_bytes(curve, enc) = None THEN None
    ELSE to_encoded_point(from_sec1_bytes(curve, enc), enc.form)

canonical_sec1(curve, enc) ==
    IF from_sec1_bytes(curve, enc) = None THEN None
    ELSE to_encoded_point(from_sec1_bytes(curve, enc),
                          IF curve = "Secp256k1" THEN "compressed" ELSE "uncompressed")

tag(curve) == IF curve = "Secp256k1" THEN 1 ELSE 2

did_from_public(curve, enc) ==
    IF canonical_sec1(curve, enc) = None THEN None
    ELSE <<tag(curve), canonical_sec1(curve, enc)>>

(* generate_keypair: a fresh key on a curve.                               *)
GenerateKeypair(code, twin) ==
    /\ wallet = None /\ generated < MaxKeys
    /\ curve_from_code(code) # None
    /\ generated' = generated + 1
    /\ wallet' = [curve |-> curve_from_code(code), id |-> <<"random", generated>>, twin |-> twin]
    /\ UNCHANGED <<backup, entered, registry, signed>>
-----------------------------------------------------------------------------
(* A phrase is its words, entropy and checksum, with its spacing: what     *)
(* surrounds it, and whether two words are more than one space apart.      *)
Phrase(e, check, padded, gap) ==
    [entropy |-> e, check |-> check, padded |-> padded, gap |-> gap]

Written(e) == Phrase(e, Checksum[e], FALSE, FALSE)

trim(phrase) == [phrase EXCEPT !.padded = FALSE]

(* Mnemonic::new: words are split at single spaces, and the checksum must  *)
(* be that of the entropy.                                                 *)
MnemonicOk(phrase) ==
    /\ ~phrase.padded /\ ~phrase.gap
    /\ phrase.check = Checksum[phrase.entropy]

(* Mutant: the passphrase is hashed as it was typed.                       *)
nfkdSkipped(spelling) == spelling

nfkd(spelling) == Nfkd[spelling]

(* derive_k1_keypair at the pinned path: the key, or None for an error.    *)
derive_k1_keypair(phrase, spelling) ==
    IF ~MnemonicOk(trim(phrase)) THEN None
    ELSE [curve |-> "Secp256k1", id |-> <<"seed", phrase.entropy, nfkd(spelling)>>,
          twin |-> FALSE]

(* generate_mnemonic, and the key derived from it.                         *)
CreateSeed(e, spelling) ==
    /\ wallet = None /\ backup = None
    /\ wallet' = derive_k1_keypair(Written(e), spelling)
    /\ backup' = [phrase |-> Written(e), spelling |-> spelling, key |-> wallet']
    /\ UNCHANGED <<generated, entered, registry, signed>>

LoseDevice ==
    /\ wallet # None
    /\ wallet' = None /\ entered' = None /\ signed' = None
    /\ UNCHANGED <<backup, generated, registry>>

(* The owner types the phrase and passphrase in, perhaps not quite as      *)
(* written down; an error leaves the wallet empty.                         *)
Restore(phrase, spelling) ==
    /\ wallet = None /\ backup # None
    /\ wallet' = derive_k1_keypair(phrase, spelling)
    /\ entered' = [phrase |-> phrase, spelling |-> spelling]
    /\ UNCHANGED <<backup, generated, registry, signed>>
-----------------------------------------------------------------------------
(* A DID is registered from a public key in either encoding, under a code. *)
Register(code, form) ==
    /\ wallet # None /\ curve_from_code(code) # None
    /\ Cardinality(registry) < MaxDids
    /\ LET enc == Encode(wallet, form)
           curve == curve_from_code(code)
       IN /\ did_from_public(curve, enc) # None
          /\ registry' = registry \cup {[did |-> did_from_public(curve, enc),
                                         point |-> from_sec1_bytes(curve, enc)]}
    /\ UNCHANGED <<wallet, backup, generated, entered, signed>>

(* Mutant: S is normalized on secp256k1 only.                              *)
normalize_sK1Only(curve, s) == IF curve = "Secp256k1" THEN "low" ELSE s

normalize_s(curve, s) == "low"

(* sign: the backend's S may be high and is normalized.  The secret is a   *)
(* bare scalar: it signs on the curve the caller names.                    *)
Sign(code, msg, s) ==
    /\ wallet # None /\ curve_from_code(code) # None
    /\ LET curve == curve_from_code(code) IN
       signed' =
           [by |-> [curve |-> curve,
                    id |-> IF curve = wallet.curve THEN wallet.id ELSE <<"other", wallet.id>>],
            key |-> wallet, msg |-> msg, len |-> 64, s |-> normalize_s(curve, s)]
    /\ UNCHANGED <<wallet, backup, generated, entered, registry>>

verify(curve, enc, msg, sig) ==
    /\ sig.len = 64
    /\ from_sec1_bytes(curve, enc) # None
    /\ sig.s = "low"
    /\ sig.by = from_sec1_bytes(curve, enc) /\ sig.msg = msg

(* What the owner may type: the phrase written down or one with another    *)
(* word, well or badly spaced.                                             *)
Typed == {Phrase(e, c, padded, gap) :
             e \in Entropies, c \in {Checksum[e] : e \in Entropies},
             padded \in BOOLEAN, gap \in BOOLEAN}

DidNext ==
    \/ \E code \in Codes, twin \in BOOLEAN : GenerateKeypair(code, twin)
    \/ \E e \in Entropies, p \in Spellings : CreateSeed(e, p)
    \/ LoseDevice
    \/ \E phrase \in Typed, p \in Spellings : Restore(phrase, p)
    \/ \E code \in Codes, form \in Forms : Register(code, form)
    \/ \E code \in Codes, msg \in Messages, s \in {"low", "high"} : Sign(code, msg, s)

DidSpec == DidInit /\ [][DidNext]_didVars
-----------------------------------------------------------------------------
(* Over all registrations, of all keys, on both curves and in both         *)
(* encodings, two have one DID exactly when they are of one point.         *)
DidsIdentifyPoints ==
    \A r, t \in registry : r.did = t.did <=> r.point = t.point

(* "A user who loses their device re-derives the identical identity"       *)
(* (seed.rs:81): the written phrase, with blanks around it, and any        *)
(* spelling of the same passphrase restore the wallet's key, which signs   *)
(* for the DIDs it had registered; another passphrase never does.          *)
RecoveryRestoresIdentity ==
    entered # None /\ entered.phrase.entropy = backup.phrase.entropy
    /\ entered.phrase.check = backup.phrase.check /\ ~entered.phrase.gap =>
        wallet = backup.key <=> Nfkd[entered.spelling] = Nfkd[backup.spelling]

Flipped(sig) == [sig EXCEPT !.s = IF @ = "low" THEN "high" ELSE "low"]

(* A signature made under its key's own curve code verifies, under either  *)
(* encoding of the key, for its message and that code only; with the other *)
(* S, or made under the wrong code, it never does.                         *)
SignaturesAreFirm ==
    signed # None =>
        \A form \in Forms : \A curve \in Curves, msg \in Messages :
            LET enc == Encode(signed.key, form) IN
            /\ verify(curve, enc, msg, signed)
               <=> /\ signed.by.curve = signed.key.curve
                   /\ curve = signed.key.curve /\ msg = signed.msg
            /\ ~verify(curve, enc, msg, Flipped(signed))
=============================================================================
