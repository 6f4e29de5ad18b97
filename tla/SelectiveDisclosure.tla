------------------------ MODULE SelectiveDisclosure ------------------------
(***************************************************************************)
(* Selective disclosure of credentials, one session at a time: an issuer   *)
(* signs claims, a holder derives a proof revealing some of them, the      *)
(* proof travels, possibly altered, and a verifier checks it.  Two suites  *)
(* implement the CryptoSuite trait:                                        *)
(*   "phi-bbs-v1"  DocknetBbsPlus    src/src/bbs.rs                        *)
(*   "bbs-2023"    Bbs2023Sha256     src/src/bbs_2023.rs                   *)
(* Signatures and proofs are symbolic: a proof records what its prover     *)
(* knew and the Fiat-Shamir challenge it answered, and the backends accept *)
(* it exactly when the verifier recomputes that challenge.                 *)
(* Claims are indexed from 0, as in the code.                              *)
(***************************************************************************)
EXTENDS Integers, Sequences, FiniteSetsExt

CONSTANTS
    MAX_BBS_MESSAGES,   \* bbs.rs:42
    Keys,               \* issuer key pairs, named by their public key
    Claims,             \* claim values; claim_to_fr is injective on them
    Nonces,             \* presentation nonces
    Headers,            \* issuer headers, bbs-2023 only
    NoHeader,           \* the empty one; opt passes it on as absent
    MaxClaims,          \* bound: longest claim list considered
    MaxListed,          \* bound: longest revealed list a relay substitutes
    None                \* no value

Suites == {"phi-bbs-v1", "bbs-2023"}

ASSUME BoundsAssumption ==
    /\ MAX_BBS_MESSAGES \in Nat /\ MaxClaims \in Nat /\ MaxListed \in Nat
    /\ NoHeader \in Headers

VARIABLES
    phase,      \* "keygen", "sign", "derive", "transit" or "judged"
    suite,      \* the suite this session uses
    issuer,     \* the issuer's key pair
    cred,       \* what the issuer signed: [key, header, claims]
    msg,        \* the SelectiveProof in transit
    original,   \* history: that proof as derived, with its nonce
    verdict     \* the verification made of it: [path, key, header, nonce, ok, panicked]

vars == <<phase, suite, issuer, cred, msg, original, verdict>>

ClaimLists == UNION {[1..k -> Claims] : k \in 0..MaxClaims}
Indices == 0..MaxClaims
Entry(i, c) == [idx |-> i, claim |-> c]
EntryLists == UNION {[1..k -> [idx : Indices, claim : Claims]] : k \in 0..MaxListed}

Init ==
    /\ phase = "keygen"
    /\ suite \in Suites
    /\ issuer = None /\ cred = None /\ msg = None /\ original = None /\ verdict = None
-----------------------------------------------------------------------------
(* generate_keypair: phi-bbs-v1 refuses a count out of range, bbs-2023     *)
(* ignores it.  The count is not part of the key: what is signed later may *)
(* have another length.                                                    *)
GenerateKeypair(key, count) ==
    /\ phase = "keygen"
    /\ suite = "phi-bbs-v1" => count \in 1..MAX_BBS_MESSAGES
    /\ issuer' = key
    /\ phase' = "sign"
    /\ UNCHANGED <<suite, cred, msg, original, verdict>>

(* sign_credential: no claims, or (phi-bbs-v1 only) more than the bound,   *)
(* is an error.  A bbs-2023 signature carries the public key with it, and  *)
(* bbs_2023::sign, which the trait calls with the empty header, signs no   *)
(* claims at all if there is a header.                                     *)
SignAccepts(claims, header) ==
    /\ Len(claims) # 0 \/ header # NoHeader
    /\ suite = "phi-bbs-v1" => header = NoHeader /\ Len(claims) <= MAX_BBS_MESSAGES

SignCredential(claims, header) ==
    /\ phase = "sign"
    /\ SignAccepts(claims, header)
    /\ cred' = [key |-> issuer, header |-> header, claims |-> claims]
    /\ phase' = "derive"
    /\ UNCHANGED <<suite, issuer, msg, original, verdict>>

(* bbs_2023::verify of the credential's signature.                         *)
verify(key, header, claims) == cred = [key |-> key, header |-> header, claims |-> claims]

(* Mutant: the generators are left out of the transcript.                  *)
ChallengeNoCount(count, header, shown, nonce) ==
    [header |-> header, shown |-> shown, nonce |-> nonce]

(* The transcript behind the challenge: the generators of `count` claims,  *)
(* the issuer's header, the revealed claims by index, and the nonce.        *)
Challenge(count, header, shown, nonce) ==
    [count |-> count, header |-> header, shown |-> shown, nonce |-> nonce]

(* derive_proof: `reveal` is collected into a BTreeSet, so it is           *)
(* deduplicated and comes out sorted; an index past the claims is an       *)
(* error.  bbs-2023 has the backend check the signature first; phi-bbs-v1  *)
(* builds a proof that will not verify.                                    *)
DeriveAccepts(claims, header, reveal) ==
    /\ suite = "phi-bbs-v1" => header = NoHeader /\ Len(claims) \in 1..MAX_BBS_MESSAGES
    /\ suite = "bbs-2023" => verify(cred.key, header, claims)
    /\ reveal \subseteq 0..(Len(claims) - 1)

Shown(claims, reveal) == [i \in reveal |-> claims[i + 1]]

(* The k-th element of a BTreeSet of indices.                              *)
Nth(S, k) == CHOOSE i \in S : Cardinality({j \in S : j < i}) = k - 1

(* Mutant: the order of the caller's indices is lost, largest first.       *)
RevealedListUnsorted(claims, reveal) ==
    [k \in 1..Cardinality(reveal) |->
        LET i == Nth(reveal, Cardinality(reveal) + 1 - k) IN Entry(i, claims[i + 1])]

RevealedList(claims, reveal) ==
    [k \in 1..Cardinality(reveal) |->
        LET i == Nth(reveal, k) IN Entry(i, claims[i + 1])]

ProofOf(claims, header, reveal, nonce) ==
    [suite |-> suite, key |-> cred.key, sound |-> claims = cred.claims,
     hidden |-> Len(claims) - Cardinality(reveal),
     challenge |-> Challenge(Len(claims), header, Shown(claims, reveal), nonce)]

DeriveProof(claims, header, reveal, nonce) ==
    /\ phase = "derive"
    /\ DeriveAccepts(claims, header, reveal)
    /\ msg' = [message_count |-> Len(claims),
               proof |-> ProofOf(claims, header, reveal, nonce),
               revealed |-> RevealedList(claims, reveal)]
    /\ original' = [msg |-> msg', nonce |-> nonce]
    /\ phase' = "transit"
    /\ UNCHANGED <<suite, issuer, cred, verdict>>

(* Anything may be changed on the way except the proof itself.             *)
AlterCount(count) ==
    /\ phase = "transit"
    /\ count # msg.message_count
    /\ msg' = [msg EXCEPT !.message_count = count]
    /\ UNCHANGED <<phase, suite, issuer, cred, original, verdict>>

AlterRevealed(list) ==
    /\ phase = "transit"
    /\ list # msg.revealed
    /\ msg' = [msg EXCEPT !.revealed = list]
    /\ UNCHANGED <<phase, suite, issuer, cred, original, verdict>>
-----------------------------------------------------------------------------
IndexSet(list) == {list[k].idx : k \in DOMAIN list}
AsMap(list) ==
    [i \in IndexSet(list) |-> list[Max({k \in DOMAIN list : list[k].idx = i})].claim]

message_count_in_range(count, listed) ==
    count # 0 /\ count <= MAX_BBS_MESSAGES /\ listed <= count

(* Mutant: a repeated index silently replaces the earlier claim.           *)
EntriesAcceptedRepeated(m) ==
    \A k \in DOMAIN m.revealed : m.revealed[k].idx < m.message_count

(* The entry loop of verify_proof: every index in range, none repeated.    *)
EntriesAccepted(m) ==
    /\ \A k \in DOMAIN m.revealed : m.revealed[k].idx < m.message_count
    /\ Cardinality(IndexSet(m.revealed)) = Len(m.revealed)

(* DocknetBbsPlus::verify_proof.                                           *)
VerifyV1(m, key, nonce) ==
    /\ message_count_in_range(m.message_count, Len(m.revealed))
    /\ m.proof.suite = "phi-bbs-v1"
    /\ EntriesAccepted(m)
    /\ m.proof.challenge = Challenge(m.message_count, NoHeader, AsMap(m.revealed), nonce)
    /\ m.proof.sound /\ m.proof.key = key

(* bbs_2023::proof_verify: message_count is not looked at; the backend     *)
(* counts the hidden claims in the proof and the listed entries.           *)
Total(m) == m.proof.hidden + Len(m.revealed)

InRange(m) == \A k \in DOMAIN m.revealed : m.revealed[k].idx < Total(m)

Verify2023(m, key, header, nonce) ==
    /\ m.proof.suite = "bbs-2023"
    /\ Total(m) # 0 \/ header # NoHeader
    /\ InRange(m)
    /\ m.proof.challenge = Challenge(Total(m), header, AsMap(m.revealed), nonce)
    /\ m.proof.sound /\ m.proof.key = key

(* Where two entries name one claim, the backend expects more hidden       *)
(* claims than the proof has and indexes past their list: it panics, which *)
(* unwrap_or(false) does not catch.                                        *)
Panics2023(m) ==
    /\ suite = "bbs-2023"
    /\ InRange(m)
    /\ Cardinality(IndexSet(m.revealed)) < Len(m.revealed)

VerifyProof(m, key, header, nonce) ==
    IF suite = "phi-bbs-v1" THEN VerifyV1(m, key, nonce) ELSE Verify2023(m, key, header, nonce)

(* SelectiveProof::from_bytes of to_bytes: what the byte boundary lets     *)
(* through (WireDecoder shows it accepts exactly these).                   *)
Decodable(m) ==
    /\ m.message_count \in 1..MAX_BBS_MESSAGES
    /\ Len(m.revealed) <= m.message_count
    /\ \A k \in DOMAIN m.revealed :
           /\ m.revealed[k].idx < m.message_count
           /\ \A j \in 1..(k - 1) : m.revealed[j].idx < m.revealed[k].idx

(* Mutant: the decoder of the list lets an index repeat.                   *)
DecodableListRepeated(list) ==
    /\ Len(list) <= MAX_BBS_MESSAGES
    /\ \A k \in DOMAIN list : \A j \in 1..(k - 1) : list[j].idx <= list[k].idx

(* decode_revealed: bbs-2023 passes the proof and the list apart.          *)
DecodableList(list) ==
    /\ Len(list) <= MAX_BBS_MESSAGES
    /\ \A k \in DOMAIN list : \A j \in 1..(k - 1) : list[j].idx < list[k].idx

(* What the byte interface lets through to the verifier.                   *)
Decoded(path) ==
    path = "bytes" => IF suite = "phi-bbs-v1" THEN Decodable(msg) ELSE DecodableList(msg.revealed)

(* verify_proof on the struct, or over bytes: verify_proof_bytes and       *)
(* phi_bbs_verify_proof, or phi_bbs2023_verify_proof.  Only the last takes *)
(* a header.                                                               *)
Judge(path, key, header, nonce) ==
    /\ phase = "transit"
    /\ suite = "phi-bbs-v1" \/ path = "struct" => header = NoHeader
    /\ verdict' = [path |-> path, key |-> key, header |-> header, nonce |-> nonce,
                   ok |-> Decoded(path) /\ ~Panics2023(msg) /\ VerifyProof(msg, key, header, nonce),
                   panicked |-> Decoded(path) /\ Panics2023(msg)]
    /\ phase' = "judged"
    /\ UNCHANGED <<suite, issuer, cred, msg, original>>

(* The next session.                                                       *)
Reset ==
    /\ phase = "judged"
    /\ phase' = "keygen"
    /\ suite' \in Suites
    /\ issuer' = None /\ cred' = None /\ msg' = None /\ original' = None /\ verdict' = None

Next ==
    \/ \E key \in Keys, count \in 0..(MaxClaims + 1) : GenerateKeypair(key, count)
    \/ \E claims \in ClaimLists, header \in Headers : SignCredential(claims, header)
    \/ \E claims \in ClaimLists, header \in Headers, reveal \in SUBSET Indices, nonce \in Nonces :
           DeriveProof(claims, header, reveal, nonce)
    \/ \E count \in 0..(MaxClaims + 1) : AlterCount(count)
    \/ \E list \in EntryLists : AlterRevealed(list)
    \/ \E path \in {"struct", "bytes"}, key \in Keys, header \in Headers, nonce \in Nonces :
           Judge(path, key, header, nonce)
    \/ Reset

Spec == Init /\ [][Next]_vars
-----------------------------------------------------------------------------
Accepted == phase = "judged" /\ verdict.ok

(* Every entry a verifier is shown and accepts, not only the last one per  *)
(* index, is a claim the verifying key's owner signed, at that index; and  *)
(* it was signed under this verifier's header and shown for its nonce.     *)
(* Holds of both suites, over the struct and the byte interface.           *)
AcceptedEntriesWereSigned ==
    Accepted =>
        /\ verdict.key = cred.key
        /\ verdict.header = cred.header
        /\ verdict.nonce = original.nonce
        /\ \A k \in DOMAIN msg.revealed :
               /\ msg.revealed[k].idx + 1 \in DOMAIN cred.claims
               /\ msg.revealed[k].claim = cred.claims[msg.revealed[k].idx + 1]

(* Nothing the holder chose to show can be dropped on the way: an accepted *)
(* proof lists exactly the entries it was derived with, each once; and     *)
(* under phi-bbs-v1 the claim count is the one that was signed.            *)
AcceptedListIsComplete ==
    Accepted =>
        /\ AsMap(msg.revealed) = msg.proof.challenge.shown
        /\ Cardinality(IndexSet(msg.revealed)) = Len(msg.revealed)
        /\ suite = "phi-bbs-v1" => msg.message_count = Len(cred.claims)

(* The message as derive_proof built it, from the credential's own claims. *)
Untouched == msg = original.msg /\ msg.proof.sound

(* An honest proof is accepted by an honest verifier, over either          *)
(* interface; only over the bytes of bbs-2023 must it reveal no more than  *)
(* MAX_BBS_MESSAGES claims.                                                *)
HonestProofsVerify ==
    /\ phase = "judged"
    /\ Untouched
    /\ verdict.path = "bytes" => Len(msg.revealed) <= MAX_BBS_MESSAGES
    /\ verdict.key = msg.proof.key
    /\ verdict.header = cred.header
    /\ verdict.nonce = original.nonce
    => verdict.ok

(* Whatever arrives over bytes is judged: the byte interfaces let no list  *)
(* through on which a verifier panics.  (VerifiersFailClosed asks the same *)
(* of the struct interface.)                                               *)
BytesAreJudged ==
    phase = "judged" /\ verdict.panicked => verdict.path = "struct" /\ suite = "bbs-2023"

(* SelectiveProof::from_bytes is documented as the inverse of to_bytes     *)
(* (bbs.rs:85): whatever derive_proof returns would survive the bytes.     *)
DerivedProofsSurviveBytes ==
    phase = "transit" /\ Untouched /\ cred.header = NoHeader => Decodable(msg)

(* "Every verification entry point returns a safe negative on any error or *)
(* malformed input" (SECURITY.md:44): no list of entries makes one panic,  *)
(* whichever suite checks it and however it came.                          *)
VerifiersFailClosed == phase = "judged" => ~verdict.panicked
=============================================================================
