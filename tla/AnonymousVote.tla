--------------------------- MODULE AnonymousVote ---------------------------
(***************************************************************************)
(* The composed anonymous vote, src/src/voting_snark.rs, from prover to    *)
(* validator: voters prove, an unreliable relay carries, repeats, mixes    *)
(* and re-labels ballots, and each chain verifies them through             *)
(* phi_voting_verify_vote_v1 (src/src/ffi.rs) and records a ballot once    *)
(* per dedup key.  The chains are outside the repository: they pass their  *)
(* own id and issuer key, and use the nullifier bytes as "dedup / storage  *)
(* key" (voting_snark.rs:101).                                             *)
(*                                                                         *)
(* Chain ids, election ids, options and nullifiers are byte strings hashed *)
(* as in Transcript; the algebra is symbolic.  A credential is [key,       *)
(* secret, attr] with the voter secret m0 at index 0 and one attribute.    *)
(* Both sub-proofs answer one challenge, the whole transcript; `id` stands *)
(* for the randomness of one proving run, the shared blinding r0 included. *)
(***************************************************************************)
EXTENDS Transcript, FiniteSets

CONSTANTS
    MAX_BBS_MESSAGES,   \* bbs.rs:42
    Credentials,        \* what the issuers signed: [key, secret, attr]
    Keys,               \* issuer public keys
    Chains, IssuerOf,   \* validators, and the issuer key each one trusts
    Elections, Signals,
    Secrets,            \* the values m0 can take
    MaxProofs           \* bound: proving runs considered

ASSUME MaxAssumption ==     \* a credential's two claims are within the limit
    MAX_BBS_MESSAGES \in Nat /\ MAX_BBS_MESSAGES >= 2 /\ MaxProofs \in Nat
ASSUME IssuerAssumption == IssuerOf \in [Chains -> Keys]
ASSUME BytesAssumption ==
    /\ Chains \subseteq ByteStrings /\ Elections \subseteq ByteStrings /\ Signals \subseteq ByteStrings
    /\ Secrets \subseteq Nat
    /\ \A cred \in Credentials : cred.secret \in Secrets

VOTER_SECRET_MSG_INDEX == 0

VARIABLES
    ballots,    \* every ballot a prover emitted, with what it was made for
    recorded    \* what each chain has recorded: [key, election, signal, from]

vars == <<ballots, recorded>>

Indices == 0..2
Count == 2      \* claims per credential: the secret and one attribute
-----------------------------------------------------------------------------
(* N = H_e^{m0} in compressed form, H_e the point external_nullifier(e) is *)
(* hashed to.                                                              *)
hash_to_g1(election) == external_nullifier(election)
Nullifier(secret, election) == <<secret>> \o hash_to_g1(election)
Identity == <<>>    \* the identity of G1, no secret's nullifier

(* compute_challenge: count, issuer key, the two sub-proofs' commitments   *)
(* with the public values each covers, and the ballot context.             *)
compute_challenge(count, pk, bbsId, shown, dlId, chain, election, null, signal) ==
    [count |-> count, pk |-> pk,
     bbs |-> [id |-> bbsId, shown |-> shown],
     dl |-> [id |-> dlId, base |-> hash_to_g1(election), null |-> null],
     ctx |-> bind_context(chain, election, null, signal)]

Shown(cred, reveal) == {[idx |-> i, claim |-> cred.attr] : i \in reveal}

(* prove_vote refuses an index past the claims and the voter secret.       *)
ProveAccepts(reveal) ==
    /\ \A i \in reveal : i < Count
    /\ VOTER_SECRET_MSG_INDEX \notin reveal

(* A proof whose eligibility half is over m0 and whose derivation half is  *)
(* over m: prove_vote uses one m0 for both.                                *)
VoteProof(id, cred, m0, m, pk, reveal, chain, election, signal) ==
    LET null == Nullifier(m, election)
        challenge == compute_challenge(Count, pk, id, Shown(cred, reveal), id,
                                       chain, election, null, signal)
    IN [message_count |-> Count,
        revealed |-> Shown(cred, reveal),
        bbs_proof |-> [id |-> id, key |-> cred.key, m0 |-> m0, sound |-> m0 = cred.secret,
                       answers |-> challenge],
        dl_proof |-> [id |-> id, m |-> m, answers |-> challenge],
        nullifier |-> null]

Emit(cred, m0, m, pk, reveal, chain, election, signal) ==
    /\ Cardinality(ballots) < MaxProofs
    /\ LET id == Cardinality(ballots) + 1 IN
       ballots' = ballots \cup
           {[proof |-> VoteProof(id, cred, m0, m, pk, reveal, chain, election, signal),
             cred |-> cred, pk |-> pk, chain |-> chain, election |-> election,
             signal |-> signal]}
    /\ UNCHANGED recorded

(* prove_vote and prove_vote_bytes.  Claims and issuer key are the         *)
(* caller's: claims that are not the signed ones, or another key, still    *)
(* yield a proof.                                                          *)
ProveVote(cred, m0, pk, reveal, chain, election, signal) ==
    /\ ProveAccepts(reveal)
    /\ Emit(cred, m0, m0, pk, reveal, chain, election, signal)

(* A prover of the holder's own making: the same protocol with the         *)
(* derivation half over another secret.                                    *)
ProveSplit(cred, m, reveal, chain, election, signal) ==
    /\ m # cred.secret
    /\ ProveAccepts(reveal)
    /\ Emit(cred, cred.secret, m, cred.key, reveal, chain, election, signal)
-----------------------------------------------------------------------------
(* Mutant: the bound on the claim count is off by one.                     *)
DecodableStrict(p) ==
    /\ p.message_count # 0 /\ p.message_count < MAX_BBS_MESSAGES
    /\ p.nullifier # Identity
    /\ Cardinality(p.revealed) <= p.message_count
    /\ \A e \in p.revealed :
           e.idx # VOTER_SECRET_MSG_INDEX /\ e.idx < p.message_count
    /\ \A e, f \in p.revealed : e.idx = f.idx => e = f

(* VoteProof::from_bytes of to_bytes (WireDecoder): what passes the byte   *)
(* boundary.                                                               *)
Decodable(p) ==
    /\ p.message_count # 0 /\ p.message_count <= MAX_BBS_MESSAGES
    /\ p.nullifier # Identity
    /\ Cardinality(p.revealed) <= p.message_count
    /\ \A e \in p.revealed :
           e.idx # VOTER_SECRET_MSG_INDEX /\ e.idx < p.message_count
    /\ \A e, f \in p.revealed : e.idx = f.idx => e = f

(* The response of either half for m0: r0 + challenge * m0.                *)
Response(id, m, challenge) == [blinding |-> id, witness |-> m, challenge |-> challenge]

(* Mutant: the two responses are not compared.                             *)
SameWitnessSkipped(p) == TRUE

SameWitness(p) ==
    Response(p.bbs_proof.id, p.bbs_proof.m0, p.bbs_proof.answers)
    = Response(p.dl_proof.id, p.dl_proof.m, p.dl_proof.answers)

(* verify_inner: the same range, identity and index tests, one challenge   *)
(* for both sub-proofs, and equal responses for m0.                        *)
VerifyVoteProof(p, pk, chain, election, signal) ==
    LET challenge == compute_challenge(p.message_count, pk, p.bbs_proof.id, p.revealed,
                                       p.dl_proof.id, chain, election, p.nullifier, signal)
    IN /\ Decodable(p)
       /\ p.bbs_proof.answers = challenge
       /\ p.bbs_proof.key = pk /\ p.bbs_proof.sound
       /\ p.dl_proof.answers = challenge
       /\ p.nullifier = Nullifier(p.dl_proof.m, election)
       /\ SameWitness(p)

(* Mutant: the key the chain dedups by is not compared with the proof's.   *)
phi_voting_verify_vote_v1_unkeyed(p, pk, chain, election, null, signal) ==
    VerifyVoteProof(p, pk, chain, election, signal)

(* The C entry point: decode, compare the supplied key with the embedded   *)
(* nullifier, then verify.                                                 *)
phi_voting_verify_vote_v1(p, pk, chain, election, null, signal) ==
    /\ Decodable(p)
    /\ null = p.nullifier
    /\ VerifyVoteProof(p, pk, chain, election, signal)

(* The chain's dedup: a key is spent once per election.                    *)
Spent(chain, election, key) ==
    \E r \in recorded[chain] : r.election = election /\ r.key = key

(* What a relay can hand in for ballot b: its proof, or that proof with    *)
(* another count, other revealed entries, or the derivation half of        *)
(* another ballot.                                                         *)
Altered(b) ==
    {b.proof}
    \cup {[b.proof EXCEPT !.message_count = c] : c \in 0..3}
    \cup {[b.proof EXCEPT !.revealed = {}]}
    \cup {[b.proof EXCEPT !.revealed = @ \cup {[idx |-> i, claim |-> b.cred.attr]}] :
             i \in Indices}
    \cup {[b.proof EXCEPT !.nullifier = Identity]}
    \cup {[b.proof EXCEPT !.dl_proof = o.proof.dl_proof, !.nullifier = o.proof.nullifier] :
             o \in ballots}

DedupKeys == {b.proof.nullifier : b \in ballots} \cup {Identity}

(* A relay submits a ballot, as cast or re-labelled, any number of times;  *)
(* a refused or repeated one leaves the chain as it was.                   *)
Submit(b, p, chain, election, key, signal) ==
    /\ phi_voting_verify_vote_v1(p, IssuerOf[chain], chain, election, key, signal)
    /\ ~Spent(chain, election, key)
    /\ recorded' = [recorded EXCEPT ![chain] = @ \cup
           {[key |-> key, election |-> election, signal |-> signal, from |-> b,
             shown |-> p.revealed]}]
    /\ UNCHANGED ballots

Init ==
    /\ ballots = {}
    /\ recorded = [c \in Chains |-> {}]

Next ==
    \/ \E cred \in Credentials, m0 \in Secrets, pk \in Keys, reveal \in SUBSET Indices,
          chain \in Chains, election \in Elections, signal \in Signals :
           ProveVote(cred, m0, pk, reveal, chain, election, signal)
    \/ \E cred \in Credentials, m \in Secrets, reveal \in SUBSET Indices,
          chain \in Chains, election \in Elections, signal \in Signals :
           ProveSplit(cred, m, reveal, chain, election, signal)
    \/ \E b \in ballots : \E p \in Altered(b) :
       \E chain \in Chains, election \in Elections, key \in DedupKeys, signal \in Signals :
           Submit(b, p, chain, election, key, signal)

Spec == Init /\ [][Next]_vars
-----------------------------------------------------------------------------
(* Per chain and election at most one recorded ballot comes from any voter *)
(* secret, however often the voter proves, with whatever credential over   *)
(* that secret, and however ballots are repeated or re-keyed in transit.   *)
OneBallotPerSecret ==
    \A chain \in Chains : \A r, s \in recorded[chain] :
        /\ r.election = s.election
        /\ r.from.cred.secret = s.from.cred.secret
        => r = s

(* A chain records a ballot only for the chain, election and option its    *)
(* voter proved it for, showing exactly the claims the voter chose, and    *)
(* only from a credential of the issuer the chain trusts ("a relay cannot  *)
(* re-tag the proof", voting_snark.rs:58).                                 *)
RecordedAsCast ==
    \A chain \in Chains : \A r \in recorded[chain] :
        /\ r.from.chain = chain
        /\ r.from.election = r.election
        /\ r.from.signal = r.signal
        /\ r.from.cred.key = IssuerOf[chain]
        /\ r.shown = r.from.proof.revealed

(* A ballot carried unaltered to the chain it was cast on is accepted or   *)
(* already spent, provided its voter named the right issuer key and claims *)
(* that this issuer signed; otherwise it is accepted nowhere.              *)
HonestBallotsCount ==
    \A b \in ballots : \A chain \in Chains :
        phi_voting_verify_vote_v1(b.proof, IssuerOf[chain], chain, b.election,
                                  b.proof.nullifier, b.signal)
        <=> /\ chain = b.chain
            /\ b.pk = IssuerOf[chain] /\ b.cred.key = IssuerOf[chain]
            /\ b.proof.nullifier = Nullifier(b.cred.secret, b.election)
            /\ b.proof.bbs_proof.m0 = b.cred.secret

(* The chains together are a ballot box: votes cast with a credential of   *)
(* the issuer a chain trusts, and those that chain recorded.               *)
EligibleOn(chain) == {cred.secret : cred \in {c \in Credentials : c.key = IssuerOf[chain]}}

Vote(chain, election, voter, signal) ==
    [chain |-> chain, election |-> election, voter |-> voter, signal |-> signal]
VoteOf(b) == Vote(b.chain, b.election, b.cred.secret, b.signal)
CastVotes == {VoteOf(b) : b \in {c \in ballots : c.cred.key = IssuerOf[c.chain]}}
CountedOn(chain) ==
    {Vote(chain, r.election, r.from.cred.secret, r.signal) : r \in recorded[chain]}
CountedVotes == UNION {CountedOn(chain) : chain \in Chains}

Ideal == INSTANCE BallotBox WITH Voters <- Secrets, Eligible <- EligibleOn,
                                 cast <- CastVotes, box <- CountedVotes

(* Whatever relays do, the chains behave as that box: each step is a vote  *)
(* cast, a cast vote counted for a voter who had none, or not visible.     *)
ImplementsBallotBox == Ideal!Spec
=============================================================================
