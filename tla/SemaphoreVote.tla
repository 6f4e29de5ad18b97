--------------------------- MODULE SemaphoreVote ---------------------------
(***************************************************************************)
(* The Semaphore-style vote, src/src/semaphore.rs, and the tally of        *)
(* src/src/voting.rs.  A holder computes a nullifier, binds an eligibility *)
(* proof to it and to an option, and sends both; a relay repeats and       *)
(* re-labels them; the chain checks each submission with                   *)
(* phi_semaphore_verify_vote and tallies the nullifiers it accepted,       *)
(* repeated ones included.                                                 *)
(*                                                                         *)
(* This layer does not tie the nullifier to the credential (CHANGELOG:     *)
(* "not Sybil-resistant on its own"), so holders that bind a nullifier of  *)
(* their choice are part of the model.  The BBS+ proof is symbolic: the    *)
(* issuer key of its credential and the nonce it answers                   *)
(* (SelectiveDisclosure has the details).                                  *)
(***************************************************************************)
EXTENDS Transcript, FiniteSets

CONSTANTS
    Voters,         \* credential holders: [secret, key]
    Issuer,         \* the issuer key the chain trusts
    Elections, Signals,
    MaxProofs,      \* bound: proofs made
    MaxVotes        \* bound: submissions accepted per election

ASSUME BytesAssumption ==
    /\ Elections \subseteq ByteStrings /\ Signals \subseteq ByteStrings
    /\ \A v \in Voters : v.secret \in ByteStrings
ASSUME BoundsAssumption == MaxProofs \in Nat /\ MaxVotes \in Nat

VARIABLES
    proofs,     \* proofs in circulation, with what their holder meant
    votes       \* per election, the submissions the chain accepted, in order

vars == <<proofs, votes>>

(* Stands for every byte string that is not NULLIFIER_LEN long.            *)
WrongLength == <<>>

Nullifiers ==
    {nullifier(v.secret, e) : v \in Voters, e \in Elections} \cup {WrongLength}
-----------------------------------------------------------------------------
(* semaphoreBindNonce of the wasm and Flutter boundaries: a nullifier of   *)
(* the wrong length gives the empty nonce instead of an error.             *)
SemaphoreBindNonce(election, null, signal) ==
    IF null = WrongLength THEN <<>> ELSE bind_nonce(election, null, signal)

(* derive_proof with that nonce.                                           *)
Prove(v, election, null, signal) ==
    /\ Cardinality(proofs) < MaxProofs
    /\ proofs' = proofs \cup
           {[voter |-> v, election |-> election, null |-> null, signal |-> signal,
             proof |-> [key |-> v.key,
                        nonce |-> SemaphoreBindNonce(election, null, signal)]]}
    /\ UNCHANGED votes

(* The holder's own nullifier, as semaphoreNullifier computes it.          *)
ProveHonest(v, election, signal) ==
    Prove(v, election, nullifier(v.secret, election), signal)

(* Any other: somebody else's, another election's, or not a nullifier.     *)
ProveChosen(v, election, null, signal) ==
    /\ null # nullifier(v.secret, election)
    /\ Prove(v, election, null, signal)

verify_proof_bytes(proof, pk, nonce) == proof.key = pk /\ proof.nonce = nonce

(* Mutant: the nullifier's length is not checked; a short one gives the    *)
(* empty nonce, as at the other boundaries.                                *)
phi_semaphore_verify_vote_short(proof, pk, election, null, signal) ==
    verify_proof_bytes(proof, pk, SemaphoreBindNonce(election, null, signal))

phi_semaphore_verify_vote(proof, pk, election, null, signal) ==
    /\ null # WrongLength
    /\ verify_proof_bytes(proof, pk, bind_nonce(election, null, signal))

(* A relay hands in proof p under any election, nullifier and option, as   *)
(* often as it likes; a refused one changes nothing.                       *)
Submit(p, election, null, signal) ==
    /\ Len(votes[election]) < MaxVotes
    /\ phi_semaphore_verify_vote(p.proof, Issuer, election, null, signal)
    /\ votes' = [votes EXCEPT ![election] =
           Append(@, [nullifier |-> null, signal |-> signal, from |-> p])]
    /\ UNCHANGED proofs

Init ==
    /\ proofs = {}
    /\ votes = [e \in Elections |-> <<>>]

Next ==
    \/ \E v \in Voters, e \in Elections, s \in Signals : ProveHonest(v, e, s)
    \/ \E v \in Voters, e \in Elections, n \in Nullifiers, s \in Signals :
           ProveChosen(v, e, n, s)
    \/ \E p \in proofs, e \in Elections, n \in Nullifiers, s \in Signals :
           Submit(p, e, n, s)

Spec == Init /\ [][Next]_vars
-----------------------------------------------------------------------------
(* Mutant: every submission counts.                                        *)
distinct_nullifiersAll(vs) == Len(vs)

distinct_nullifiers(vs) == Cardinality({vs[i].nullifier : i \in DOMAIN vs})

verify_threshold_tally(vs, threshold) == distinct_nullifiers(vs) >= threshold

(* The accepted votes of an election whose holder used its own nullifier.  *)
Honest(e) ==
    {i \in DOMAIN votes[e] :
        votes[e][i].from.null = nullifier(votes[e][i].from.voter.secret, votes[e][i].from.election)}

HonestVoters(e) == {votes[e][i].from.voter.secret : i \in Honest(e)}
ChosenNullifiers(e) == {votes[e][i].nullifier : i \in DOMAIN votes[e] \ Honest(e)}

(* The chain's records are sequences of submissions of proofs in           *)
(* circulation, under nullifiers of the right length.                      *)
TypeOK ==
    /\ DOMAIN votes = Elections
    /\ \A e \in Elections :
           votes[e] \in Seq([nullifier : Nullifiers \ {WrongLength}, signal : Signals,
                             from : proofs])
    /\ \A p \in proofs : /\ p.voter \in Voters /\ p.election \in Elections
                         /\ p.null \in Nullifiers /\ p.signal \in Signals

(* Every accepted vote counts for the election, nullifier and option its   *)
(* holder bound it to, whatever a relay labelled it with, and its holder   *)
(* has the trusted issuer's credential (bind_nonce, semaphore.rs:22).      *)
VotesAreAsBound ==
    \A e \in Elections : \A i \in DOMAIN votes[e] :
        /\ votes[e][i].from.election = e
        /\ votes[e][i].from.null = votes[e][i].nullifier
        /\ votes[e][i].from.signal = votes[e][i].signal
        /\ votes[e][i].from.voter.key = Issuer

(* A threshold is reached exactly by the voters who used their own         *)
(* nullifier, each once however often they are repeated, plus at most one  *)
(* for each nullifier somebody made up: "double-votes are ignored"         *)
(* (voting.rs:38), and no honest voter is lost to a collision.             *)
ThresholdCountsVoters ==
    \A e \in Elections : \A t \in 0..(MaxVotes + 1) :
        LET honest == Cardinality(HonestVoters(e))
            made == Cardinality(ChosenNullifiers(e))
        IN /\ honest >= t => verify_threshold_tally(votes[e], t)
           /\ verify_threshold_tally(votes[e], t) => honest + made >= t

(* One voter's honest votes in two elections share no nullifier, nor do    *)
(* two voters' in one.                                                     *)
NullifiersAreSeparate ==
    \A e, f \in Elections : \A i \in Honest(e), j \in Honest(f) :
        votes[e][i].nullifier = votes[f][j].nullifier
        <=> e = f /\ votes[e][i].from.voter.secret = votes[f][j].from.voter.secret
=============================================================================
