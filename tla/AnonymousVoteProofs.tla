------------------------ MODULE AnonymousVoteProofs ------------------------
(***************************************************************************)
(* Proofs about AnonymousVote for any credentials, chains, elections and   *)
(* number of proving runs.                                                 *)
(***************************************************************************)
EXTENDS AnonymousVote, FramingProofs, FiniteSetTheorems

(* Every ballot in circulation was made for what it says, though perhaps   *)
(* over other secrets than the credential's.                               *)
BallotInv ==
    \A b \in ballots :
        /\ b.cred \in Credentials /\ b.chain \in Chains
        /\ b.election \in Elections /\ b.signal \in Signals
        /\ \E id : \E reveal \in SUBSET Indices, m0 \in Secrets, m \in Secrets :
               /\ ProveAccepts(reveal)
               /\ b.proof = VoteProof(id, b.cred, m0, m, b.pk, reveal,
                                      b.chain, b.election, b.signal)

(* A recorded ballot's dedup key is the nullifier of its voter's secret,   *)
(* and the chain has spent it on this ballot only.                         *)
KeyInv ==
    \A chain \in Chains : \A r \in recorded[chain] :
        /\ r.key = Nullifier(r.from.cred.secret, r.election)
        /\ \A s \in recorded[chain] : r.election = s.election /\ r.key = s.key => r = s

IInv ==
    /\ DOMAIN recorded = Chains
    /\ BallotInv
    /\ KeyInv
    /\ RecordedAsCast

(* A nullifier is a byte string.                                           *)
LEMMA NullifierBytes ==
    ASSUME NEW m \in Secrets, NEW e \in Elections
    PROVE  Nullifier(m, e) \in ByteStrings
<1>1. e \in ByteStrings /\ m \in Nat
  BY BytesAssumption
<1>2. external_nullifier(e) \in ByteStrings
  BY <1>1, ExternalNullifierInjective
<1> QED
  BY <1>1, <1>2 DEF Nullifier, hash_to_g1, ByteStrings

(* Whatever a relay does to a ballot, its eligibility half is untouched,   *)
(* so an accepted submission is the ballot its voter cast, over the signed *)
(* secret.                                                                 *)
LEMMA AcceptedIsAsCast ==
    ASSUME BallotInv, NEW b \in ballots, NEW p \in Altered(b),
           NEW pk, NEW chain \in Chains, NEW election \in Elections, NEW key,
           NEW signal \in Signals,
           phi_voting_verify_vote_v1(p, pk, chain, election, key, signal)
    PROVE  /\ key = Nullifier(b.cred.secret, election)
           /\ b.chain = chain /\ b.election = election /\ b.signal = signal
           /\ b.cred.key = pk /\ b.pk = pk
           /\ b.proof.bbs_proof.m0 = b.cred.secret
           /\ p.revealed = b.proof.revealed
<1>0. PICK id : \E reveal \in SUBSET Indices, m0 \in Secrets, m \in Secrets :
          b.proof = VoteProof(id, b.cred, m0, m, b.pk, reveal,
                              b.chain, b.election, b.signal)
  BY DEF BallotInv
<1>1. PICK reveal \in SUBSET Indices, m0 \in Secrets, m \in Secrets :
          b.proof = VoteProof(id, b.cred, m0, m, b.pk, reveal,
                              b.chain, b.election, b.signal)
  BY <1>0
<1> DEFINE N == Nullifier(m, b.election)
           cast == compute_challenge(Count, b.pk, id, Shown(b.cred, reveal), id,
                                     b.chain, b.election, N, b.signal)
<1>2. b.proof = [message_count |-> Count, revealed |-> Shown(b.cred, reveal),
                 bbs_proof |-> [id |-> id, key |-> b.cred.key, m0 |-> m0,
                                sound |-> m0 = b.cred.secret, answers |-> cast],
                 dl_proof |-> [id |-> id, m |-> m, answers |-> cast],
                 nullifier |-> N]
  BY <1>1 DEF VoteProof
<1>3. N \in ByteStrings
  BY NullifierBytes DEF BallotInv
<1> HIDE DEF cast, N
<1>4. p.bbs_proof = b.proof.bbs_proof
  BY <1>2 DEF Altered
<1>5. /\ p.bbs_proof.key = b.cred.key /\ p.bbs_proof.answers = cast
      /\ p.bbs_proof.m0 = m0 /\ p.bbs_proof.sound = (m0 = b.cred.secret)
  BY <1>2, <1>4
<1>6. /\ key = p.nullifier
      /\ cast = compute_challenge(p.message_count, pk, p.bbs_proof.id, p.revealed,
                                  p.dl_proof.id, chain, election, p.nullifier, signal)
      /\ b.cred.key = pk /\ m0 = b.cred.secret
      /\ p.nullifier = Nullifier(p.dl_proof.m, election)
      /\ SameWitness(p)
  BY <1>5 DEF phi_voting_verify_vote_v1, VerifyVoteProof
<1>7. p.dl_proof.m = m0
  <2>1. Response(p.bbs_proof.id, p.bbs_proof.m0, p.bbs_proof.answers).witness
        = Response(p.dl_proof.id, p.dl_proof.m, p.dl_proof.answers).witness
    BY <1>6 DEF SameWitness
  <2> QED
    BY <1>5, <2>1 DEF Response
<1>8. p.nullifier \in ByteStrings
  BY <1>6, <1>7, NullifierBytes
<1>9. /\ cast.ctx = bind_context(b.chain, b.election, N, b.signal)
      /\ cast.bbs.shown = Shown(b.cred, reveal) /\ cast.pk = b.pk
  BY DEF cast, compute_challenge
<1>10. /\ cast.ctx = bind_context(chain, election, p.nullifier, signal)
       /\ cast.bbs.shown = p.revealed /\ cast.pk = pk
  BY <1>6 DEF compute_challenge
<1>11. b.chain = chain /\ b.election = election /\ b.signal = signal
  <2>1. /\ b.chain \in ByteStrings /\ b.election \in ByteStrings /\ b.signal \in ByteStrings
        /\ chain \in ByteStrings /\ election \in ByteStrings /\ signal \in ByteStrings
    BY BytesAssumption DEF BallotInv
  <2>2. bind_context(b.chain, b.election, N, b.signal)
        = bind_context(chain, election, p.nullifier, signal)
    BY <1>9, <1>10
  <2> DEFINE x == [chain |-> b.chain, election |-> b.election, null |-> N,
                   signal |-> b.signal]
             y == [chain |-> chain, election |-> election, null |-> p.nullifier,
                   signal |-> signal]
  <2>3. x \in Contexts /\ y \in Contexts
    BY <1>3, <1>8, <2>1 DEF Contexts
  <2>4. bind_context(x.chain, x.election, x.null, x.signal)
        = bind_context(y.chain, y.election, y.null, y.signal)
    BY <2>2
  <2>5. x = y
    <3> HIDE DEF x, y
    <3> QED BY <2>3, <2>4, BindContextInjective
  <2> QED
    BY <2>5
<1>12. b.proof.revealed = Shown(b.cred, reveal)
  BY <1>2
<1> QED
  BY <1>4, <1>5, <1>6, <1>7, <1>9, <1>10, <1>11, <1>12

(* Emitting a proof adds a ballot made for what it says and records        *)
(* nothing.                                                                *)
LEMMA EmitPreserves ==
    ASSUME IInv, NEW cred \in Credentials, NEW m0 \in Secrets, NEW m \in Secrets,
           NEW pk, NEW reveal \in SUBSET Indices, ProveAccepts(reveal),
           NEW chain \in Chains, NEW election \in Elections, NEW signal \in Signals,
           Emit(cred, m0, m, pk, reveal, chain, election, signal)
    PROVE  IInv'
<1>1. BallotInv'
  <2> DEFINE id == Cardinality(ballots) + 1
             b == [proof |-> VoteProof(id, cred, m0, m, pk, reveal, chain, election, signal),
                   cred |-> cred, pk |-> pk, chain |-> chain, election |-> election,
                   signal |-> signal]
  <2>1. ballots' = ballots \cup {b}
    BY DEF Emit
  <2>2. /\ b.proof = VoteProof(id, b.cred, m0, m, b.pk, reveal, b.chain, b.election, b.signal)
        /\ b.cred \in Credentials /\ b.chain \in Chains
        /\ b.election \in Elections /\ b.signal \in Signals
    OBVIOUS
  <2> HIDE DEF b, id
  <2> QED
    BY <2>1, <2>2 DEF IInv, BallotInv
<1>2. KeyInv' /\ RecordedAsCast' /\ DOMAIN recorded' = Chains
  BY DEF IInv, KeyInv, RecordedAsCast, Emit
<1> QED
  BY <1>1, <1>2 DEF IInv

(* A chain that accepts a submission records it as cast, under a key it    *)
(* had not spent.                                                          *)
LEMMA SubmitPreserves ==
    ASSUME IInv, NEW b \in ballots, NEW p \in Altered(b),
           NEW chain \in Chains, NEW election \in Elections, NEW key \in DedupKeys,
           NEW signal \in Signals,
           Submit(b, p, chain, election, key, signal)
    PROVE  IInv'
<1> DEFINE new == [key |-> key, election |-> election, signal |-> signal, from |-> b,
                   shown |-> p.revealed]
<1>1. /\ key = Nullifier(b.cred.secret, election)
      /\ b.chain = chain /\ b.election = election /\ b.signal = signal
      /\ b.cred.key = IssuerOf[chain]
      /\ p.revealed = b.proof.revealed
  BY AcceptedIsAsCast DEF IInv, Submit
<1>2. \A c \in Chains : recorded'[c] = IF c = chain THEN recorded[c] \cup {new} ELSE recorded[c]
  BY DEF IInv, Submit
<1>3. DOMAIN recorded' = Chains /\ ballots' = ballots
  BY DEF IInv, Submit
<1>4. \A r \in recorded[chain] : ~(r.election = election /\ r.key = key)
  BY DEF Submit, Spent
<1>5. /\ new.key = key /\ new.election = election /\ new.signal = signal
      /\ new.from = b /\ new.shown = p.revealed
  OBVIOUS
<1> HIDE DEF new
<1>6. KeyInv'
  <2>1. SUFFICES ASSUME NEW c \in Chains, NEW r \in recorded'[c]
                 PROVE  /\ r.key = Nullifier(r.from.cred.secret, r.election)
                        /\ \A s \in recorded'[c] :
                               r.election = s.election /\ r.key = s.key => r = s
    BY DEF KeyInv, Nullifier
  <2>2. \A q \in recorded[c] :
            /\ q.key = Nullifier(q.from.cred.secret, q.election)
            /\ \A s \in recorded[c] :
                   q.election = s.election /\ q.key = s.key => q = s
    BY DEF IInv, KeyInv
  <2>3. CASE c # chain
    BY <1>2, <2>2, <2>3
  <2>4. CASE c = chain
    <3>1. recorded'[c] = recorded[c] \cup {new}
      BY <1>2, <2>4
    <3>2. r.key = Nullifier(r.from.cred.secret, r.election)
      BY <1>1, <1>5, <2>2, <3>1
    <3>3. ASSUME NEW s \in recorded'[c], r.election = s.election, r.key = s.key
          PROVE  r = s
      BY <1>4, <1>5, <2>2, <2>4, <3>1, <3>3
    <3> QED
      BY <3>2, <3>3
  <2> QED
    BY <2>3, <2>4
<1>7. RecordedAsCast'
  <2>1. SUFFICES ASSUME NEW c \in Chains, NEW r \in recorded'[c]
                 PROVE  /\ r.from.chain = c
                        /\ r.from.election = r.election
                        /\ r.from.signal = r.signal
                        /\ r.from.cred.key = IssuerOf[c]
                        /\ r.shown = r.from.proof.revealed
    BY DEF RecordedAsCast
  <2>2. CASE r \in recorded[c]
    BY <2>2 DEF IInv, RecordedAsCast
  <2>3. CASE r = new /\ c = chain
    BY <1>1, <1>5, <2>3
  <2> QED
    BY <1>2, <2>2, <2>3
<1>8. BallotInv'
  BY <1>3 DEF IInv, BallotInv
<1> QED
  BY <1>3, <1>6, <1>7, <1>8 DEF IInv

(* The voting inductive invariant holds in every reachable state.          *)
THEOREM Invariance == Spec => []IInv
<1>1. Init => IInv
  BY DEF Init, IInv, BallotInv, KeyInv, RecordedAsCast
<1>2. IInv /\ [Next]_vars => IInv'
  <2>1. ASSUME IInv, Next PROVE IInv'
    <3>1. CASE \E cred \in Credentials, m0 \in Secrets, pk \in Keys,
                 reveal \in SUBSET Indices, chain \in Chains, election \in Elections,
                 signal \in Signals :
                   ProveVote(cred, m0, pk, reveal, chain, election, signal)
      BY <2>1, <3>1, EmitPreserves DEF ProveVote
    <3>2. CASE \E cred \in Credentials, m \in Secrets, reveal \in SUBSET Indices,
                 chain \in Chains, election \in Elections, signal \in Signals :
                   ProveSplit(cred, m, reveal, chain, election, signal)
      BY <2>1, <3>2, EmitPreserves, BytesAssumption DEF ProveSplit
    <3>3. CASE \E b \in ballots : \E p \in Altered(b) :
               \E chain \in Chains, election \in Elections, key \in DedupKeys,
                  signal \in Signals :
                   Submit(b, p, chain, election, key, signal)
      BY <2>1, <3>3, SubmitPreserves
    <3> QED
      BY <2>1, <3>1, <3>2, <3>3 DEF Next
  <2>2. IInv /\ UNCHANGED vars => IInv'
    BY DEF vars, IInv, BallotInv, KeyInv, RecordedAsCast
  <2> QED
    BY <2>1, <2>2
<1> QED
  BY <1>1, <1>2, PTL DEF Spec

(* One voter secret, one recorded ballot per chain and election.           *)
THEOREM OneVotePerSecret == Spec => []OneBallotPerSecret
<1>1. IInv => OneBallotPerSecret
  BY DEF IInv, KeyInv, OneBallotPerSecret
<1> QED
  BY <1>1, Invariance, PTL

(* Recorded ballots are the ones cast, by holders of the trusted issuer's  *)
(* credentials.                                                            *)
THEOREM BallotsAreAsCast == Spec => []RecordedAsCast
<1>1. IInv => RecordedAsCast
  BY DEF IInv
<1> QED
  BY <1>1, Invariance, PTL
-----------------------------------------------------------------------------
(* A nullifier tells its secret apart, and is never the identity.          *)
LEMMA NullifierSeparates ==
    ASSUME NEW m \in Secrets, NEW n \in Secrets, NEW e \in Elections
    PROVE  /\ Nullifier(m, e) = Nullifier(n, e) => m = n
           /\ Nullifier(m, e) # Identity
<1> DEFINE X == external_nullifier(e)
<1>1. X \in Seq(Nat) /\ m \in Nat /\ n \in Nat
  <2>1. e \in ByteStrings
    BY BytesAssumption
  <2> QED
    BY <2>1, ExternalNullifierInjective, BytesAssumption DEF ByteStrings
<1> HIDE DEF X
<1>2. (<<m>> \o X)[1] = m /\ (<<n>> \o X)[1] = n /\ <<m>> \o X # <<>>
  BY <1>1
<1> QED
  BY <1>2 DEF Nullifier, hash_to_g1, Identity, X

(* What a prover may reveal passes the byte boundary's tests.              *)
LEMMA ShownDecodes ==
    ASSUME NEW cred, NEW reveal \in SUBSET Indices, ProveAccepts(reveal)
    PROVE  /\ Cardinality(Shown(cred, reveal)) <= Count
           /\ \A e \in Shown(cred, reveal) :
                  e.idx # VOTER_SECRET_MSG_INDEX /\ e.idx < Count
           /\ \A e, f \in Shown(cred, reveal) : e.idx = f.idx => e = f
<1> DEFINE S == Shown(cred, reveal)
           x == [idx |-> 1, claim |-> cred.attr]
<1>1. reveal \subseteq {1}
  BY DEF ProveAccepts, Indices, Count, VOTER_SECRET_MSG_INDEX
<1>2. S \subseteq {x}
  BY <1>1 DEF Shown
<1>3. x.idx = 1
  OBVIOUS
<1> HIDE DEF S, x
<1>4. Cardinality(S) <= Count
  <2>1. IsFiniteSet({x}) /\ Cardinality({x}) = 1
    BY FS_Singleton
  <2>2. IsFiniteSet(S) /\ Cardinality(S) <= 1
    BY <1>2, <2>1, FS_Subset
  <2>3. Cardinality(S) \in Nat
    BY <2>2, FS_CardinalityType
  <2> QED
    BY <2>2, <2>3 DEF Count
<1>5. \A e \in S : e.idx = 1
  BY <1>2, <1>3
<1>6. \A e, f \in S : e = f
  BY <1>2
<1>7. \A e \in S : e.idx # VOTER_SECRET_MSG_INDEX /\ e.idx < Count
  BY <1>5 DEF Count, VOTER_SECRET_MSG_INDEX
<1>8. /\ Cardinality(S) <= Count
      /\ \A e \in S : e.idx # VOTER_SECRET_MSG_INDEX /\ e.idx < Count
      /\ \A e, f \in S : e.idx = f.idx => e = f
  BY <1>4, <1>6, <1>7
<1> QED
  BY <1>8 DEF S

(* A ballot over the secret its credential was signed for, by the issuer   *)
(* its voter named, verifies on the chain it was cast on.                  *)
LEMMA HonestBallotVerifies ==
    ASSUME BallotInv, NEW b \in ballots,
           b.cred.key = b.pk,
           b.proof.nullifier = Nullifier(b.cred.secret, b.election),
           b.proof.bbs_proof.m0 = b.cred.secret
    PROVE  phi_voting_verify_vote_v1(b.proof, b.pk, b.chain, b.election,
                                     b.proof.nullifier, b.signal)
<1>0. PICK id : \E reveal \in SUBSET Indices, m0 \in Secrets, m \in Secrets :
          /\ ProveAccepts(reveal)
          /\ b.proof = VoteProof(id, b.cred, m0, m, b.pk, reveal,
                                 b.chain, b.election, b.signal)
  BY DEF BallotInv
<1>1. PICK reveal \in SUBSET Indices, m0 \in Secrets, m \in Secrets :
          /\ ProveAccepts(reveal)
          /\ b.proof = VoteProof(id, b.cred, m0, m, b.pk, reveal,
                                 b.chain, b.election, b.signal)
  BY <1>0
<1> DEFINE p == b.proof
           N == Nullifier(m, b.election)
           S == Shown(b.cred, reveal)
           cast == compute_challenge(Count, b.pk, id, S, id,
                                     b.chain, b.election, N, b.signal)
<1>2. p = [message_count |-> Count, revealed |-> S,
           bbs_proof |-> [id |-> id, key |-> b.cred.key, m0 |-> m0,
                          sound |-> m0 = b.cred.secret, answers |-> cast],
           dl_proof |-> [id |-> id, m |-> m, answers |-> cast],
           nullifier |-> N]
  BY <1>1 DEF VoteProof
<1> HIDE DEF cast
<1>3. /\ p.message_count = Count /\ p.revealed = S /\ p.nullifier = N
      /\ p.bbs_proof.id = id /\ p.bbs_proof.key = b.cred.key /\ p.bbs_proof.m0 = m0
      /\ p.bbs_proof.sound = (m0 = b.cred.secret) /\ p.bbs_proof.answers = cast
      /\ p.dl_proof.id = id /\ p.dl_proof.m = m /\ p.dl_proof.answers = cast
  <2> HIDE DEF S, N
  <2> QED BY <1>2
<1>4. b.election \in Elections /\ b.cred.secret \in Secrets
  BY BytesAssumption DEF BallotInv
<1>5. m = b.cred.secret /\ m0 = b.cred.secret /\ N # Identity
  BY <1>3, <1>4, NullifierSeparates
<1>6. Decodable(p)
  <2>1. Count # 0 /\ Count <= MAX_BBS_MESSAGES
    BY MaxAssumption DEF Count
  <2> HIDE DEF p, S, N
  <2> QED
    BY <1>1, <1>3, <1>5, <2>1, ShownDecodes DEF Decodable, S
<1>7. SameWitness(p)
  <2> HIDE DEF p
  <2> QED BY <1>3, <1>5 DEF SameWitness
<1>8. VerifyVoteProof(p, b.pk, b.chain, b.election, b.signal)
  <2>1. cast = compute_challenge(p.message_count, b.pk, p.bbs_proof.id, p.revealed,
                                 p.dl_proof.id, b.chain, b.election, p.nullifier, b.signal)
    BY <1>3 DEF cast
  <2> HIDE DEF p, N
  <2>2. p.nullifier = Nullifier(p.dl_proof.m, b.election)
    BY <1>3 DEF N
  <2> QED
    BY <1>3, <1>5, <1>6, <1>7, <2>1, <2>2 DEF VerifyVoteProof
<1> QED
  BY <1>6, <1>8 DEF phi_voting_verify_vote_v1

(* No honest ballot is turned away, and no other is let in.                *)
THEOREM HonestBallotsAreCounted == Spec => []HonestBallotsCount
<1>1. IInv => HonestBallotsCount
  <2> SUFFICES ASSUME IInv, NEW b \in ballots, NEW chain \in Chains
               PROVE  phi_voting_verify_vote_v1(b.proof, IssuerOf[chain], chain, b.election,
                                                b.proof.nullifier, b.signal)
                      <=> /\ chain = b.chain
                          /\ b.pk = IssuerOf[chain] /\ b.cred.key = IssuerOf[chain]
                          /\ b.proof.nullifier = Nullifier(b.cred.secret, b.election)
                          /\ b.proof.bbs_proof.m0 = b.cred.secret
    BY DEF HonestBallotsCount
  <2>1. ASSUME phi_voting_verify_vote_v1(b.proof, IssuerOf[chain], chain, b.election,
                                         b.proof.nullifier, b.signal)
        PROVE  /\ chain = b.chain
               /\ b.pk = IssuerOf[chain] /\ b.cred.key = IssuerOf[chain]
               /\ b.proof.nullifier = Nullifier(b.cred.secret, b.election)
               /\ b.proof.bbs_proof.m0 = b.cred.secret
    <3>1. b.proof \in Altered(b)
      BY DEF Altered
    <3>2. BallotInv /\ b.election \in Elections /\ b.signal \in Signals
      BY DEF IInv, BallotInv
    <3> QED
      BY <2>1, <3>1, <3>2, AcceptedIsAsCast
  <2>2. ASSUME chain = b.chain,
               b.pk = IssuerOf[chain], b.cred.key = IssuerOf[chain],
               b.proof.nullifier = Nullifier(b.cred.secret, b.election),
               b.proof.bbs_proof.m0 = b.cred.secret
        PROVE  phi_voting_verify_vote_v1(b.proof, IssuerOf[chain], chain, b.election,
                                         b.proof.nullifier, b.signal)
    BY <2>2, HonestBallotVerifies DEF IInv
  <2> QED
    BY <2>1, <2>2
<1> QED
  BY <1>1, Invariance, PTL
-----------------------------------------------------------------------------
(* The ballot box.  A proof emitted with a credential that the chain       *)
(* trusts is a vote cast there, any other is not visible.                  *)
LEMMA EmitIsCast ==
    ASSUME NEW cred \in Credentials, NEW m0, NEW m, NEW pk, NEW reveal,
           NEW chain \in Chains, NEW election \in Elections, NEW signal \in Signals,
           Emit(cred, m0, m, pk, reveal, chain, election, signal)
    PROVE  [Ideal!Next]_<<CastVotes, CountedVotes>>
<1> DEFINE id == Cardinality(ballots) + 1
           b == [proof |-> VoteProof(id, cred, m0, m, pk, reveal, chain, election, signal),
                 cred |-> cred, pk |-> pk, chain |-> chain, election |-> election,
                 signal |-> signal]
           v == Vote(chain, election, cred.secret, signal)
<1>1. ballots' = ballots \cup {b} /\ recorded' = recorded
  BY DEF Emit
<1>2. b.cred = cred /\ b.chain = chain /\ b.election = election /\ b.signal = signal
  OBVIOUS
<1> HIDE DEF b, id
<1>3. VoteOf(b) = v
  BY <1>2 DEF VoteOf
<1>4. CountedVotes' = CountedVotes
  BY <1>1 DEF CountedVotes, CountedOn
<1>5. CASE cred.key = IssuerOf[chain]
  <2>1. CastVotes' = CastVotes \cup {v}
    BY <1>1, <1>2, <1>3, <1>5 DEF CastVotes, VoteOf
  <2>2. v \in Ideal!Votes /\ v.chain = chain /\ v.voter = cred.secret
    BY BytesAssumption DEF Ideal!Votes, Vote
  <2>3. cred.secret \in EligibleOn(chain)
    BY <1>5 DEF EligibleOn
  <2> HIDE DEF v
  <2>4. Ideal!Cast(v)
    BY <1>4, <2>1, <2>2, <2>3 DEF Ideal!Cast
  <2> QED BY <2>2, <2>4 DEF Ideal!Next
<1>6. CASE cred.key # IssuerOf[chain]
  <2>1. CastVotes' = CastVotes
    BY <1>1, <1>2, <1>6 DEF CastVotes, VoteOf
  <2> QED BY <1>4, <2>1
<1> QED
  BY <1>5, <1>6

(* A submission that a chain records counts one cast vote, of a voter who  *)
(* had none in that election: two records of one secret would share their  *)
(* dedup key.                                                              *)
LEMMA SubmitIsCount ==
    ASSUME IInv, NEW b \in ballots, NEW p \in Altered(b),
           NEW chain \in Chains, NEW election \in Elections, NEW key \in DedupKeys,
           NEW signal \in Signals,
           Submit(b, p, chain, election, key, signal)
    PROVE  Ideal!Next
<1> DEFINE new == [key |-> key, election |-> election, signal |-> signal, from |-> b,
                   shown |-> p.revealed]
           voter == b.cred.secret
           v == Vote(chain, election, voter, signal)
<1>1. /\ key = Nullifier(voter, election)
      /\ b.chain = chain /\ b.election = election /\ b.signal = signal
      /\ b.cred.key = IssuerOf[chain]
  BY AcceptedIsAsCast DEF IInv, Submit
<1>2. \A c \in Chains : recorded'[c] = IF c = chain THEN recorded[c] \cup {new} ELSE recorded[c]
  BY DEF IInv, Submit
<1>3. ballots' = ballots
  BY DEF Submit
<1>4. \A r \in recorded[chain] : ~(r.election = election /\ r.key = key)
  BY DEF Submit, Spent
<1>5. new.election = election /\ new.signal = signal /\ new.from = b
  OBVIOUS
<1> HIDE DEF new
<1>6. voter \in Secrets
  BY BytesAssumption DEF IInv, BallotInv
<1>7. v \in Ideal!Votes
  BY <1>6 DEF Ideal!Votes, Vote
<1>8. v \in CastVotes /\ CastVotes' = CastVotes
  BY <1>1, <1>3 DEF CastVotes, VoteOf
<1>9. CountedVotes' = CountedVotes \cup {v}
  <2>1. CountedOn(chain)' = CountedOn(chain) \cup {v}
    BY <1>2, <1>5 DEF CountedOn
  <2>2. \A c \in Chains \ {chain} : CountedOn(c)' = CountedOn(c)
    BY <1>2 DEF CountedOn
  <2> HIDE DEF v
  <2> QED BY <2>1, <2>2 DEF CountedVotes
<1>10. ASSUME NEW w \in CountedVotes,
              <<w.chain, w.election, w.voter>> = <<v.chain, v.election, v.voter>>
       PROVE  FALSE
  <2>1. PICK c \in Chains : w \in CountedOn(c)
    BY <1>10 DEF CountedVotes
  <2>2. PICK r \in recorded[c] : w = Vote(c, r.election, r.from.cred.secret, r.signal)
    BY <2>1 DEF CountedOn
  <2>3. c = chain /\ r.election = election /\ r.from.cred.secret = voter
    BY <1>10, <2>2 DEF Vote
  <2>4. r.key = key
    BY <1>1, <2>3 DEF IInv, KeyInv
  <2> QED BY <1>4, <2>3, <2>4
<1> HIDE DEF v
<1>11. Ideal!Count(v)
  BY <1>8, <1>9, <1>10 DEF Ideal!Count
<1> QED
  BY <1>7, <1>11 DEF Ideal!Next

(* The composed anonymous vote implements a ballot box: whatever provers   *)
(* of their own making emit and relays repeat, mix or re-label, the chains *)
(* count votes as their eligible voters cast them, one of each voter per   *)
(* election, and keep them.                                                *)
THEOREM VotingIsABallotBox == Spec => ImplementsBallotBox
<1>1. Init => Ideal!Init
  BY DEF Init, Ideal!Init, CastVotes, CountedVotes, CountedOn
<1>2. IInv /\ [Next]_vars => [Ideal!Next]_<<CastVotes, CountedVotes>>
  <2>1. ASSUME IInv, Next PROVE [Ideal!Next]_<<CastVotes, CountedVotes>>
    <3>1. CASE \E cred \in Credentials, m0 \in Secrets, pk \in Keys,
                 reveal \in SUBSET Indices, chain \in Chains, election \in Elections,
                 signal \in Signals :
                   ProveVote(cred, m0, pk, reveal, chain, election, signal)
      BY <3>1, EmitIsCast DEF ProveVote
    <3>2. CASE \E cred \in Credentials, m \in Secrets, reveal \in SUBSET Indices,
                 chain \in Chains, election \in Elections, signal \in Signals :
                   ProveSplit(cred, m, reveal, chain, election, signal)
      BY <3>2, EmitIsCast DEF ProveSplit
    <3>3. CASE \E b \in ballots : \E p \in Altered(b) :
               \E chain \in Chains, election \in Elections, key \in DedupKeys,
                  signal \in Signals :
                   Submit(b, p, chain, election, key, signal)
      BY <2>1, <3>3, SubmitIsCount
    <3> QED
      BY <2>1, <3>1, <3>2, <3>3 DEF Next
  <2>2. UNCHANGED vars => UNCHANGED <<CastVotes, CountedVotes>>
    BY DEF vars, CastVotes, VoteOf, CountedVotes, CountedOn
  <2> QED
    BY <2>1, <2>2
<1> QED
  BY <1>1, <1>2, Invariance, PTL DEF Spec, ImplementsBallotBox, Ideal!Spec
=============================================================================
