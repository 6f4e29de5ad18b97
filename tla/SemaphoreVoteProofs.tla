------------------------ MODULE SemaphoreVoteProofs ------------------------
(***************************************************************************)
(* Proofs about SemaphoreVote for any voters, elections and options, and   *)
(* any number of proofs and submissions.                                   *)
(***************************************************************************)
EXTENDS SemaphoreVote, FramingProofs, FiniteSetTheorems

(* Every proof in circulation answers the nonce its holder asked for.      *)
ProofInv ==
    \A p \in proofs :
        /\ p.election \in ByteStrings /\ p.null \in ByteStrings /\ p.signal \in ByteStrings
        /\ p.proof = [key |-> p.voter.key,
                      nonce |-> SemaphoreBindNonce(p.election, p.null, p.signal)]

IInv ==
    /\ TypeOK
    /\ ProofInv
    /\ VotesAreAsBound

(* Every nullifier a holder or relay can name is a byte string.            *)
LEMMA NullifiersAreBytes == Nullifiers \subseteq ByteStrings
<1>1. ASSUME NEW v \in Voters, NEW e \in Elections
      PROVE  nullifier(v.secret, e) \in ByteStrings
  BY BytesAssumption, NullifierIsBytes
<1>2. WrongLength \in ByteStrings
  BY DEF WrongLength, ByteStrings
<1> QED
  BY <1>1, <1>2 DEF Nullifiers

(* What the chain records about proofs in circulation stays so when more   *)
(* are made.                                                               *)
Submissions(S) == [nullifier : Nullifiers \ {WrongLength}, signal : Signals, from : S]

LEMMA SubmissionsMonotone ==
    ASSUME NEW S, NEW T, S \subseteq T
    PROVE  Seq(Submissions(S)) \subseteq Seq(Submissions(T))
<1>1. Submissions(S) \subseteq Submissions(T)
  BY DEF Submissions
<1> QED
  BY <1>1

(* Deriving a proof adds one that answers the nonce asked for.             *)
LEMMA ProvePreserves ==
    ASSUME IInv, NEW v \in Voters, NEW e \in Elections, NEW n \in Nullifiers,
           NEW s \in Signals, Prove(v, e, n, s)
    PROVE  IInv'
<1> DEFINE p == [voter |-> v, election |-> e, null |-> n, signal |-> s,
                 proof |-> [key |-> v.key, nonce |-> SemaphoreBindNonce(e, n, s)]]
<1>1. proofs' = proofs \cup {p} /\ votes' = votes
  BY DEF Prove
<1>2. /\ p.voter \in Voters /\ p.election \in Elections
      /\ p.null \in Nullifiers /\ p.signal \in Signals
      /\ p.election \in ByteStrings /\ p.null \in ByteStrings /\ p.signal \in ByteStrings
      /\ p.proof = [key |-> p.voter.key,
                    nonce |-> SemaphoreBindNonce(p.election, p.null, p.signal)]
  BY BytesAssumption, NullifiersAreBytes
<1> HIDE DEF p
<1>3. ProofInv'
  BY <1>1, <1>2 DEF IInv, ProofInv
<1>4. TypeOK'
  <2>1. \A f \in Elections : votes'[f] \in Seq(Submissions(proofs'))
    <3> SUFFICES ASSUME NEW f \in Elections PROVE votes'[f] \in Seq(Submissions(proofs'))
      OBVIOUS
    <3>1. votes[f] \in Seq(Submissions(proofs))
      BY DEF IInv, TypeOK, Submissions
    <3>2. proofs \subseteq proofs'
      BY <1>1
    <3> QED
      BY <1>1, <3>1, <3>2, SubmissionsMonotone
  <2>2. \A q \in proofs' : /\ q.voter \in Voters /\ q.election \in Elections
                           /\ q.null \in Nullifiers /\ q.signal \in Signals
    BY <1>1, <1>2 DEF IInv, TypeOK
  <2>3. DOMAIN votes' = Elections
    BY <1>1 DEF IInv, TypeOK
  <2>4. Nullifiers' = Nullifiers /\ WrongLength' = WrongLength
    OBVIOUS
  <2> QED
    BY <2>1, <2>2, <2>3, <2>4 DEF TypeOK, Submissions
<1> QED
  BY <1>1, <1>3, <1>4 DEF IInv, VotesAreAsBound

(* A submission that verifies is labelled as its holder bound it.          *)
LEMMA AcceptedIsAsBound ==
    ASSUME ProofInv, NEW p \in proofs, NEW e \in Elections, NEW n \in Nullifiers,
           NEW s \in Signals,
           phi_semaphore_verify_vote(p.proof, Issuer, e, n, s)
    PROVE  p.election = e /\ p.null = n /\ p.signal = s /\ p.voter.key = Issuer
<1>1. /\ p.election \in ByteStrings /\ p.null \in ByteStrings /\ p.signal \in ByteStrings
      /\ e \in ByteStrings /\ n \in ByteStrings /\ s \in ByteStrings
  BY BytesAssumption, NullifiersAreBytes DEF ProofInv
<1>2. /\ p.voter.key = Issuer
      /\ SemaphoreBindNonce(p.election, p.null, p.signal) = bind_nonce(e, n, s)
  <2>1. p.proof.key = Issuer /\ p.proof.nonce = bind_nonce(e, n, s)
    BY DEF phi_semaphore_verify_vote, verify_proof_bytes
  <2>2. p.proof = [key |-> p.voter.key,
                   nonce |-> SemaphoreBindNonce(p.election, p.null, p.signal)]
    BY DEF ProofInv
  <2>3. /\ p.proof.key = p.voter.key
        /\ p.proof.nonce = SemaphoreBindNonce(p.election, p.null, p.signal)
    BY <2>2
  <2> QED
    BY <2>1, <2>3
<1>3. bind_nonce(e, n, s) # <<>>
  BY <1>1, BindNonceNotEmpty
<1>4. bind_nonce(p.election, p.null, p.signal) = bind_nonce(e, n, s)
  BY <1>2, <1>3 DEF SemaphoreBindNonce
<1> DEFINE x == [election |-> p.election, null |-> p.null, signal |-> p.signal]
           y == [election |-> e, null |-> n, signal |-> s]
<1>5. x \in Nonces /\ y \in Nonces
  BY <1>1 DEF Nonces
<1>6. bind_nonce(x.election, x.null, x.signal) = bind_nonce(y.election, y.null, y.signal)
  BY <1>4
<1>7. x = y
  <2> HIDE DEF x, y
  <2> QED BY <1>5, <1>6, BindNonceInjective
<1> QED
  BY <1>2, <1>7

(* What the chain appends is as bound.                                     *)
LEMMA SubmitPreserves ==
    ASSUME IInv, NEW p \in proofs, NEW e \in Elections, NEW n \in Nullifiers,
           NEW s \in Signals, Submit(p, e, n, s)
    PROVE  IInv'
<1> DEFINE new == [nullifier |-> n, signal |-> s, from |-> p]
<1>1. p.election = e /\ p.null = n /\ p.signal = s /\ p.voter.key = Issuer
  BY AcceptedIsAsBound DEF IInv, Submit
<1>2. /\ DOMAIN votes' = Elections /\ proofs' = proofs
      /\ votes'[e] = Append(votes[e], new)
      /\ \A f \in Elections \ {e} : votes'[f] = votes[f]
  BY DEF IInv, TypeOK, Submit
<1>3. new.nullifier = n /\ new.signal = s /\ new.from = p
  OBVIOUS
<1> HIDE DEF new
<1>4. votes[e] \in Seq(Submissions(proofs)) /\ new \in Submissions(proofs)
  <2>1. n \in Nullifiers \ {WrongLength}
    BY DEF Submit, phi_semaphore_verify_vote
  <2> QED
    BY <2>1 DEF IInv, TypeOK, Submissions, new
<1>5. /\ votes'[e] \in Seq(Submissions(proofs))
      /\ DOMAIN votes'[e] = 1..(Len(votes[e]) + 1)
      /\ DOMAIN votes[e] = 1..Len(votes[e]) /\ Len(votes[e]) \in Nat
      /\ \A i \in 1..Len(votes[e]) : votes'[e][i] = votes[e][i]
      /\ votes'[e][Len(votes[e]) + 1] = new
  BY <1>2, <1>4
<1>6. TypeOK'
  <2>1. \A f \in Elections : votes'[f] \in Seq(Submissions(proofs'))
    BY <1>2, <1>5 DEF IInv, TypeOK, Submissions
  <2>2. Nullifiers' = Nullifiers /\ WrongLength' = WrongLength
    OBVIOUS
  <2> QED
    BY <1>2, <2>1, <2>2 DEF IInv, TypeOK, Submissions
<1>7. VotesAreAsBound'
  <2> SUFFICES ASSUME NEW f \in Elections, NEW i \in DOMAIN votes'[f]
               PROVE  /\ votes'[f][i].from.election = f
                      /\ votes'[f][i].from.null = votes'[f][i].nullifier
                      /\ votes'[f][i].from.signal = votes'[f][i].signal
                      /\ votes'[f][i].from.voter.key = Issuer
    BY DEF VotesAreAsBound
  <2>1. CASE f # e
    BY <1>2, <2>1 DEF IInv, VotesAreAsBound
  <2>2. CASE f = e /\ i # Len(votes[e]) + 1
    <3>1. i \in DOMAIN votes[e] /\ votes'[f][i] = votes[f][i]
      BY <1>5, <2>2
    <3> QED
      BY <2>2, <3>1 DEF IInv, VotesAreAsBound
  <2>3. CASE f = e /\ i = Len(votes[e]) + 1
    BY <1>1, <1>3, <1>5, <2>3
  <2> QED
    BY <2>1, <2>2, <2>3
<1> QED
  BY <1>2, <1>6, <1>7 DEF IInv, ProofInv

(* The inductive invariant holds in every reachable state.                 *)
THEOREM Invariance == Spec => []IInv
<1>1. Init => IInv
  <2> SUFFICES ASSUME Init PROVE IInv
    OBVIOUS
  <2>1. proofs = {} /\ DOMAIN votes = Elections
    BY DEF Init
  <2>2. \A e \in Elections : votes[e] = <<>>
    BY DEF Init
  <2>3. \A e \in Elections : votes[e] \in Seq(Submissions(proofs))
    <3>1. \A S : <<>> \in Seq(S)
      BY EmptySeq
    <3> QED
      BY <2>2, <3>1
  <2>4. TypeOK
    BY <2>1, <2>3 DEF TypeOK, Submissions
  <2> QED
    BY <2>1, <2>2, <2>4 DEF IInv, ProofInv, VotesAreAsBound
<1>2. IInv /\ [Next]_vars => IInv'
  <2>1. ASSUME IInv, Next PROVE IInv'
    <3>1. CASE \E v \in Voters, e \in Elections, s \in Signals : ProveHonest(v, e, s)
      <4>1. PICK v \in Voters, e \in Elections, s \in Signals : ProveHonest(v, e, s)
        BY <3>1
      <4>2. nullifier(v.secret, e) \in Nullifiers
        BY DEF Nullifiers
      <4> QED
        BY <2>1, <4>1, <4>2, ProvePreserves DEF ProveHonest
    <3>2. CASE \E v \in Voters, e \in Elections, n \in Nullifiers, s \in Signals :
                   ProveChosen(v, e, n, s)
      BY <2>1, <3>2, ProvePreserves DEF ProveChosen
    <3>3. CASE \E p \in proofs, e \in Elections, n \in Nullifiers, s \in Signals :
                   Submit(p, e, n, s)
      BY <2>1, <3>3, SubmitPreserves
    <3> QED
      BY <2>1, <3>1, <3>2, <3>3 DEF Next
  <2>2. IInv /\ UNCHANGED vars => IInv'
    <3> SUFFICES ASSUME IInv, UNCHANGED vars PROVE IInv'
      OBVIOUS
    <3>1. proofs' = proofs /\ votes' = votes
      BY DEF vars
    <3>2. TypeOK'
      BY <3>1 DEF IInv, TypeOK
    <3> QED
      BY <3>1, <3>2 DEF IInv, ProofInv, VotesAreAsBound
  <2> QED
    BY <2>1, <2>2
<1> QED
  BY <1>1, <1>2, PTL DEF Spec

(* The chain's records are well formed: nullifiers of the right length     *)
(* under proofs somebody made.                                             *)
THEOREM RecordsAreWellFormed == Spec => []TypeOK
<1>1. IInv => TypeOK
  BY DEF IInv
<1> QED
  BY <1>1, Invariance, PTL

(* Accepted votes are counted for what their holders bound them to.        *)
THEOREM VotesStayAsBound == Spec => []VotesAreAsBound
<1>1. IInv => VotesAreAsBound
  BY DEF IInv
<1> QED
  BY <1>1, Invariance, PTL
-----------------------------------------------------------------------------
(* A vote whose holder used its own nullifier is counted under that        *)
(* nullifier, computed from the holder's secret and this very election.    *)
LEMMA HonestNullifier ==
    ASSUME IInv, NEW e \in Elections, NEW i \in Honest(e)
    PROVE  /\ votes[e][i].nullifier = nullifier(votes[e][i].from.voter.secret, e)
           /\ votes[e][i].from.voter.secret \in ByteStrings
           /\ e \in ByteStrings
<1>1. i \in DOMAIN votes[e] /\ votes[e] \in Seq(Submissions(proofs))
  BY DEF Honest, IInv, TypeOK, Submissions
<1>2. votes[e][i] \in Submissions(proofs)
  BY <1>1
<1>3. votes[e][i].from \in proofs
  BY <1>2 DEF Submissions
<1>4. votes[e][i].from.voter \in Voters
  BY <1>3 DEF IInv, TypeOK
<1>5. /\ votes[e][i].from.election = e
      /\ votes[e][i].from.null = votes[e][i].nullifier
  BY <1>1 DEF IInv, VotesAreAsBound
<1> QED
  BY <1>4, <1>5, BytesAssumption DEF Honest

(* Two honest votes share a nullifier exactly when they are the same       *)
(* voter's in the same election.                                           *)
THEOREM SeparateNullifiers == Spec => []NullifiersAreSeparate
<1>1. IInv => NullifiersAreSeparate
  <2> SUFFICES ASSUME IInv, NEW e \in Elections, NEW f \in Elections,
                      NEW i \in Honest(e), NEW j \in Honest(f)
               PROVE  votes[e][i].nullifier = votes[f][j].nullifier
                      <=> e = f /\ votes[e][i].from.voter.secret
                                   = votes[f][j].from.voter.secret
    BY DEF NullifiersAreSeparate
  <2> DEFINE s == votes[e][i].from.voter.secret
             t == votes[f][j].from.voter.secret
  <2>1. votes[e][i].nullifier = nullifier(s, e) /\ s \in ByteStrings /\ e \in ByteStrings
    BY HonestNullifier
  <2>2. votes[f][j].nullifier = nullifier(t, f) /\ t \in ByteStrings /\ f \in ByteStrings
    BY HonestNullifier
  <2> HIDE DEF s, t
  <2>3. nullifier(s, e) = nullifier(t, f) => s = t /\ e = f
    BY <2>1, <2>2, NullifierInjective
  <2>4. votes[e][i].nullifier = votes[f][j].nullifier <=> e = f /\ s = t
    BY <2>1, <2>2, <2>3
  <2> QED
    BY <2>4 DEF s, t
<1> QED
  BY <1>1, Invariance, PTL

(* The tally of an election is at least its honest voters and at most      *)
(* those and the nullifiers somebody made up.                              *)
LEMMA TallyBounds ==
    ASSUME IInv, NEW e \in Elections
    PROVE  /\ Cardinality(HonestVoters(e)) \in Nat
           /\ Cardinality(ChosenNullifiers(e)) \in Nat
           /\ distinct_nullifiers(votes[e]) \in Nat
           /\ Cardinality(HonestVoters(e)) <= distinct_nullifiers(votes[e])
           /\ distinct_nullifiers(votes[e])
              <= Cardinality(HonestVoters(e)) + Cardinality(ChosenNullifiers(e))
<1> DEFINE D == DOMAIN votes[e]
           H == Honest(e)
           V == HonestVoters(e)
           C == ChosenNullifiers(e)
           All == {votes[e][i].nullifier : i \in D}
           Own == {votes[e][i].nullifier : i \in H}
           f == [s \in V |-> nullifier(s, e)]
<1>1. IsFiniteSet(D)
  <2>1. votes[e] \in Seq(Submissions(proofs))
    BY DEF IInv, TypeOK, Submissions
  <2>2. D = 1..Len(votes[e]) /\ Len(votes[e]) \in Nat
    BY <2>1
  <2>3. IsFiniteSet(1..Len(votes[e]))
    BY <2>2, FS_Interval
  <2> QED
    BY <2>2, <2>3
<1>2. H \subseteq D /\ All = Own \cup C
  BY DEF Honest, ChosenNullifiers
<1>3. IsFiniteSet(H) /\ IsFiniteSet(D \ H)
  BY <1>1, <1>2, FS_Subset
<1>4. IsFiniteSet(All)
  <2> DEFINE g == [i \in D |-> votes[e][i].nullifier]
  <2>1. g \in Surjection(D, All)
    BY DEF Surjection
  <2> QED
    BY <1>1, <2>1, FS_Surjection
<1>5. f \in Bijection(V, Own)
  <2>1. \A i \in H : /\ votes[e][i].nullifier = nullifier(votes[e][i].from.voter.secret, e)
                     /\ votes[e][i].from.voter.secret \in ByteStrings /\ e \in ByteStrings
    BY HonestNullifier
  <2>2. V = {votes[e][i].from.voter.secret : i \in H}
    BY DEF HonestVoters
  <2> HIDE DEF V, H
  <2>3. f \in [V -> Own]
    BY <2>1, <2>2
  <2>4. \A n \in Own : \E s \in V : f[s] = n
    BY <2>1, <2>2
  <2>5. ASSUME NEW s \in V, NEW t \in V, f[s] = f[t] PROVE s = t
    <3>1. s \in ByteStrings /\ t \in ByteStrings /\ e \in ByteStrings /\ nullifier(s, e) = nullifier(t, e)
      BY <2>1, <2>2, <2>5
    <3> QED
      BY <3>1, NullifierInjective
  <2> HIDE DEF f, Own
  <2> QED
    BY <2>3, <2>4, <2>5 DEF Bijection, Injection, IsInjective, Surjection
<1>6. IsFiniteSet(Own) /\ IsFiniteSet(C) /\ Cardinality(Own) <= Cardinality(All)
  BY <1>2, <1>4, FS_Subset
<1>7. IsFiniteSet(V) /\ Cardinality(V) = Cardinality(Own)
  <2> HIDE DEF f, V, Own
  <2>1. f \in Injection(V, Own) /\ f \in Surjection(V, Own)
    BY <1>5 DEF Bijection
  <2> QED
    BY <1>6, <2>1, FS_Injection
<1>8. Cardinality(All) <= Cardinality(Own) + Cardinality(C)
  <2> HIDE DEF All, Own, C
  <2>1. Cardinality(Own \cup C)
        = Cardinality(Own) + Cardinality(C) - Cardinality(Own \cap C)
    BY <1>6, FS_Union
  <2>2. IsFiniteSet(Own \cap C)
    BY <1>6, FS_Intersection
  <2>3. /\ Cardinality(Own) \in Nat /\ Cardinality(C) \in Nat
        /\ Cardinality(Own \cap C) \in Nat
    BY <1>6, <2>2, FS_CardinalityType
  <2> QED
    BY <1>2, <2>1, <2>3
<1>9. /\ Cardinality(V) \in Nat /\ Cardinality(C) \in Nat /\ Cardinality(All) \in Nat
  BY <1>4, <1>6, <1>7, FS_CardinalityType
<1>10. distinct_nullifiers(votes[e]) = Cardinality(All)
  BY DEF distinct_nullifiers
<1> QED
  BY <1>6, <1>7, <1>8, <1>9, <1>10

(* A threshold is met by its honest voters, and only with them and the     *)
(* nullifiers somebody made up: repeating a vote adds nothing.             *)
THEOREM ThresholdIsVoters == Spec => []ThresholdCountsVoters
<1>1. IInv => ThresholdCountsVoters
  <2> SUFFICES ASSUME IInv, NEW e \in Elections, NEW t \in 0..(MaxVotes + 1)
               PROVE  /\ Cardinality(HonestVoters(e)) >= t
                         => verify_threshold_tally(votes[e], t)
                      /\ verify_threshold_tally(votes[e], t)
                         => Cardinality(HonestVoters(e))
                            + Cardinality(ChosenNullifiers(e)) >= t
    BY DEF ThresholdCountsVoters
  <2>1. t \in Nat
    BY BoundsAssumption
  <2> QED
    BY <2>1, TallyBounds DEF verify_threshold_tally
<1> QED
  BY <1>1, Invariance, PTL
=============================================================================
