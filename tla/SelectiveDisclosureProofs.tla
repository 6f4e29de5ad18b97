---------------------- MODULE SelectiveDisclosureProofs ----------------------
(***************************************************************************)
(* Proofs about SelectiveDisclosure for any keys, claims, headers and      *)
(* nonces, and claim and revealed lists of any length.                     *)
(*                                                                         *)
(* The inductive invariant keeps what the session's steps wrote until they *)
(* are used: what the issuer signed, what the holder derived (the relay    *)
(* may have changed everything but the proof), and what the verifier       *)
(* computed from it.                                                       *)
(***************************************************************************)
EXTENDS SelectiveDisclosure, FiniteSetTheorems, SequenceTheorems, TLAPS

(* There are n positions, counted from 0 or from 1.                        *)
LEMMA IntervalSize ==
    ASSUME NEW n \in Nat
    PROVE  /\ IsFiniteSet(0..(n - 1)) /\ Cardinality(0..(n - 1)) = n
           /\ IsFiniteSet(1..n) /\ Cardinality(1..n) = n
<1>1. 0 \in Int /\ 1 \in Int /\ n - 1 \in Int /\ n \in Int
  OBVIOUS
<1>2. /\ IsFiniteSet(0..(n - 1))
      /\ Cardinality(0..(n - 1)) = IF 0 > n - 1 THEN 0 ELSE (n - 1) - 0 + 1
  BY <1>1, FS_Interval
<1>3. /\ IsFiniteSet(1..n)
      /\ Cardinality(1..n) = IF 1 > n THEN 0 ELSE n - 1 + 1
  BY <1>1, FS_Interval
<1>4. /\ (IF 0 > n - 1 THEN 0 ELSE (n - 1) - 0 + 1) = n
      /\ (IF 1 > n THEN 0 ELSE n - 1 + 1) = n
  OBVIOUS
<1> QED
  BY <1>2, <1>3, <1>4

(* How many elements of S are below x; the position BTreeSet gives it.     *)
Below(S, x) == {j \in S : j < x}

(* A larger element has more elements below it.                            *)
LEMMA BelowGrows ==
    ASSUME NEW S \in SUBSET Int, IsFiniteSet(S), NEW x \in S, NEW y \in S, x < y
    PROVE  /\ Cardinality(Below(S, x)) < Cardinality(Below(S, y))
           /\ Cardinality(Below(S, x)) \in Nat /\ Cardinality(Below(S, y)) \in Nat
<1>1. Below(S, x) \subseteq Below(S, y) /\ Below(S, y) \subseteq S
  <2>1. \A j \in S : j \in Int
    OBVIOUS
  <2>2. \A j \in S : j < x => j < y
    BY <2>1
  <2> QED
    BY <2>2 DEF Below
<1>2. x \in Below(S, y) /\ x \notin Below(S, x)
  BY DEF Below
<1>3. IsFiniteSet(Below(S, y))
  BY <1>1, FS_Subset
<1>4. /\ IsFiniteSet(Below(S, x))
      /\ Cardinality(Below(S, x)) <= Cardinality(Below(S, y))
      /\ Cardinality(Below(S, x)) # Cardinality(Below(S, y))
  BY <1>1, <1>2, <1>3, FS_Subset
<1>5. Cardinality(Below(S, x)) \in Nat /\ Cardinality(Below(S, y)) \in Nat
  BY <1>3, <1>4, FS_CardinalityType
<1> QED
  BY <1>4, <1>5

(* Every position up to the size of a finite set of integers is some       *)
(* element's: the positions are distinct and there are as many of them.    *)
LEMMA EveryPositionIsTaken ==
    ASSUME NEW S \in SUBSET Int, IsFiniteSet(S), NEW k \in 1..Cardinality(S)
    PROVE  \E i \in S : Cardinality(Below(S, i)) = k - 1
<1> DEFINE n == Cardinality(S)
           P == 0..(n - 1)
           r == [x \in S |-> Cardinality(Below(S, x))]
<1>1. n \in Nat
  BY FS_CardinalityType
<1>2. ASSUME NEW x \in S PROVE Cardinality(Below(S, x)) \in P
  <2>1. Below(S, x) \subseteq S /\ x \notin Below(S, x)
    BY DEF Below
  <2>2. /\ IsFiniteSet(Below(S, x))
        /\ Cardinality(Below(S, x)) <= n /\ Cardinality(Below(S, x)) # n
    BY <2>1, FS_Subset
  <2>3. Cardinality(Below(S, x)) \in Nat
    BY <2>2, FS_CardinalityType
  <2> QED
    BY <1>1, <2>2, <2>3
<1>3. r \in [S -> P]
  BY <1>2
<1>4. ASSUME NEW x \in S, NEW y \in S, r[x] = r[y] PROVE x = y
  <2>1. x \in Int /\ y \in Int
    OBVIOUS
  <2>2. Cardinality(Below(S, x)) = Cardinality(Below(S, y))
    BY <1>4
  <2>3. ~(x < y) /\ ~(y < x)
    BY <2>2, BelowGrows
  <2> QED
    BY <2>1, <2>3
<1>5. r \in Injection(S, P)
  <2> HIDE DEF r
  <2> QED BY <1>3, <1>4 DEF Injection, IsInjective
<1>6. IsFiniteSet(P) /\ Cardinality(P) = n
  <2> HIDE DEF n
  <2> QED BY <1>1, IntervalSize
<1>7. r \in Surjection(S, P)
  <2> HIDE DEF r, P, n
  <2>1. Cardinality(S) = Cardinality(P)
    BY <1>6 DEF n
  <2> QED
    BY <1>5, <1>6, <2>1, FS_Injection
<1>8. k - 1 \in P
  BY <1>1
<1>9. \E i \in S : r[i] = k - 1
  <2> HIDE DEF r, P
  <2> QED BY <1>7, <1>8 DEF Surjection
<1> QED
  BY <1>9

(* Nth enumerates a finite set of integers in increasing order.            *)
LEMMA NthEnumerates ==
    ASSUME NEW S \in SUBSET Int, IsFiniteSet(S)
    PROVE  /\ \A k \in 1..Cardinality(S) : Nth(S, k) \in S
           /\ \A j, k \in 1..Cardinality(S) : j < k => Nth(S, j) < Nth(S, k)
           /\ \A i \in S : \E k \in 1..Cardinality(S) : Nth(S, k) = i
<1> DEFINE n == Cardinality(S)
<1>0. n \in Nat
  BY FS_CardinalityType
<1>1. ASSUME NEW k \in 1..n
      PROVE  Nth(S, k) \in S /\ Cardinality(Below(S, Nth(S, k))) = k - 1
  <2>1. \E i \in S : Cardinality({j \in S : j < i}) = k - 1
    BY EveryPositionIsTaken DEF Below
  <2>2. /\ Nth(S, k) \in S
        /\ Cardinality({j \in S : j < Nth(S, k)}) = k - 1
    BY <2>1 DEF Nth
  <2> QED
    BY <2>2 DEF Below
<1>2. ASSUME NEW j \in 1..n, NEW k \in 1..n, j < k PROVE Nth(S, j) < Nth(S, k)
  <2> DEFINE x == Nth(S, j)
             y == Nth(S, k)
  <2>1. /\ x \in S /\ y \in S
        /\ Cardinality(Below(S, x)) = j - 1 /\ Cardinality(Below(S, y)) = k - 1
    BY <1>1
  <2> HIDE DEF x, y
  <2>2. x # y
    BY <1>0, <1>2, <2>1
  <2>3. ~(y < x)
    <3> SUFFICES ASSUME y < x PROVE FALSE
      OBVIOUS
    <3>1. k - 1 < j - 1
      BY <2>1, BelowGrows
    <3> QED
      BY <1>0, <1>2, <3>1
  <2>4. x \in Int /\ y \in Int
    BY <2>1
  <2>5. x < y
    BY <2>2, <2>3, <2>4
  <2> QED
    BY <2>5 DEF x, y
<1>3. ASSUME NEW i \in S PROVE \E k \in 1..n : Nth(S, k) = i
  <2> DEFINE k == Cardinality(Below(S, i)) + 1
  <2>1. k \in 1..n
    <3>1. Below(S, i) \subseteq S /\ i \notin Below(S, i)
      BY DEF Below
    <3>2. /\ IsFiniteSet(Below(S, i))
          /\ Cardinality(Below(S, i)) <= n /\ Cardinality(Below(S, i)) # n
      BY <3>1, FS_Subset
    <3>3. Cardinality(Below(S, i)) \in Nat
      BY <3>2, FS_CardinalityType
    <3> QED
      BY <1>0, <3>2, <3>3
  <2> HIDE DEF k
  <2>2. Nth(S, k) \in S /\ Cardinality(Below(S, Nth(S, k))) = k - 1
    BY <1>1, <2>1
  <2> DEFINE y == Nth(S, k)
  <2>3. Cardinality(Below(S, i)) = k - 1
    <3>1. IsFiniteSet(Below(S, i))
      BY FS_Subset DEF Below
    <3>2. Cardinality(Below(S, i)) \in Nat
      BY <3>1, FS_CardinalityType
    <3> QED
      BY <3>2 DEF k
  <2>4. y \in S /\ Cardinality(Below(S, y)) = Cardinality(Below(S, i))
    BY <2>2, <2>3
  <2> HIDE DEF y
  <2>5. ~(y < i) /\ ~(i < y)
    BY <2>4, BelowGrows
  <2>6. y \in Int /\ i \in Int
    BY <2>4
  <2>7. y = i
    BY <2>5, <2>6
  <2> QED
    BY <2>1, <2>7 DEF y
<1> QED
  BY <1>1, <1>2, <1>3
-----------------------------------------------------------------------------
Entries == [idx : Indices, claim : Claims]

Distinct(list) == \A j, k \in DOMAIN list : list[j].idx = list[k].idx => j = k
Increasing(list) ==
    \A k \in DOMAIN list : \A j \in 1..(k - 1) : list[j].idx < list[k].idx

(* A list names as many claims as it has entries exactly when no entry     *)
(* repeats an index, and never more: the test of EntriesAccepted.          *)
LEMMA IndexSetSize ==
    ASSUME NEW list \in Seq(Entries)
    PROVE  /\ Cardinality(IndexSet(list)) \in Nat
           /\ Cardinality(IndexSet(list)) <= Len(list)
           /\ Cardinality(IndexSet(list)) = Len(list) <=> Distinct(list)
<1> DEFINE D == DOMAIN list
           f == [k \in D |-> list[k].idx]
<1>1. D = 1..Len(list) /\ Len(list) \in Nat
  OBVIOUS
<1>2. IsFiniteSet(D) /\ Cardinality(D) = Len(list)
  <2> HIDE DEF D
  <2>1. IsFiniteSet(1..Len(list)) /\ Cardinality(1..Len(list)) = Len(list)
    BY <1>1, IntervalSize
  <2> QED
    BY <1>1, <2>1
<1>3. f \in Surjection(D, IndexSet(list))
  BY DEF Surjection, IndexSet
<1>4. f \in Injection(D, IndexSet(list)) <=> Distinct(list)
  <2>1. f \in [D -> IndexSet(list)]
    BY DEF IndexSet
  <2>2. f \in Injection(D, IndexSet(list)) <=> \A j, k \in D : f[j] = f[k] => j = k
    <3> HIDE DEF f, D
    <3> QED BY <2>1 DEF Injection, IsInjective
  <2>3. \A k \in D : f[k] = list[k].idx
    OBVIOUS
  <2> HIDE DEF f
  <2> QED
    BY <2>2, <2>3 DEF Distinct
<1> HIDE DEF f, D
<1>5. /\ IsFiniteSet(IndexSet(list))
      /\ Cardinality(IndexSet(list)) <= Cardinality(D)
      /\ Cardinality(IndexSet(list)) = Cardinality(D)
         <=> f \in Injection(D, IndexSet(list))
  BY <1>2, <1>3, FS_Surjection
<1>6. Cardinality(IndexSet(list)) \in Nat
  BY <1>5, FS_CardinalityType
<1> QED
  BY <1>2, <1>4, <1>5, <1>6

(* Of a list without repetitions, AsMap keeps every entry.                 *)
LEMMA AsMapKeepsEntries ==
    ASSUME NEW list \in Seq(Entries), Distinct(list)
    PROVE  \A k \in DOMAIN list : AsMap(list)[list[k].idx] = list[k].claim
<1> SUFFICES ASSUME NEW k \in DOMAIN list
             PROVE  AsMap(list)[list[k].idx] = list[k].claim
  OBVIOUS
<1>1. {j \in DOMAIN list : list[j].idx = list[k].idx} = {k}
  BY DEF Distinct
<1>2. k \in Nat
  OBVIOUS
<1>3. Max({k}) = k
  BY <1>2 DEF Max
<1>4. list[k].idx \in IndexSet(list)
  BY DEF IndexSet
<1>5. AsMap(list)[list[k].idx]
      = list[Max({j \in DOMAIN list : list[j].idx = list[k].idx})].claim
  BY <1>4 DEF AsMap
<1> QED
  BY <1>1, <1>3, <1>5

(* What the byte decoders let through names no claim twice.                *)
LEMMA IncreasingIsDistinct ==
    ASSUME NEW list \in Seq(Entries), Increasing(list)
    PROVE  Distinct(list)
<1> SUFFICES ASSUME NEW j \in DOMAIN list, NEW k \in DOMAIN list,
                    list[j].idx = list[k].idx
             PROVE  j = k
  BY DEF Distinct
<1>1. j \in Nat \ {0} /\ k \in Nat \ {0}
  OBVIOUS
<1>2. list[j] \in Entries /\ list[k] \in Entries
  OBVIOUS
<1>3. list[j].idx \in Int /\ list[k].idx \in Int
  BY <1>2, BoundsAssumption DEF Entries, Indices
<1>4. ~(j < k)
  BY <1>1, <1>3 DEF Increasing
<1>5. ~(k < j)
  BY <1>1, <1>3 DEF Increasing
<1> QED
  BY <1>1, <1>4, <1>5

(* What derive_proof lists: the chosen claims, each once, in increasing    *)
(* order of their indices.                                                 *)
LEMMA RevealedListIsReveal ==
    ASSUME NEW claims \in ClaimLists, NEW reveal \in SUBSET Indices,
           reveal \subseteq 0..(Len(claims) - 1)
    PROVE  /\ RevealedList(claims, reveal) \in Seq(Entries)
           /\ Len(RevealedList(claims, reveal)) = Cardinality(reveal)
           /\ Cardinality(reveal) \in Nat
           /\ Cardinality(reveal) <= Len(claims)
           /\ Len(claims) \in Nat
           /\ Increasing(RevealedList(claims, reveal))
           /\ IndexSet(RevealedList(claims, reveal)) = reveal
           /\ AsMap(RevealedList(claims, reveal)) = Shown(claims, reveal)
<1> DEFINE L == RevealedList(claims, reveal)
           n == Cardinality(reveal)
           E(k) == Entry(Nth(reveal, k), claims[Nth(reveal, k) + 1])
<1>1. claims \in Seq(Claims) /\ Len(claims) \in Nat
  <2>1. PICK m \in 0..MaxClaims : claims \in [1..m -> Claims]
    BY DEF ClaimLists
  <2>2. m \in Nat
    BY BoundsAssumption
  <2> QED
    BY <2>1, <2>2
<1>2. IsFiniteSet(reveal) /\ n \in Nat /\ n <= Len(claims)
  <2> DEFINE T == 0..(Len(claims) - 1)
  <2>1. IsFiniteSet(T) /\ Cardinality(T) = Len(claims)
    BY <1>1, IntervalSize
  <2>2. reveal \in SUBSET T
    OBVIOUS
  <2> HIDE DEF T
  <2>3. IsFiniteSet(reveal) /\ n <= Len(claims)
    BY <2>1, <2>2, FS_Subset
  <2> QED
    BY <2>3, FS_CardinalityType
<1>3. /\ \A k \in 1..n : Nth(reveal, k) \in reveal
      /\ \A j, k \in 1..n : j < k => Nth(reveal, j) < Nth(reveal, k)
      /\ \A i \in reveal : \E k \in 1..n : Nth(reveal, k) = i
  <2>1. reveal \subseteq Int
    OBVIOUS
  <2> QED
    BY <1>2, <2>1, NthEnumerates
<1>4. L = [k \in 1..n |-> E(k)]
  BY DEF RevealedList
<1>5. \A i \in reveal : i \in Int /\ i \in Indices /\ i + 1 \in 1..Len(claims)
                        /\ claims[i + 1] \in Claims
  BY <1>1
<1>6. ASSUME NEW k \in 1..n
      PROVE  /\ E(k) \in Entries /\ E(k).idx = Nth(reveal, k)
             /\ E(k).claim = claims[Nth(reveal, k) + 1]
  BY <1>3, <1>5 DEF Entry, Entries
<1> HIDE DEF n, E
<1>7. /\ L \in Seq(Entries) /\ Len(L) = n /\ DOMAIN L = 1..n
      /\ \A k \in 1..n : L[k] = E(k)
  <2>1. \A k \in 1..n : E(k) \in Entries
    BY <1>6
  <2>2. [k \in 1..n |-> E(k)] \in [1..n -> Entries]
    BY <2>1
  <2> QED
    BY <1>2, <1>4, <2>2
<1> HIDE DEF L
<1>8. Increasing(L)
  <2> SUFFICES ASSUME NEW k \in DOMAIN L, NEW j \in 1..(k - 1)
               PROVE  L[j].idx < L[k].idx
    BY DEF Increasing
  <2>1. k \in 1..n /\ j \in 1..n /\ j < k
    BY <1>2, <1>7
  <2> QED
    BY <1>3, <1>6, <1>7, <2>1
<1>9. IndexSet(L) = reveal
  <2>1. \A k \in DOMAIN L : L[k].idx = Nth(reveal, k)
    BY <1>6, <1>7
  <2>2. IndexSet(L) = {Nth(reveal, k) : k \in 1..n}
    BY <1>7, <2>1 DEF IndexSet
  <2>3. {Nth(reveal, k) : k \in 1..n} = reveal
    BY <1>3
  <2> QED
    BY <2>2, <2>3
<1>10. AsMap(L) = Shown(claims, reveal)
  <2>1. \A k \in DOMAIN L : AsMap(L)[L[k].idx] = L[k].claim
    BY <1>7, <1>8, IncreasingIsDistinct, AsMapKeepsEntries
  <2>2. \A k \in 1..n : AsMap(L)[Nth(reveal, k)] = claims[Nth(reveal, k) + 1]
    BY <1>6, <1>7, <2>1
  <2>3. \A i \in reveal : AsMap(L)[i] = claims[i + 1]
    BY <1>3, <2>2
  <2>4. AsMap(L) = [i \in reveal |-> AsMap(L)[i]]
    BY <1>9 DEF AsMap
  <2> QED
    BY <2>3, <2>4 DEF Shown
<1> QED
  BY <1>1, <1>2, <1>7, <1>8, <1>9, <1>10 DEF L, n
-----------------------------------------------------------------------------
(* The issuer signed a claim list that sign_credential takes.              *)
Signed ==
    \E claims \in ClaimLists, header \in Headers :
        /\ cred = [key |-> issuer, header |-> header, claims |-> claims]
        /\ SignAccepts(claims, header)

(* The holder derived the original, and the message still carries its      *)
(* proof.                                                                  *)
Derived(claims, header, reveal, nonce) ==
    LET proof == ProofOf(claims, header, reveal, nonce)
    IN /\ DeriveAccepts(claims, header, reveal)
       /\ original = [msg |-> [message_count |-> Len(claims), proof |-> proof,
                               revealed |-> RevealedList(claims, reveal)],
                      nonce |-> nonce]
       /\ \E count \in Nat, list \in Seq(Entries) :
              msg = [message_count |-> count, proof |-> proof, revealed |-> list]

InTransit ==
    \E claims \in ClaimLists, header \in Headers, reveal \in SUBSET Indices, nonce \in Nonces :
        Derived(claims, header, reveal, nonce)

(* The verdict is what the verifier makes of the message that arrived.     *)
VerdictOn(path, key, header, nonce) ==
    /\ suite = "phi-bbs-v1" \/ path = "struct" => header = NoHeader
    /\ verdict = [path |-> path, key |-> key, header |-> header, nonce |-> nonce,
                  ok |-> Decoded(path) /\ ~Panics2023(msg)
                         /\ VerifyProof(msg, key, header, nonce),
                  panicked |-> Decoded(path) /\ Panics2023(msg)]

Judged ==
    \E path \in {"struct", "bytes"}, key \in Keys, header \in Headers, nonce \in Nonces :
        VerdictOn(path, key, header, nonce)

IInv ==
    /\ suite \in Suites
    /\ phase \in {"derive", "transit", "judged"} => Signed
    /\ phase \in {"transit", "judged"} => InTransit
    /\ phase = "judged" => Judged

(* Steps that leave a session's record alone keep what is known of it.     *)
LEMMA RecordStays ==
    /\ Signed /\ UNCHANGED <<suite, issuer, cred>> => Signed'
    /\ InTransit /\ UNCHANGED <<suite, cred, msg, original>> => InTransit'
<1>1. Signed /\ UNCHANGED <<suite, issuer, cred>> => Signed'
  BY DEF Signed, SignAccepts
<1>2. ASSUME InTransit, UNCHANGED <<suite, cred, msg, original>> PROVE InTransit'
  <2>1. PICK claims \in ClaimLists, header \in Headers, reveal \in SUBSET Indices,
             nonce \in Nonces : Derived(claims, header, reveal, nonce)
    BY <1>2 DEF InTransit
  <2>2. Derived(claims, header, reveal, nonce)'
    BY <1>2, <2>1 DEF Derived, ProofOf, DeriveAccepts, verify
  <2> QED
    BY <2>2 DEF InTransit
<1> QED
  BY <1>1, <1>2

(* derive_proof's message is the original, unaltered.                      *)
LEMMA DerivePreserves ==
    ASSUME IInv, NEW claims \in ClaimLists, NEW header \in Headers,
           NEW reveal \in SUBSET Indices, NEW nonce \in Nonces,
           DeriveProof(claims, header, reveal, nonce)
    PROVE  IInv'
<1> DEFINE P == ProofOf(claims, header, reveal, nonce)
           L == RevealedList(claims, reveal)
<1>1. /\ phase = "derive" /\ phase' = "transit"
      /\ DeriveAccepts(claims, header, reveal)
      /\ UNCHANGED <<suite, issuer, cred, verdict>>
      /\ msg' = [message_count |-> Len(claims), proof |-> P, revealed |-> L]
      /\ original' = [msg |-> msg', nonce |-> nonce]
  BY DEF DeriveProof
<1>2. P' = P /\ DeriveAccepts(claims, header, reveal)'
  BY <1>1 DEF ProofOf, DeriveAccepts, verify
<1>3. L \in Seq(Entries) /\ Len(claims) \in Nat
  BY <1>1, RevealedListIsReveal DEF DeriveAccepts
<1>4. Derived(claims, header, reveal, nonce)'
  <2>1. original' = [msg |-> [message_count |-> Len(claims), proof |-> P', revealed |-> L],
                     nonce |-> nonce]
    BY <1>1, <1>2
  <2>2. msg' = [message_count |-> Len(claims), proof |-> P', revealed |-> L]
    BY <1>1, <1>2
  <2> HIDE DEF L
  <2>3. \E count \in Nat, list \in Seq(Entries) :
            msg' = [message_count |-> count, proof |-> P', revealed |-> list]
    BY <1>3, <2>2
  <2> QED
    BY <1>2, <2>1, <2>3 DEF Derived, L
<1>5. InTransit'
  BY <1>4 DEF InTransit
<1> QED
  BY <1>1, <1>5, RecordStays DEF IInv

(* A relay may alter everything but the proof.                             *)
LEMMA AlterPreserves ==
    ASSUME IInv, NEW count \in Nat, NEW list \in Seq(Entries),
           phase = "transit",
           \/ msg' = [msg EXCEPT !.message_count = count]
           \/ msg' = [msg EXCEPT !.revealed = list],
           UNCHANGED <<phase, suite, issuer, cred, original, verdict>>
    PROVE  IInv'
<1>1. PICK claims \in ClaimLists, header \in Headers, reveal \in SUBSET Indices,
           nonce \in Nonces : Derived(claims, header, reveal, nonce)
  BY DEF IInv, InTransit
<1> DEFINE P == ProofOf(claims, header, reveal, nonce)
<1>2. PICK c \in Nat, l \in Seq(Entries) :
          msg = [message_count |-> c, proof |-> P, revealed |-> l]
  BY <1>1 DEF Derived
<1>3. P' = P /\ DeriveAccepts(claims, header, reveal)'
  BY <1>1 DEF Derived, ProofOf, DeriveAccepts, verify
<1>4. \E d \in Nat, m \in Seq(Entries) :
          msg' = [message_count |-> d, proof |-> P', revealed |-> m]
  <2> HIDE DEF P
  <2> QED BY <1>2, <1>3
<1>5. original' = [msg |-> [message_count |-> Len(claims), proof |-> P',
                            revealed |-> RevealedList(claims, reveal)],
                   nonce |-> nonce]
  BY <1>1, <1>3 DEF Derived
<1>6. Derived(claims, header, reveal, nonce)'
  BY <1>3, <1>4, <1>5 DEF Derived
<1>7. InTransit'
  BY <1>6 DEF InTransit
<1> QED
  BY <1>7, RecordStays DEF IInv

(* The verifier writes its verdict on the message as it arrived.           *)
LEMMA JudgePreserves ==
    ASSUME IInv, NEW path \in {"struct", "bytes"}, NEW key \in Keys, NEW header \in Headers,
           NEW nonce \in Nonces, Judge(path, key, header, nonce)
    PROVE  IInv'
<1>1. /\ phase = "transit" /\ phase' = "judged"
      /\ UNCHANGED <<suite, issuer, cred, msg, original>>
  BY DEF Judge
<1>2. VerdictOn(path, key, header, nonce)'
  <2>1. /\ (Decoded(path))' = Decoded(path)
        /\ (Panics2023(msg))' = Panics2023(msg)
        /\ (VerifyProof(msg, key, header, nonce))' = VerifyProof(msg, key, header, nonce)
    BY <1>1 DEF Decoded, Panics2023, VerifyProof
  <2> QED
    BY <1>1, <2>1 DEF VerdictOn, Judge
<1>3. Judged'
  BY <1>2 DEF Judged
<1> QED
  BY <1>1, <1>3, RecordStays DEF IInv

(* The inductive invariant holds in every reachable state.                 *)
THEOREM Invariance == Spec => []IInv
<1>1. Init => IInv
  BY DEF Init, IInv
<1>2. IInv /\ [Next]_vars => IInv'
  <2> SUFFICES ASSUME IInv, [Next]_vars PROVE IInv'
    OBVIOUS
  <2>1. ASSUME NEW key \in Keys, NEW count \in 0..(MaxClaims + 1),
               GenerateKeypair(key, count)
        PROVE  IInv'
    BY <2>1 DEF GenerateKeypair, IInv
  <2>2. ASSUME NEW claims \in ClaimLists, NEW header \in Headers,
               SignCredential(claims, header)
        PROVE  IInv'
    <3>1. Signed'
      BY <2>2 DEF SignCredential, Signed, SignAccepts
    <3> QED
      BY <2>2, <3>1 DEF SignCredential, IInv
  <2>3. ASSUME NEW claims \in ClaimLists, NEW header \in Headers,
               NEW reveal \in SUBSET Indices, NEW nonce \in Nonces,
               DeriveProof(claims, header, reveal, nonce)
        PROVE  IInv'
    BY <2>3, DerivePreserves
  <2>4. ASSUME NEW count \in 0..(MaxClaims + 1), AlterCount(count)
        PROVE  IInv'
    <3>1. count \in Nat /\ <<>> \in Seq(Entries)
      BY BoundsAssumption
    <3> QED
      BY <2>4, <3>1, AlterPreserves DEF AlterCount
  <2>5. ASSUME NEW list \in EntryLists, AlterRevealed(list)
        PROVE  IInv'
    <3>1. PICK k \in 0..MaxListed : list \in [1..k -> Entries]
      BY DEF EntryLists, Entries
    <3>2. list \in Seq(Entries)
      BY <3>1, BoundsAssumption
    <3> QED
      BY <2>5, <3>2, AlterPreserves DEF AlterRevealed
  <2>6. ASSUME NEW path \in {"struct", "bytes"}, NEW key \in Keys, NEW header \in Headers,
               NEW nonce \in Nonces, Judge(path, key, header, nonce)
        PROVE  IInv'
    BY <2>6, JudgePreserves
  <2>7. CASE Reset
    BY <2>7 DEF Reset, IInv
  <2>8. CASE UNCHANGED vars
    <3>1. Judged => Judged'
      BY <2>8 DEF vars, Judged, VerdictOn, Decoded, Panics2023, VerifyProof
    <3> QED
      BY <2>8, <3>1, RecordStays DEF vars, IInv
  <2> QED
    BY <2>1, <2>2, <2>3, <2>4, <2>5, <2>6, <2>7, <2>8 DEF Next
<1> QED
  BY <1>1, <1>2, PTL DEF Spec
-----------------------------------------------------------------------------
(* The byte interfaces let no list through that names a claim twice, and   *)
(* only on such a list can the bbs-2023 backend panic.                     *)
THEOREM BytesNeverPanic == Spec => []BytesAreJudged
<1>1. IInv => BytesAreJudged
  <2> SUFFICES ASSUME IInv, phase = "judged", verdict.panicked
               PROVE  verdict.path = "struct" /\ suite = "bbs-2023"
    BY DEF BytesAreJudged
  <2>1. PICK path \in {"struct", "bytes"}, key \in Keys, header \in Headers,
             nonce \in Nonces : VerdictOn(path, key, header, nonce)
    BY DEF IInv, Judged
  <2>2. verdict.path = path /\ Decoded(path) /\ Panics2023(msg)
    BY <2>1 DEF VerdictOn
  <2>3. msg.revealed \in Seq(Entries)
    BY DEF IInv, InTransit, Derived
  <2> DEFINE list == msg.revealed
  <2>4. suite = "bbs-2023" /\ Cardinality(IndexSet(list)) < Len(list)
    BY <2>2 DEF Panics2023
  <2>5. ~Distinct(list)
    <3>1. Len(list) \in Nat
      BY <2>3
    <3> HIDE DEF list
    <3> QED
      BY <2>3, <2>4, <3>1, IndexSetSize DEF list
  <2>6. ~Increasing(list)
    BY <2>3, <2>5, IncreasingIsDistinct
  <2>7. path # "bytes"
    BY <2>2, <2>4, <2>6 DEF Decoded, DecodableList, Increasing
  <2> QED
    BY <2>2, <2>4, <2>7
<1> QED
  BY <1>1, Invariance, PTL

(* A verifier that accepts has recomputed the challenge of the proof the   *)
(* holder derived, over a list that names no claim twice.                  *)
LEMMA AcceptedIsDerived ==
    ASSUME IInv, Accepted
    PROVE  /\ AcceptedEntriesWereSigned
           /\ AcceptedListIsComplete
<1>1. PICK claims \in ClaimLists, header \in Headers, reveal \in SUBSET Indices,
           nonce \in Nonces : Derived(claims, header, reveal, nonce)
  BY DEF IInv, Accepted, InTransit
<1> DEFINE P == ProofOf(claims, header, reveal, nonce)
<1>2. PICK count \in Nat, list \in Seq(Entries) :
          msg = [message_count |-> count, proof |-> P, revealed |-> list]
  BY <1>1 DEF Derived
<1>3. /\ P.suite = suite /\ P.key = cred.key /\ P.sound = (claims = cred.claims)
      /\ P.challenge = Challenge(Len(claims), header, Shown(claims, reveal), nonce)
  BY DEF ProofOf
<1> HIDE DEF P
<1>4. msg.message_count = count /\ msg.proof = P /\ msg.revealed = list
  BY <1>2
<1>5. /\ DeriveAccepts(claims, header, reveal) /\ original.nonce = nonce
  BY <1>1 DEF Derived
<1>6. PICK path \in {"struct", "bytes"}, key \in Keys, h \in Headers, n \in Nonces :
          VerdictOn(path, key, h, n)
  BY DEF IInv, Accepted, Judged
<1>7. /\ verdict.key = key /\ verdict.header = h /\ verdict.nonce = n
      /\ suite = "phi-bbs-v1" => h = NoHeader
      /\ ~Panics2023(msg) /\ VerifyProof(msg, key, h, n)
  BY <1>6 DEF VerdictOn, Accepted
<1>8. suite = "phi-bbs-v1" \/ suite = "bbs-2023"
  BY DEF IInv, Suites
<1>9. Len(list) \in Nat
  OBVIOUS
<1>10. Cardinality(IndexSet(list)) = Len(list)
  <2>1. CASE suite = "phi-bbs-v1"
    BY <1>4, <1>7, <2>1 DEF VerifyProof, VerifyV1, EntriesAccepted
  <2>2. CASE suite = "bbs-2023"
    <3>1. InRange(msg)
      BY <1>7, <2>2 DEF VerifyProof, Verify2023
    <3>2. ~(Cardinality(IndexSet(list)) < Len(list))
      BY <1>4, <1>7, <2>2, <3>1 DEF Panics2023
    <3> QED
      BY <1>9, <3>2, IndexSetSize
  <2> QED
    BY <1>8, <2>1, <2>2
<1>11. /\ P.sound /\ P.key = key
       /\ P.challenge = Challenge(IF suite = "phi-bbs-v1" THEN count ELSE Total(msg), h,
                                  AsMap(list), n)
  <2>1. CASE suite = "phi-bbs-v1"
    BY <1>4, <1>7, <2>1 DEF VerifyProof, VerifyV1
  <2>2. CASE suite = "bbs-2023"
    BY <1>4, <1>7, <2>2 DEF VerifyProof, Verify2023
  <2> QED
    BY <1>8, <2>1, <2>2
<1>12. /\ claims = cred.claims /\ key = cred.key
       /\ Len(claims) = IF suite = "phi-bbs-v1" THEN count ELSE Total(msg)
       /\ header = h /\ nonce = n
       /\ Shown(claims, reveal) = AsMap(list)
  <2> DEFINE t == IF suite = "phi-bbs-v1" THEN count ELSE Total(msg)
  <2>1. Challenge(Len(claims), header, Shown(claims, reveal), nonce)
        = Challenge(t, h, AsMap(list), n)
    BY <1>3, <1>11
  <2> HIDE DEF t
  <2>2. Len(claims) = t /\ header = h /\ nonce = n /\ Shown(claims, reveal) = AsMap(list)
    BY <2>1 DEF Challenge
  <2> QED
    BY <1>3, <1>11, <2>2 DEF t
<1>13. h = cred.header
  <2>1. CASE suite = "phi-bbs-v1"
    <3>1. \E c, d : cred = [key |-> issuer, header |-> d, claims |-> c] /\ SignAccepts(c, d)
      BY DEF IInv, Accepted, Signed
    <3>2. cred.header = NoHeader
      BY <2>1, <3>1 DEF SignAccepts
    <3> QED
      BY <1>7, <2>1, <3>2
  <2>2. CASE suite = "bbs-2023"
    <3>1. cred = [key |-> cred.key, header |-> header, claims |-> claims]
      BY <1>5, <2>2 DEF DeriveAccepts, verify
    <3>2. cred.header = header
      BY <3>1
    <3> QED
      BY <1>12, <3>2
  <2> QED
    BY <1>8, <2>1, <2>2
<1>14. ASSUME NEW k \in DOMAIN list
       PROVE  /\ list[k].idx + 1 \in DOMAIN cred.claims
              /\ list[k].claim = cred.claims[list[k].idx + 1]
  <2>1. AsMap(list)[list[k].idx] = list[k].claim
    BY <1>10, IndexSetSize, AsMapKeepsEntries
  <2>2. list[k].idx \in reveal
    <3>1. DOMAIN AsMap(list) = IndexSet(list) /\ DOMAIN Shown(claims, reveal) = reveal
      BY DEF AsMap, Shown
    <3>2. list[k].idx \in IndexSet(list)
      BY DEF IndexSet
    <3> QED
      BY <1>12, <3>1, <3>2
  <2>3. list[k].claim = claims[list[k].idx + 1]
    BY <1>12, <2>1, <2>2 DEF Shown
  <2>4. reveal \subseteq 0..(Len(claims) - 1)
    BY <1>5 DEF DeriveAccepts
  <2>5. DOMAIN claims = 1..Len(claims) /\ Len(claims) \in Nat
    <3>1. PICK m \in 0..MaxClaims : claims \in [1..m -> Claims]
      BY DEF ClaimLists
    <3>2. claims \in Seq(Claims)
      BY <3>1, BoundsAssumption
    <3> QED
      BY <3>2
  <2>6. list[k].idx + 1 \in 1..Len(claims)
    <3>1. \A i \in reveal : i + 1 \in 1..Len(claims)
      BY <2>4, <2>5
    <3> QED
      BY <2>2, <3>1
  <2> QED
    BY <1>12, <2>3, <2>5, <2>6
<1>15. AcceptedEntriesWereSigned
  BY <1>4, <1>5, <1>7, <1>12, <1>13, <1>14 DEF AcceptedEntriesWereSigned
<1>16. AcceptedListIsComplete
  <2>1. P.challenge.shown = Shown(claims, reveal)
    BY <1>3 DEF Challenge
  <2> QED
    BY <1>4, <1>10, <1>12, <2>1 DEF AcceptedListIsComplete
<1> QED
  BY <1>15, <1>16

(* Every entry a verifier accepts is a claim its issuer signed, at that    *)
(* index, under its header and for its nonce, in both suites.              *)
THEOREM AcceptedEntriesAreSigned == Spec => []AcceptedEntriesWereSigned
<1>1. IInv => AcceptedEntriesWereSigned
  BY AcceptedIsDerived DEF AcceptedEntriesWereSigned
<1> QED
  BY <1>1, Invariance, PTL

(* A relay that drops, adds or repeats an entry, or changes the claim      *)
(* count under phi-bbs-v1, is found out.                                   *)
THEOREM AcceptedListsAreComplete == Spec => []AcceptedListIsComplete
<1>1. IInv => AcceptedListIsComplete
  BY AcceptedIsDerived DEF AcceptedListIsComplete
<1> QED
  BY <1>1, Invariance, PTL
-----------------------------------------------------------------------------
(* A proof derived from the signed claims and carried unaltered passes     *)
(* every test a verifier makes of it, in either suite: no index is out of  *)
(* range or out of order, and the challenge is the one it answers.         *)
LEMMA UntouchedVerifies ==
    ASSUME IInv, phase = "judged", Untouched
    PROVE  /\ ~Panics2023(msg)
           /\ suite = "phi-bbs-v1" => Decodable(msg)
           /\ suite = "bbs-2023" /\ Len(msg.revealed) <= MAX_BBS_MESSAGES
              => DecodableList(msg.revealed)
           /\ VerifyProof(msg, msg.proof.key, cred.header, original.nonce)
<1>1. PICK claims \in ClaimLists, header \in Headers, reveal \in SUBSET Indices,
           nonce \in Nonces : Derived(claims, header, reveal, nonce)
  BY DEF IInv, InTransit
<1> DEFINE P == ProofOf(claims, header, reveal, nonce)
           L == RevealedList(claims, reveal)
           c == Len(claims)
<1>2. /\ DeriveAccepts(claims, header, reveal)
      /\ original.nonce = nonce
      /\ original.msg = [message_count |-> c, proof |-> P, revealed |-> L]
  BY <1>1 DEF Derived
<1>3. /\ P.suite = suite /\ P.key = cred.key /\ P.sound = (claims = cred.claims)
      /\ P.hidden = c - Cardinality(reveal)
      /\ P.challenge = Challenge(c, header, Shown(claims, reveal), nonce)
  BY DEF ProofOf
<1>4. /\ L \in Seq(Entries) /\ Len(L) = Cardinality(reveal) /\ Len(L) \in Nat
      /\ Len(L) <= c /\ c \in Nat /\ Increasing(L)
      /\ IndexSet(L) = reveal /\ AsMap(L) = Shown(claims, reveal)
  BY <1>2, RevealedListIsReveal DEF DeriveAccepts
<1>5. \A k \in DOMAIN L : L[k].idx < c
  <2>1. \A i \in reveal : i < c
    BY <1>2, <1>4 DEF DeriveAccepts
  <2>2. \A k \in DOMAIN L : L[k].idx \in reveal
    BY <1>4 DEF IndexSet
  <2> QED
    BY <2>1, <2>2
<1> HIDE DEF P, L, c
<1>6. msg.message_count = c /\ msg.proof = P /\ msg.revealed = L /\ P.sound
  BY <1>2 DEF Untouched
<1>7. Cardinality(IndexSet(L)) = Len(L)
  BY <1>4, IndexSetSize, IncreasingIsDistinct
<1>8. ~Panics2023(msg)
  BY <1>4, <1>6, <1>7 DEF Panics2023
<1>9. PICK sc \in ClaimLists, sh \in Headers :
          /\ cred = [key |-> issuer, header |-> sh, claims |-> sc]
          /\ SignAccepts(sc, sh)
  BY DEF IInv, Signed
<1>10. cred.header = sh /\ cred.claims = sc
  BY <1>9
<1>11. header = cred.header
  <2>1. CASE suite = "phi-bbs-v1"
    BY <1>2, <1>9, <1>10, <2>1 DEF DeriveAccepts, SignAccepts
  <2>2. CASE suite = "bbs-2023"
    <3>1. cred = [key |-> cred.key, header |-> header, claims |-> claims]
      BY <1>2, <2>2 DEF DeriveAccepts, verify
    <3> QED
      BY <3>1
  <2> QED
    BY <2>1, <2>2 DEF IInv, Suites
<1>12. ASSUME suite = "phi-bbs-v1"
       PROVE  Decodable(msg) /\ VerifyV1(msg, P.key, nonce)
  <2>1. c \in 1..MAX_BBS_MESSAGES /\ header = NoHeader
    BY <1>2, <1>12 DEF DeriveAccepts, c
  <2>2. Decodable(msg)
    BY <1>4, <1>5, <1>6, <2>1 DEF Decodable, Increasing
  <2>3. message_count_in_range(msg.message_count, Len(msg.revealed))
    BY <1>4, <1>6, <2>1, BoundsAssumption DEF message_count_in_range
  <2>4. EntriesAccepted(msg)
    BY <1>5, <1>6, <1>7 DEF EntriesAccepted
  <2> QED
    BY <1>3, <1>4, <1>6, <1>12, <2>1, <2>2, <2>3, <2>4 DEF VerifyV1
<1>13. ASSUME suite = "bbs-2023"
       PROVE  /\ Len(msg.revealed) <= MAX_BBS_MESSAGES => DecodableList(msg.revealed)
              /\ Verify2023(msg, P.key, cred.header, nonce)
  <2>1. Total(msg) = c
    BY <1>3, <1>4, <1>6 DEF Total
  <2>2. Len(msg.revealed) <= MAX_BBS_MESSAGES => DecodableList(msg.revealed)
    BY <1>4, <1>6 DEF DecodableList, Increasing
  <2>3. c # 0 \/ cred.header # NoHeader
    <3>1. claims = sc
      BY <1>3, <1>6, <1>10
    <3> QED
      BY <1>9, <1>10, <3>1 DEF SignAccepts, c
  <2>4. InRange(msg)
    BY <1>5, <1>6, <2>1 DEF InRange
  <2>5. msg.proof.challenge = Challenge(Total(msg), cred.header, AsMap(msg.revealed), nonce)
    BY <1>3, <1>4, <1>6, <1>11, <2>1
  <2> QED
    BY <1>3, <1>6, <1>13, <2>1, <2>2, <2>3, <2>4, <2>5 DEF Verify2023
<1>14. VerifyProof(msg, msg.proof.key, cred.header, original.nonce)
  BY <1>2, <1>6, <1>12, <1>13 DEF VerifyProof, IInv, Suites
<1> QED
  BY <1>8, <1>12, <1>13, <1>14

(* No honest holder is refused: of a proof from the signed claims, under   *)
(* the issuer's key and header and for its nonce, the verdict is accept.   *)
THEOREM HonestProofsAreAccepted == Spec => []HonestProofsVerify
<1>1. IInv => HonestProofsVerify
  <2> SUFFICES ASSUME IInv, phase = "judged", Untouched,
                      verdict.path = "bytes" => Len(msg.revealed) <= MAX_BBS_MESSAGES,
                      verdict.key = msg.proof.key,
                      verdict.header = cred.header,
                      verdict.nonce = original.nonce
               PROVE  verdict.ok
    BY DEF HonestProofsVerify
  <2>1. PICK path \in {"struct", "bytes"}, key \in Keys, h \in Headers, n \in Nonces :
            VerdictOn(path, key, h, n)
    BY DEF IInv, Judged
  <2>2. /\ verdict.path = path
        /\ verdict.key = key /\ verdict.header = h /\ verdict.nonce = n
        /\ verdict.ok = (Decoded(path) /\ ~Panics2023(msg) /\ VerifyProof(msg, key, h, n))
    BY <2>1 DEF VerdictOn
  <2>3. ~Panics2023(msg) /\ VerifyProof(msg, key, h, n)
    BY <2>2, UntouchedVerifies
  <2>4. Decoded(path)
    BY <2>2, UntouchedVerifies DEF Decoded, IInv, Suites
  <2> QED
    BY <2>2, <2>3, <2>4
<1> QED
  BY <1>1, Invariance, PTL
=============================================================================
