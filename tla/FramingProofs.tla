--------------------------- MODULE FramingProofs ---------------------------
(***************************************************************************)
(* How byte strings are put together from parts, for any parts of any      *)
(* length: what FlattenSeq computes, on which the proofs about both codecs *)
(* rest (WireDecoderProofs, BoundaryProofs); and that the framing of       *)
(* Transcript is unambiguous, so that two different ballots are never      *)
(* hashed as the same bytes.                                               *)
(***************************************************************************)
EXTENDS Transcript, SequencesExt, SequenceTheorems, WellFoundedInduction, TLAPS

(* Induction over the naturals, for a set.                                 *)
LEMMA NatSetInduction ==
    ASSUME NEW T, 0 \in T, \A k \in Nat : k \in T => k + 1 \in T
    PROVE  \A k \in Nat : k \in T
<1> DEFINE R == {p \in Nat \X Nat : p[1] < p[2]}
           U == {k \in Nat : k \notin T}
<1>1. R = OpToRel(<, Nat)
  BY DEF OpToRel
<1>2. IsWellFoundedOn(R, Nat)
  <2> HIDE DEF R
  <2> QED BY <1>1, NatLessThanWellFounded
<1>3. SUFFICES ASSUME U # {} PROVE FALSE
  OBVIOUS
<1>4. PICK x \in U : \A y \in U : ~(<<y, x>> \in R)
  <2>1. U \subseteq Nat
    OBVIOUS
  <2> HIDE DEF R, U
  <2> QED BY <1>2, <1>3, <2>1, WFMin
<1>5. x # 0 /\ x \in Nat /\ x - 1 \in Nat
  OBVIOUS
<1>6. x - 1 \in U
  BY <1>5
<1>7. <<x - 1, x>> \in R
  BY <1>5
<1> QED
  <2> HIDE DEF R, U
  <2> QED BY <1>4, <1>6, <1>7

(* What FlattenSeq's local function computes: the first k parts joined.    *)
Joins(f, ss) ==
    \A i \in 1..Len(ss) : f[i] = IF i = 1 THEN ss[i] ELSE f[i-1] \o ss[i]

(* There is such a function, so FlattenSeq's CHOOSE finds one.             *)
LEMMA JoinExists ==
    ASSUME NEW S, NEW ss \in Seq(Seq(S))
    PROVE  \E f \in [1..Len(ss) -> Seq(S)] : Joins(f, ss)
<1> DEFINE Upto(f, k) == \A i \in 1..k : f[i] = IF i = 1 THEN ss[i] ELSE f[i-1] \o ss[i]
           Ok(k) == k <= Len(ss) => \E f \in [1..k -> Seq(S)] : Upto(f, k)
           T == {k \in Nat : Ok(k)}
<1>0. Len(ss) \in Nat /\ \A i \in 1..Len(ss) : ss[i] \in Seq(S)
  OBVIOUS
<1>1. 0 \in T
  <2>1. [i \in 1..0 |-> <<>>] \in [1..0 -> Seq(S)] /\ \A f : Upto(f, 0)
    OBVIOUS
  <2> QED BY <2>1
<1>2. ASSUME NEW k \in Nat, k \in T PROVE k + 1 \in T
  <2>0. SUFFICES ASSUME k + 1 <= Len(ss)
                 PROVE  \E f \in [1..(k + 1) -> Seq(S)] : Upto(f, k + 1)
    <3>1. SUFFICES Ok(k + 1)
      <4> HIDE DEF Ok
      <4> QED OBVIOUS
    <3> HIDE DEF Upto
    <3> QED BY <2>0
  <2>1. PICK f \in [1..k -> Seq(S)] : Upto(f, k)
    <3>1. Ok(k)
      BY <1>2
    <3>2. k <= Len(ss)
      BY <1>0, <2>0
    <3> HIDE DEF Upto
    <3> QED BY <3>1, <3>2
  <2> DEFINE last == IF k = 0 THEN ss[1] ELSE f[k] \o ss[k + 1]
             g == [i \in 1..(k + 1) |-> IF i = k + 1 THEN last ELSE f[i]]
  <2>2. last \in Seq(S)
    <3>1. ss[k + 1] \in Seq(S) /\ ss[1] \in Seq(S)
      BY <1>0, <2>0
    <3>2. k # 0 => f[k] \in Seq(S)
      OBVIOUS
    <3> QED BY <3>1, <3>2
  <2>3. \A i \in 1..k : f[i] \in Seq(S)
    OBVIOUS
  <2> HIDE DEF last
  <2>4. g \in [1..(k + 1) -> Seq(S)]
    BY <2>2, <2>3
  <2>5. \A i \in 1..k : g[i] = f[i]
    OBVIOUS
  <2>6. g[k + 1] = last
    OBVIOUS
  <2> HIDE DEF g
  <2>7. ASSUME NEW i \in 1..(k + 1)
        PROVE  g[i] = IF i = 1 THEN ss[i] ELSE g[i-1] \o ss[i]
    <3>1. CASE i \in 1..k
      <4>1. g[i] = f[i] /\ (i # 1 => g[i - 1] = f[i - 1])
        BY <3>1, <2>5
      <4> QED BY <3>1, <4>1, <2>1
    <3>2. CASE i = k + 1
      <4>1. k # 0 => g[k] = f[k]
        BY <2>5
      <4> QED BY <3>2, <4>1, <2>6 DEF last
    <3> QED BY <3>1, <3>2
  <2> QED BY <2>4, <2>7
<1>3. \A k \in Nat : k \in T
  <2> HIDE DEF T
  <2> QED BY <1>1, <1>2, NatSetInduction
<1>4. Len(ss) \in T
  <2> HIDE DEF T
  <2> QED BY <1>0, <1>3
<1> QED
  BY <1>0, <1>4 DEF Joins

(* ss is a prefix of tt.                                                   *)
Prefix(ss, tt) == Len(ss) <= Len(tt) /\ \A i \in 1..Len(ss) : ss[i] = tt[i]

Agree(f, g, k) == \A i \in 1..k : f[i] = g[i]

(* Only one function joins the parts, so joining a prefix of ss gives the  *)
(* same values as joining ss.                                              *)
LEMMA JoinsAgree ==
    ASSUME NEW S, NEW ss \in Seq(Seq(S)), NEW tt \in Seq(Seq(S)), NEW f, NEW g,
           Joins(f, ss), Joins(g, tt), Prefix(ss, tt)
    PROVE  Agree(f, g, Len(ss))
<1> DEFINE T == {k \in Nat : k \in 1..Len(ss) => f[k] = g[k]}
<1>0. /\ Len(ss) \in Nat /\ Len(tt) \in Nat /\ Len(ss) <= Len(tt)
      /\ \A i \in 1..Len(ss) : ss[i] = tt[i]
  BY DEF Prefix
<1>1. 0 \in T
  OBVIOUS
<1>2. ASSUME NEW k \in Nat, k \in T PROVE k + 1 \in T
  <2> SUFFICES ASSUME k + 1 \in 1..Len(ss) PROVE f[k + 1] = g[k + 1]
    OBVIOUS
  <2>1. /\ f[k + 1] = IF k + 1 = 1 THEN ss[k + 1] ELSE f[(k + 1) - 1] \o ss[k + 1]
        /\ g[k + 1] = IF k + 1 = 1 THEN tt[k + 1] ELSE g[(k + 1) - 1] \o tt[k + 1]
    <3>1. k + 1 \in 1..Len(ss) /\ k + 1 \in 1..Len(tt)
      BY <1>0
    <3> QED BY <3>1 DEF Joins
  <2>2. (k + 1) - 1 = k /\ (k # 0 => f[k] = g[k]) /\ ss[k + 1] = tt[k + 1]
    BY <1>0, <1>2
  <2> QED BY <2>1, <2>2
<1>3. \A k \in Nat : k \in T
  <2> HIDE DEF T
  <2> QED BY <1>1, <1>2, NatSetInduction
<1> QED
  BY <1>3 DEF Agree

(* FlattenSeq is the last value of a function that joins the parts.        *)
LEMMA FlattenJoins ==
    ASSUME NEW S, NEW ss \in Seq(Seq(S)), Len(ss) # 0
    PROVE  \E f \in [1..Len(ss) -> Seq(S)] : Joins(f, ss) /\ FlattenSeq(ss) = f[Len(ss)]
<1> DEFINE Def(f) == f = [i \in 1..Len(ss) |-> IF i = 1 THEN ss[i] ELSE f[i-1] \o ss[i]]
           h == CHOOSE f : Def(f)
<1>1. FlattenSeq(ss) = h[Len(ss)]
  BY DEF FlattenSeq
<1>2. PICK f \in [1..Len(ss) -> Seq(S)] : Joins(f, ss)
  BY JoinExists
<1>3. Def(f)
  BY <1>2 DEF Joins
<1>4. Def(h)
  <2> HIDE DEF Def
  <2> QED BY <1>3
<1> HIDE DEF h
<1>5. Joins(h, ss) /\ DOMAIN h = 1..Len(ss) /\ h = [i \in 1..Len(ss) |-> h[i]]
  BY <1>4 DEF Joins
<1>6. \A i \in 1..Len(ss) : h[i] = f[i]
  <2>1. Joins(h, ss) /\ Joins(f, ss) /\ Prefix(ss, ss)
    BY <1>2, <1>5 DEF Prefix
  <2>2. Agree(h, f, Len(ss))
    BY <2>1, JoinsAgree
  <2> QED BY <2>2 DEF Agree
<1>7. h \in [1..Len(ss) -> Seq(S)]
  BY <1>5, <1>6
<1> QED
  BY <1>1, <1>5, <1>7

(* Flattening one more part appends it.                                    *)
LEMMA FlattenAppend ==
    ASSUME NEW S, NEW ss \in Seq(Seq(S)), NEW s \in Seq(S)
    PROVE  /\ FlattenSeq(ss) \in Seq(S)
           /\ FlattenSeq(Append(ss, s)) = FlattenSeq(ss) \o s
<1> DEFINE tt == Append(ss, s)
<1>1. /\ tt \in Seq(Seq(S)) /\ Len(tt) = Len(ss) + 1 /\ tt[Len(ss) + 1] = s
      /\ \A i \in 1..Len(ss) : tt[i] = ss[i]
      /\ Len(ss) \in Nat
  OBVIOUS
<1> HIDE DEF tt
<1>2. PICK g \in [1..Len(tt) -> Seq(S)] : Joins(g, tt) /\ FlattenSeq(tt) = g[Len(tt)]
  <2>1. Len(tt) # 0
    BY <1>1
  <2> QED BY <1>1, <2>1, FlattenJoins
<1>3. CASE Len(ss) = 0
  <2>1. FlattenSeq(ss) = ss /\ ss = <<>>
    BY <1>3 DEF FlattenSeq
  <2>2. FlattenSeq(tt) = s
    BY <1>1, <1>2, <1>3 DEF Joins
  <2> QED BY <2>1, <2>2 DEF tt
<1>4. CASE Len(ss) # 0
  <2>1. PICK f \in [1..Len(ss) -> Seq(S)] : Joins(f, ss) /\ FlattenSeq(ss) = f[Len(ss)]
    BY <1>4, FlattenJoins
  <2>2. f[Len(ss)] = g[Len(ss)] /\ f[Len(ss)] \in Seq(S)
    <3>1. Joins(f, ss) /\ Joins(g, tt) /\ Prefix(ss, tt)
      BY <1>1, <1>2, <2>1 DEF Prefix
    <3>2. Agree(f, g, Len(ss))
      BY <1>1, <3>1, JoinsAgree
    <3>3. \A i \in 1..Len(ss) : f[i] = g[i]
      BY <3>2 DEF Agree
    <3> QED BY <1>1, <1>4, <3>3
  <2>3. g[Len(ss) + 1] = g[Len(ss)] \o s
    <3>1. Len(ss) + 1 \in 1..Len(tt) /\ Len(ss) + 1 # 1 /\ (Len(ss) + 1) - 1 = Len(ss)
      BY <1>1, <1>4
    <3>2. g[Len(ss) + 1] = IF Len(ss) + 1 = 1 THEN tt[Len(ss) + 1]
                           ELSE g[(Len(ss) + 1) - 1] \o tt[Len(ss) + 1]
      BY <1>2, <3>1 DEF Joins
    <3> QED BY <1>1, <3>1, <3>2
  <2> QED BY <1>1, <1>2, <2>1, <2>2, <2>3 DEF tt
<1> QED
  BY <1>3, <1>4

LEMMA FlattenEmpty == FlattenSeq(<<>>) = <<>>
BY DEF FlattenSeq

(* Appending after a concatenation appends to its second part.             *)
LEMMA ConcatAppend ==
    ASSUME NEW S, NEW s \in Seq(S), NEW t \in Seq(S), NEW e \in S
    PROVE  s \o Append(t, e) = Append(s \o t, e)
<1>1. Append(t, e) = t \o <<e>> /\ <<e>> \in Seq(S) /\ s \o t \in Seq(S)
  BY AppendIsConcat, ConcatProperties
<1>2. Append(s \o t, e) = (s \o t) \o <<e>>
  BY <1>1, AppendIsConcat
<1>3. (s \o t) \o <<e>> = s \o (t \o <<e>>)
  BY <1>1, ConcatAssociative
<1> QED
  BY <1>1, <1>2, <1>3

(* Flattening distributes over concatenation.                              *)
LEMMA FlattenConcat ==
    ASSUME NEW S, NEW ss \in Seq(Seq(S)), NEW tt \in Seq(Seq(S))
    PROVE  FlattenSeq(ss \o tt) = FlattenSeq(ss) \o FlattenSeq(tt)
<1> DEFINE To(k) == SubSeq(tt, 1, k)
           Ok(k) == k <= Len(tt) => FlattenSeq(ss \o To(k)) = FlattenSeq(ss) \o FlattenSeq(To(k))
           T == {k \in Nat : Ok(k)}
<1>0. /\ Len(tt) \in Nat /\ FlattenSeq(ss) \in Seq(S)
      /\ \A k \in 0..Len(tt) : To(k) \in Seq(Seq(S))
  <2>1. <<>> \in Seq(S)
    OBVIOUS
  <2>2. FlattenSeq(ss) \in Seq(S)
    BY <2>1, FlattenAppend
  <2> QED BY <2>2
<1>1. 0 \in T
  <2>1. To(0) = <<>> /\ ss \o <<>> = ss
    OBVIOUS
  <2>2. FlattenSeq(ss) \o <<>> = FlattenSeq(ss)
    BY <1>0
  <2>3. Ok(0)
    <3> HIDE DEF To
    <3> QED BY <2>1, <2>2, FlattenEmpty
  <2> QED BY <2>3
<1>2. ASSUME NEW k \in Nat, k \in T PROVE k + 1 \in T
  <2>0. SUFFICES ASSUME k + 1 <= Len(tt)
                 PROVE  FlattenSeq(ss \o To(k + 1)) = FlattenSeq(ss) \o FlattenSeq(To(k + 1))
    <3>1. SUFFICES Ok(k + 1)
      <4> HIDE DEF Ok
      <4> QED OBVIOUS
    <3> QED BY <2>0
  <2>1. Ok(k) /\ k <= Len(tt) /\ k \in 0..Len(tt) /\ k + 1 \in 1..Len(tt)
    BY <1>0, <1>2, <2>0
  <2>2. tt[k + 1] \in Seq(S) /\ To(k) \in Seq(Seq(S)) /\ ss \o To(k) \in Seq(Seq(S))
    BY <1>0, <2>1
  <2>3. To(k + 1) = Append(To(k), tt[k + 1])
    BY <2>1, <2>2
  <2>4. ss \o Append(To(k), tt[k + 1]) = Append(ss \o To(k), tt[k + 1])
    <3> DEFINE Part == Seq(S)
               t == To(k)
               e == tt[k + 1]
    <3>1. ss \in Seq(Part) /\ t \in Seq(Part) /\ e \in Part
      BY <2>2
    <3> HIDE DEF Part, t, e
    <3>2. ss \o Append(t, e) = Append(ss \o t, e)
      BY <3>1, ConcatAppend
    <3> QED BY <3>2 DEF t, e
  <2> HIDE DEF To
  <2>5. FlattenSeq(Append(ss \o To(k), tt[k + 1])) = FlattenSeq(ss \o To(k)) \o tt[k + 1]
    BY <2>2, FlattenAppend
  <2>6. FlattenSeq(Append(To(k), tt[k + 1])) = FlattenSeq(To(k)) \o tt[k + 1]
        /\ FlattenSeq(To(k)) \in Seq(S)
    BY <2>2, FlattenAppend
  <2>7. FlattenSeq(ss \o To(k)) = FlattenSeq(ss) \o FlattenSeq(To(k))
    BY <2>1
  <2>8. (FlattenSeq(ss) \o FlattenSeq(To(k))) \o tt[k + 1]
        = FlattenSeq(ss) \o (FlattenSeq(To(k)) \o tt[k + 1])
    <3> DEFINE a == FlattenSeq(ss)
               b == FlattenSeq(To(k))
               c == tt[k + 1]
    <3>1. a \in Seq(S) /\ b \in Seq(S) /\ c \in Seq(S)
      BY <1>0, <2>2, <2>6
    <3> HIDE DEF a, b, c
    <3>2. (a \o b) \o c = a \o (b \o c)
      BY <3>1, ConcatAssociative
    <3> QED BY <3>2 DEF a, b, c
  <2> QED
    BY <2>3, <2>4, <2>5, <2>6, <2>7, <2>8
<1>3. \A k \in Nat : k \in T
  <2> HIDE DEF T
  <2> QED BY <1>1, <1>2, NatSetInduction
<1>4. Ok(Len(tt))
  <2> HIDE DEF Ok
  <2> QED BY <1>0, <1>3
<1>5. To(Len(tt)) = tt
  OBVIOUS
<1> QED
  <2> HIDE DEF To
  <2> QED BY <1>0, <1>4, <1>5
-----------------------------------------------------------------------------
(* The framed string stays a byte string, whose parts sit where they should. *)
LEMMA FramedParts ==
    ASSUME NEW a \in ByteStrings, NEW s \in ByteStrings
    PROVE  /\ Framed(a, s) \in ByteStrings
           /\ Len(Framed(a, s)) = 1 + Len(a) + Len(s)
           /\ Framed(a, s)[1] = Len(a)
           /\ \A i \in 1..Len(a) : Framed(a, s)[i + 1] = a[i]
           /\ \A i \in 1..Len(s) : Framed(a, s)[i + 1 + Len(a)] = s[i]
BY DEF Framed, ByteStrings

(* A length word tells where the string it frames ends.                    *)
LEMMA FramedInjective ==
    ASSUME NEW a \in ByteStrings, NEW b \in ByteStrings, NEW s \in ByteStrings, NEW t \in ByteStrings,
           Framed(a, s) = Framed(b, t)
    PROVE  a = b /\ s = t
<1> DEFINE u == Framed(a, s)
<1>1. /\ u[1] = Len(a) /\ Len(u) = 1 + Len(a) + Len(s)
      /\ \A i \in 1..Len(a) : u[i + 1] = a[i]
      /\ \A i \in 1..Len(s) : u[i + 1 + Len(a)] = s[i]
  BY FramedParts
<1>2. /\ u[1] = Len(b) /\ Len(u) = 1 + Len(b) + Len(t)
      /\ \A i \in 1..Len(b) : u[i + 1] = b[i]
      /\ \A i \in 1..Len(t) : u[i + 1 + Len(b)] = t[i]
  <2> DEFINE v == Framed(b, t)
  <2>1. /\ v[1] = Len(b) /\ Len(v) = 1 + Len(b) + Len(t)
        /\ \A i \in 1..Len(b) : v[i + 1] = b[i]
        /\ \A i \in 1..Len(t) : v[i + 1 + Len(b)] = t[i]
    BY FramedParts
  <2>2. u = v
    OBVIOUS
  <2> HIDE DEF u, v
  <2> QED
    BY <2>1, <2>2
<1> HIDE DEF u
<1>3. Len(a) \in Nat /\ Len(b) \in Nat /\ Len(s) \in Nat /\ Len(t) \in Nat
  BY DEF ByteStrings
<1>4. Len(a) = Len(b) /\ Len(s) = Len(t)
  BY <1>1, <1>2, <1>3
<1>5. \A i \in 1..Len(a) : a[i] = b[i]
  BY <1>1, <1>2, <1>4
<1>6. \A i \in 1..Len(s) : s[i] = t[i]
  BY <1>1, <1>2, <1>4
<1>7. a = b
  BY <1>4, <1>5, SeqEqual DEF ByteStrings
<1>8. s = t
  BY <1>4, <1>6, SeqEqual DEF ByteStrings
<1> QED
  BY <1>7, <1>8

(* A tag in front changes nothing.                                         *)
LEMMA TaggedInjective ==
    ASSUME NEW tag \in Nat, NEW s \in ByteStrings, NEW t \in ByteStrings,
           <<tag>> \o s = <<tag>> \o t
    PROVE  s = t
<1>1. /\ Len(<<tag>> \o s) = Len(s) + 1 /\ Len(<<tag>> \o t) = Len(t) + 1
      /\ \A i \in 1..Len(s) : (<<tag>> \o s)[i + 1] = s[i]
      /\ \A i \in 1..Len(t) : (<<tag>> \o t)[i + 1] = t[i]
  BY DEF ByteStrings
<1>2. Len(s) = Len(t)
  BY <1>1 DEF ByteStrings
<1>3. \A i \in 1..Len(s) : s[i] = t[i]
  BY <1>1, <1>2
<1> QED
  BY <1>2, <1>3, SeqEqual DEF ByteStrings

(* What a ballot context names.                                            *)
Contexts == [chain : ByteStrings, election : ByteStrings, null : ByteStrings, signal : ByteStrings]

(* Different ballots of a composed vote have different contexts, whatever  *)
(* bytes the chain, election, option and nullifier are made of ("a relay   *)
(* cannot re-tag the proof", bind_context in voting_snark.rs).             *)
THEOREM BindContextInjective ==
    ASSUME NEW x \in Contexts, NEW y \in Contexts,
           bind_context(x.chain, x.election, x.null, x.signal)
           = bind_context(y.chain, y.election, y.null, y.signal)
    PROVE  x = y
<1> DEFINE c1 == x.chain  e1 == x.election  n1 == x.null  s1 == x.signal
           c2 == y.chain  e2 == y.election  n2 == y.null  s2 == y.signal
<1>0. /\ c1 \in ByteStrings /\ e1 \in ByteStrings /\ n1 \in ByteStrings /\ s1 \in ByteStrings
      /\ c2 \in ByteStrings /\ e2 \in ByteStrings /\ n2 \in ByteStrings /\ s2 \in ByteStrings
      /\ bind_context(c1, e1, n1, s1) = bind_context(c2, e2, n2, s2)
  BY DEF Contexts
<1> HIDE DEF c1, e1, n1, s1, c2, e2, n2, s2
<1> DEFINE N(n) == Framed(n, <<>>)
           S(s, n) == Framed(s, N(n))
           E(e, s, n) == Framed(e, S(s, n))
           C(c, e, s, n) == Framed(c, E(e, s, n))
<1>1. <<>> \in ByteStrings /\ BIND_DOMAIN \in Nat
  BY DEF ByteStrings, BIND_DOMAIN
<1>2. /\ N(n1) \in ByteStrings /\ N(n2) \in ByteStrings
  BY <1>0, <1>1, FramedParts
<1>3. S(s1, n1) \in ByteStrings /\ S(s2, n2) \in ByteStrings
  <2> HIDE DEF N
  <2> QED BY <1>0, <1>2, FramedParts
<1>4. E(e1, s1, n1) \in ByteStrings /\ E(e2, s2, n2) \in ByteStrings
  <2> HIDE DEF S
  <2> QED BY <1>0, <1>3, FramedParts
<1>5. C(c1, e1, s1, n1) \in ByteStrings /\ C(c2, e2, s2, n2) \in ByteStrings
  <2> HIDE DEF E
  <2> QED BY <1>0, <1>4, FramedParts
<1>6. <<BIND_DOMAIN>> \o C(c1, e1, s1, n1) = <<BIND_DOMAIN>> \o C(c2, e2, s2, n2)
  BY <1>0 DEF bind_context
<1>7. C(c1, e1, s1, n1) = C(c2, e2, s2, n2)
  <2> HIDE DEF C
  <2> QED BY <1>1, <1>5, <1>6, TaggedInjective
<1>8. c1 = c2 /\ E(e1, s1, n1) = E(e2, s2, n2)
  <2> HIDE DEF E
  <2> QED BY <1>0, <1>4, <1>7, FramedInjective
<1>9. e1 = e2 /\ S(s1, n1) = S(s2, n2)
  <2> HIDE DEF S
  <2> QED BY <1>0, <1>3, <1>8, FramedInjective
<1>10. s1 = s2 /\ N(n1) = N(n2)
  <2> HIDE DEF N
  <2> QED BY <1>0, <1>2, <1>9, FramedInjective
<1>11. n1 = n2
  BY <1>0, <1>1, <1>10, FramedInjective
<1> QED
  BY <1>8, <1>9, <1>10, <1>11 DEF Contexts, c1, e1, n1, s1, c2, e2, n2, s2

(* What a ballot nonce names.                                              *)
Nonces == [election : ByteStrings, null : ByteStrings, signal : ByteStrings]

(* A Semaphore ballot's nonce determines its election, nullifier and       *)
(* option, although the nullifier itself is not framed (bind_nonce).       *)
THEOREM BindNonceInjective ==
    ASSUME NEW x \in Nonces, NEW y \in Nonces,
           bind_nonce(x.election, x.null, x.signal) = bind_nonce(y.election, y.null, y.signal)
    PROVE  x = y
<1> DEFINE e1 == x.election  n1 == x.null  s1 == x.signal
           e2 == y.election  n2 == y.null  s2 == y.signal
<1>0. /\ e1 \in ByteStrings /\ n1 \in ByteStrings /\ s1 \in ByteStrings
      /\ e2 \in ByteStrings /\ n2 \in ByteStrings /\ s2 \in ByteStrings
      /\ bind_nonce(e1, n1, s1) = bind_nonce(e2, n2, s2)
  BY DEF Nonces
<1> HIDE DEF e1, n1, s1, e2, n2, s2
<1> DEFINE S(s, n) == Framed(s, n)
           E(e, s, n) == Framed(e, S(s, n))
<1>1. VOTE_BIND_TAG \in Nat
  BY DEF VOTE_BIND_TAG
<1>2. S(s1, n1) \in ByteStrings /\ S(s2, n2) \in ByteStrings
  BY <1>0, FramedParts
<1>3. E(e1, s1, n1) \in ByteStrings /\ E(e2, s2, n2) \in ByteStrings
  <2> HIDE DEF S
  <2> QED BY <1>0, <1>2, FramedParts
<1>4. <<VOTE_BIND_TAG>> \o E(e1, s1, n1) = <<VOTE_BIND_TAG>> \o E(e2, s2, n2)
  BY <1>0 DEF bind_nonce
<1>5. E(e1, s1, n1) = E(e2, s2, n2)
  <2> HIDE DEF E
  <2> QED BY <1>1, <1>3, <1>4, TaggedInjective
<1>6. e1 = e2 /\ S(s1, n1) = S(s2, n2)
  <2> HIDE DEF S
  <2> QED BY <1>0, <1>2, <1>5, FramedInjective
<1>7. s1 = s2 /\ n1 = n2
  BY <1>0, <1>6, FramedInjective
<1> QED
  BY <1>6, <1>7 DEF Nonces, e1, n1, s1, e2, n2, s2

(* The per-election domain is a byte string and determines its election.   *)
LEMMA ExternalNullifierInjective ==
    ASSUME NEW e1 \in ByteStrings, NEW e2 \in ByteStrings
    PROVE  /\ external_nullifier(e1) \in ByteStrings
           /\ external_nullifier(e1) = external_nullifier(e2) => e1 = e2
<1> DEFINE E(e) == Framed(e, <<>>)
<1>1. <<>> \in ByteStrings /\ EXTNULL_TAG \in Nat
  BY DEF ByteStrings, EXTNULL_TAG
<1>2. E(e1) \in ByteStrings /\ E(e2) \in ByteStrings
  BY <1>1, FramedParts
<1>3. external_nullifier(e1) = <<EXTNULL_TAG>> \o E(e1)
      /\ external_nullifier(e2) = <<EXTNULL_TAG>> \o E(e2)
  BY DEF external_nullifier
<1>4. external_nullifier(e1) \in ByteStrings
  <2> HIDE DEF E
  <2> QED BY <1>1, <1>2, <1>3 DEF ByteStrings
<1>5. ASSUME external_nullifier(e1) = external_nullifier(e2) PROVE e1 = e2
  <2>1. E(e1) = E(e2)
    <3> HIDE DEF E
    <3> QED BY <1>1, <1>2, <1>3, <1>5, TaggedInjective
  <2> QED BY <1>1, <2>1, FramedInjective
<1> QED
  BY <1>4, <1>5

(* A nullifier is a byte string, and no digest is empty.                   *)
LEMMA NullifierIsBytes ==
    ASSUME NEW s \in ByteStrings, NEW e \in ByteStrings
    PROVE  nullifier(s, e) \in ByteStrings /\ nullifier(s, e) # <<>>
<1> DEFINE X == external_nullifier(e)
           T == Framed(X, <<>>)
           S == Framed(s, T)
<1>1. <<>> \in ByteStrings /\ NULLIFIER_TAG \in Nat
  BY DEF ByteStrings, NULLIFIER_TAG
<1>2. X \in ByteStrings
  BY ExternalNullifierInjective
<1>3. T \in ByteStrings
  <2> HIDE DEF X
  <2> QED BY <1>1, <1>2, FramedParts
<1>4. S \in ByteStrings
  <2> HIDE DEF T
  <2> QED BY <1>3, FramedParts
<1>5. nullifier(s, e) = <<NULLIFIER_TAG>> \o S
  BY DEF nullifier, compute_nullifier
<1> QED
  <2> HIDE DEF S
  <2> QED BY <1>1, <1>4, <1>5 DEF ByteStrings

(* A bound nonce is never the empty nonce the boundaries return for a      *)
(* nullifier of the wrong length.                                          *)
LEMMA BindNonceNotEmpty ==
    ASSUME NEW e \in ByteStrings, NEW n \in ByteStrings, NEW s \in ByteStrings
    PROVE  bind_nonce(e, n, s) # <<>>
<1> DEFINE S == Framed(s, n)
           E == Framed(e, S)
<1>1. S \in ByteStrings
  BY FramedParts
<1>2. E \in ByteStrings
  <2> HIDE DEF S
  <2> QED BY <1>1, FramedParts
<1>3. bind_nonce(e, n, s) = <<VOTE_BIND_TAG>> \o E /\ VOTE_BIND_TAG \in Nat
  BY DEF bind_nonce, VOTE_BIND_TAG
<1> QED
  <2> HIDE DEF E
  <2> QED BY <1>2, <1>3 DEF ByteStrings

(* Two voters, or one voter in two elections, never share a nullifier: it  *)
(* determines the secret and the election it was computed for.             *)
THEOREM NullifierInjective ==
    ASSUME NEW s1 \in ByteStrings, NEW e1 \in ByteStrings, NEW s2 \in ByteStrings, NEW e2 \in ByteStrings,
           nullifier(s1, e1) = nullifier(s2, e2)
    PROVE  s1 = s2 /\ e1 = e2
<1> DEFINE X(e) == external_nullifier(e)
           T(e) == Framed(X(e), <<>>)
           S(s, e) == Framed(s, T(e))
<1>1. <<>> \in ByteStrings /\ NULLIFIER_TAG \in Nat
  BY DEF ByteStrings, NULLIFIER_TAG
<1>2. X(e1) \in ByteStrings /\ X(e2) \in ByteStrings
  BY ExternalNullifierInjective
<1>3. <<NULLIFIER_TAG>> \o S(s1, e1) = <<NULLIFIER_TAG>> \o S(s2, e2)
  BY DEF nullifier, compute_nullifier
<1>4. T(e1) \in ByteStrings /\ T(e2) \in ByteStrings
  <2> HIDE DEF X
  <2> QED BY <1>1, <1>2, FramedParts
<1>5. S(s1, e1) \in ByteStrings /\ S(s2, e2) \in ByteStrings
  <2> HIDE DEF T
  <2> QED BY <1>4, FramedParts
<1>6. S(s1, e1) = S(s2, e2)
  <2> HIDE DEF S
  <2> QED BY <1>1, <1>3, <1>5, TaggedInjective
<1>7. s1 = s2 /\ T(e1) = T(e2)
  <2> HIDE DEF T
  <2> QED BY <1>4, <1>6, FramedInjective
<1>8. X(e1) = X(e2)
  <2> HIDE DEF X
  <2> QED BY <1>1, <1>2, <1>7, FramedInjective
<1> QED
  BY <1>7, <1>8, ExternalNullifierInjective
=============================================================================
