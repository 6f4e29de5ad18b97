------------------------- MODULE WireDecoderProofs -------------------------
(***************************************************************************)
(* Proofs about the decoders for every buffer, bound and width of usize,   *)
(* and about the encoders for messages of any length.                      *)
(*                                                                         *)
(* What the decoder has read so far is the encoding of what it has decoded *)
(* so far (ReadInv); and on the encoding of a well-formed message it has   *)
(* decoded the beginning of that message (FollowInv).                      *)
(***************************************************************************)
EXTENDS WireCodec, FramingProofs

(* What the loop knows between two entries: the announced counts are       *)
(* within the bound, and prev is the index of the last entry pushed.       *)
LoopInv ==
    /\ mcount <= MAX_BBS_MESSAGES
    /\ n <= MAX_BBS_MESSAGES
    /\ phase # "entries" => revealed = <<>>
    /\ revealed = <<>> => prev = -1
    /\ \A i \in 1..Len(revealed) : revealed[i].idx <= prev

IInv == TypeOK /\ LoopInv /\ EntriesInOrder

(* A word read inside the buffer is a natural number and ends inside it.   *)
LEMMA U32Facts ==
    ASSUME TypeOK, NEW p \in Nat, HasU32(p)
    PROVE  /\ U32End(p) = p + 1
           /\ p + 1 \in 1..Len(buf)
           /\ U32At(p) \in Nat
<1>1. U32End(p) = p + 1 /\ p + 1 <= Len(buf)
  BY UsizeAssumption DEF HasU32, Fits, U32End, CheckedAdd, NoPos
<1>2. p + 1 \in DOMAIN buf
  BY <1>1 DEF TypeOK
<1> QED
  BY <1>1, <1>2 DEF TypeOK, U32At

(* A byte string read inside the buffer ends inside it, after its length.  *)
LEMMA BytesFacts ==
    ASSUME TypeOK, NEW p \in Nat, HasBytes(p)
    PROVE  /\ BytesEnd(p) \in (p + 1)..Len(buf)
           /\ BytesAt(p) \in Seq(Nat)
<1>1. U32End(p) = p + 1 /\ p + 1 \in 1..Len(buf) /\ U32At(p) \in Nat
  BY U32Facts DEF HasBytes
<1>2. BytesEnd(p) \in (p + 1)..Len(buf)
  BY <1>1, UsizeAssumption DEF TypeOK, HasBytes, Fits, BytesEnd, CheckedAdd, NoPos
<1>3. BytesAt(p) \in Seq(Nat)
  BY <1>1, <1>2 DEF TypeOK, BytesAt
<1> QED
  BY <1>2, <1>3

(* Pushing an entry whose index is above prev keeps the order.             *)
LEMMA PushKeepsOrder ==
    ASSUME IInv, ReadEntry
    PROVE  LoopInv' /\ EntriesInOrder'
<1> DEFINE e == [idx |-> U32At(pos), claim |-> BytesAt(U32End(pos))]
<1>1. HasU32(pos) /\ pos \in Nat
  BY DEF IInv, TypeOK, ReadEntry, EntryOk
<1>2. U32At(pos) \in Nat
  BY <1>1, U32Facts DEF IInv
<1>3. /\ revealed' = Append(revealed, e) /\ prev' = e.idx
      /\ Len(revealed) < n /\ phase = "entries" /\ phase' = "entries"
      /\ mcount' = mcount /\ n' = n /\ input' = input
  BY DEF ReadEntry
<1>4. /\ kind = "vote" => e.idx # VOTER_SECRET_MSG_INDEX
      /\ kind # "revealed" => e.idx < mcount
      /\ e.idx > prev
  BY DEF ReadEntry, EntryOk, IndexOk
<1>5. /\ revealed \in Seq(Entries) /\ Len(revealed') = Len(revealed) + 1
      /\ Len(revealed) \in Nat
      /\ revealed'[Len(revealed) + 1] = e
      /\ \A i \in 1..Len(revealed) : revealed'[i] = revealed[i] /\ revealed[i] \in Entries
  BY <1>3 DEF IInv, TypeOK
<1> HIDE DEF e
<1>6. \A i \in 1..Len(revealed) : revealed[i].idx \in Nat /\ revealed[i].idx < e.idx
  BY <1>2, <1>4, <1>5 DEF IInv, TypeOK, LoopInv, Entries, e
<1>7. e.idx \in Nat
  BY <1>2 DEF e
<1>8. LoopInv'
  <2>1. revealed' # <<>>
    BY <1>5
  <2>2. \A i \in 1..(Len(revealed) + 1) : revealed'[i].idx <= e.idx
    BY <1>5, <1>6, <1>7
  <2> QED
    BY <1>3, <1>5, <2>1, <2>2 DEF IInv, LoopInv
<1>9. EntriesInOrder'
  <2>1. \A i, j \in 1..(Len(revealed) + 1) : i < j => revealed'[i].idx < revealed'[j].idx
    BY <1>5, <1>6 DEF IInv, EntriesInOrder
  <2>2. \A i \in 1..(Len(revealed) + 1) :
           /\ kind # "revealed" => revealed'[i].idx < mcount
           /\ kind = "vote" => revealed'[i].idx # VOTER_SECRET_MSG_INDEX
    BY <1>4, <1>5 DEF IInv, EntriesInOrder
  <2>3. Len(revealed) + 1 <= n /\ n <= MAX_BBS_MESSAGES
    BY <1>3, <1>5 DEF IInv, TypeOK, EntriesInOrder
  <2> QED
    BY <1>3, <1>5, <2>1, <2>2, <2>3 DEF EntriesInOrder, kind
<1> QED
  BY <1>8, <1>9

(* A decoder that has read nothing satisfies the invariant.                *)
LEMMA InitIInv ==
    ASSUME Init
    PROVE  IInv
  BY InputsAssumption, MaxAssumption
  DEF Init, IInv, TypeOK, LoopInv, EntriesInOrder, kind, buf

(* No field, entry or early return of a decoder leaves the invariant.      *)
LEMMA NextIInv ==
    ASSUME IInv, [Next]_vars
    PROVE  IInv'
<1>1. CASE ReadCount
  <2>1. U32End(pos) \in 0..Len(buf) /\ U32At(pos) \in Nat
    BY <1>1, U32Facts DEF IInv, TypeOK, ReadCount, CountOk
  <2> QED
    BY <1>1, <2>1
    DEF IInv, TypeOK, LoopInv, EntriesInOrder, ReadCount, CountOk, kind, buf
<1>2. CASE ReadField
  <2>1. BytesEnd(pos) \in 0..Len(buf) /\ BytesAt(pos) \in Seq(Nat)
    BY <1>2, BytesFacts DEF IInv, TypeOK, ReadField, FieldOk
  <2> QED
    BY <1>2, <2>1 DEF IInv, TypeOK, LoopInv, EntriesInOrder, ReadField, kind, buf
<1>3. CASE ReadN
  <2>1. U32End(pos) \in 0..Len(buf) /\ U32At(pos) \in Nat
    BY <1>3, U32Facts DEF IInv, TypeOK, ReadN, NOk
  <2>2. U32At(pos) <= MAX_BBS_MESSAGES
    BY <1>3, <2>1, MaxAssumption DEF IInv, TypeOK, LoopInv, ReadN, NOk
  <2>3. revealed = <<>>
    BY <1>3 DEF IInv, LoopInv, ReadN
  <2> QED
    BY <1>3, <2>1, <2>2, <2>3
    DEF IInv, TypeOK, LoopInv, EntriesInOrder, ReadN, kind, buf
<1>4. CASE ReadEntry
  <2>1. HasU32(pos) /\ HasBytes(U32End(pos)) /\ pos \in Nat
    BY <1>4 DEF IInv, TypeOK, ReadEntry, EntryOk
  <2>2. U32At(pos) \in Nat /\ U32End(pos) = pos + 1
    BY <2>1, U32Facts DEF IInv
  <2>3. BytesEnd(U32End(pos)) \in 0..Len(buf) /\ BytesAt(U32End(pos)) \in Seq(Nat)
    BY <2>1, <2>2, BytesFacts DEF IInv, TypeOK
  <2>4. TypeOK'
    BY <1>4, <2>2, <2>3 DEF IInv, TypeOK, Entries, ReadEntry, kind, buf
  <2> QED
    BY <1>4, <2>4, PushKeepsOrder DEF IInv
<1>5. CASE Accept \/ Reject
  BY <1>5 DEF IInv, TypeOK, LoopInv, EntriesInOrder, Accept, Reject, kind, buf
<1>6. CASE UNCHANGED vars
  BY <1>6 DEF IInv, TypeOK, LoopInv, EntriesInOrder, vars, kind, buf
<1> QED
  BY <1>1, <1>2, <1>3, <1>4, <1>5, <1>6 DEF Next

(* The decoders' inductive invariant, for every buffer.                    *)
THEOREM Invariance == Spec => []IInv
<1>1. Init => IInv
  BY InitIInv
<1>2. IInv /\ [Next]_vars => IInv'
  BY NextIInv
<1> QED
  BY <1>1, <1>2, PTL DEF Spec

(* The read position never passes the end of the buffer, and every field   *)
(* decoded keeps its type.                                                 *)
THEOREM TypeCorrect == Spec => []TypeOK
<1>1. IInv => TypeOK
  BY DEF IInv
<1> QED
  BY <1>1, Invariance, PTL

(* No slice of from_bytes or decode_revealed is ever out of bounds.        *)
THEOREM DecodersArePanicFree == Spec => []ReadsStayInBounds
<1>1. IInv => ReadsStayInBounds
  <2> SUFFICES ASSUME IInv, NEW p \in {pos} \cup {q \in {U32End(pos)} : HasU32(pos)}
               PROVE  /\ HasU32(p) => SliceInBounds(p, U32End(p))
                      /\ HasBytes(p) => SliceInBounds(U32End(p), BytesEnd(p))
    BY DEF ReadsStayInBounds
  <2>1. p \in Nat
    BY U32Facts DEF IInv, TypeOK
  <2>2. HasU32(p) => SliceInBounds(p, U32End(p))
    BY <2>1, U32Facts DEF IInv, SliceInBounds, TypeOK
  <2>3. HasBytes(p) => SliceInBounds(U32End(p), BytesEnd(p))
    <3> SUFFICES ASSUME HasBytes(p)
                 PROVE  SliceInBounds(U32End(p), BytesEnd(p))
      OBVIOUS
    <3>1. U32End(p) = p + 1
      BY <2>1, U32Facts DEF IInv, HasBytes
    <3>2. BytesEnd(p) \in (p + 1)..Len(buf)
      BY <2>1, BytesFacts DEF IInv
    <3> QED
      BY <3>1, <3>2, <2>1 DEF SliceInBounds
  <2> QED
    BY <2>2, <2>3
<1> QED
  BY <1>1, Invariance, PTL

(* At every step of the loop the entries are strictly increasing, in       *)
(* range, and no more than the bound allows.                               *)
THEOREM DecodersKeepOrder == Spec => []EntriesInOrder
<1>1. IInv => EntriesInOrder
  BY DEF IInv
<1> QED
  BY <1>1, Invariance, PTL
-----------------------------------------------------------------------------
(* A length-prefixed string and an entry are strings of cells, the length  *)
(* and the index first.                                                    *)
LEMMA PutBytesFacts ==
    ASSUME NEW b \in Seq(Nat)
    PROVE  /\ PutBytes(b) \in Seq(Nat) /\ Len(PutBytes(b)) = Len(b) + 1
           /\ PutBytes(b)[1] = Len(b)
           /\ \A i \in 1..Len(b) : PutBytes(b)[i + 1] = b[i]
BY DEF PutBytes

LEMMA EncodeEntryFacts ==
    ASSUME NEW e \in Entries
    PROVE  /\ EncodeEntry(e) \in Seq(Nat) /\ Len(EncodeEntry(e)) = Len(e.claim) + 2
           /\ EncodeEntry(e)[1] = e.idx /\ EncodeEntry(e)[2] = Len(e.claim)
           /\ \A i \in 1..Len(e.claim) : EncodeEntry(e)[i + 2] = e.claim[i]
<1> DEFINE p == PutBytes(e.claim)
<1>1. e.idx \in Nat /\ e.claim \in Seq(Nat)
  BY DEF Entries
<1>2. /\ p \in Seq(Nat) /\ Len(p) = Len(e.claim) + 1 /\ p[1] = Len(e.claim)
      /\ \A i \in 1..Len(e.claim) : p[i + 1] = e.claim[i]
  BY <1>1, PutBytesFacts
<1> HIDE DEF p
<1>3. /\ <<e.idx>> \o p \in Seq(Nat) /\ Len(<<e.idx>> \o p) = Len(p) + 1
      /\ (<<e.idx>> \o p)[1] = e.idx
      /\ \A i \in 1..Len(p) : (<<e.idx>> \o p)[i + 1] = p[i]
  BY <1>1, <1>2
<1>4. EncodeEntry(e) = <<e.idx>> \o p
  BY DEF EncodeEntry, p
<1>5. Len(e.claim) \in Nat
  BY <1>1
<1>6. ASSUME NEW i \in 1..Len(e.claim) PROVE EncodeEntry(e)[i + 2] = e.claim[i]
  <2>1. i + 1 \in 1..Len(p) /\ (i + 1) + 1 = i + 2
    BY <1>2, <1>5
  <2> QED BY <1>2, <1>3, <1>4, <2>1
<1>7. EncodeEntry(e)[2] = Len(e.claim)
  <2>1. 1 \in 1..Len(p) /\ 1 + 1 = 2
    BY <1>2, <1>5
  <2>2. (<<e.idx>> \o p)[2] = p[1]
    BY <1>3, <2>1
  <2> QED BY <1>2, <1>4, <2>2
<1>8. Len(EncodeEntry(e)) = Len(e.claim) + 2
  BY <1>2, <1>3, <1>4, <1>5
<1> QED
  BY <1>3, <1>4, <1>6, <1>7, <1>8

(* The parts of a longer list of fields are those of its parts.            *)
LEMMA FieldPartsFacts ==
    ASSUME NEW fs \in Seq(Seq(Nat)), NEW gs \in Seq(Seq(Nat))
    PROVE  /\ FieldParts(fs) \in Seq(Seq(Nat))
           /\ FieldParts(fs \o gs) = FieldParts(fs) \o FieldParts(gs)
<1> DEFINE F(s) == [i \in 1..Len(s) |-> PutBytes(s[i])]
<1>1. ASSUME NEW s \in Seq(Seq(Nat))
      PROVE  /\ FieldParts(s) = F(s) /\ F(s) \in Seq(Seq(Nat)) /\ Len(F(s)) = Len(s)
             /\ \A i \in 1..Len(s) : F(s)[i] = PutBytes(s[i])
  <2>1. \A i \in 1..Len(s) : PutBytes(s[i]) \in Seq(Nat)
    BY PutBytesFacts
  <2>2. DOMAIN s = 1..Len(s) /\ Len(s) \in Nat
    OBVIOUS
  <2> QED BY <2>1, <2>2 DEF FieldParts
<1> DEFINE hs == fs \o gs
<1>2. /\ hs \in Seq(Seq(Nat)) /\ Len(hs) = Len(fs) + Len(gs)
      /\ \A i \in 1..(Len(fs) + Len(gs)) :
            hs[i] = IF i <= Len(fs) THEN fs[i] ELSE gs[i - Len(fs)]
      /\ Len(fs) \in Nat /\ Len(gs) \in Nat
  OBVIOUS
<1> HIDE DEF F, hs
<1>3. /\ F(hs) \in Seq(Seq(Nat)) /\ Len(F(hs)) = Len(fs) + Len(gs)
      /\ \A i \in 1..(Len(fs) + Len(gs)) : F(hs)[i] = PutBytes(hs[i])
  BY <1>1, <1>2
<1>4. /\ F(fs) \in Seq(Seq(Nat)) /\ F(gs) \in Seq(Seq(Nat))
      /\ Len(F(fs)) = Len(fs) /\ Len(F(gs)) = Len(gs)
      /\ \A i \in 1..Len(fs) : F(fs)[i] = PutBytes(fs[i])
      /\ \A i \in 1..Len(gs) : F(gs)[i] = PutBytes(gs[i])
  BY <1>1
<1> DEFINE a == F(fs)
           b == F(gs)
           c == F(hs)
<1> HIDE DEF a, b, c
<1>5. /\ a \o b \in Seq(Seq(Nat)) /\ Len(a \o b) = Len(fs) + Len(gs)
      /\ \A i \in 1..(Len(fs) + Len(gs)) :
            (a \o b)[i] = IF i <= Len(fs) THEN a[i] ELSE b[i - Len(fs)]
  <2>1. /\ a \in Seq(Seq(Nat)) /\ b \in Seq(Seq(Nat))
        /\ Len(a) = Len(fs) /\ Len(b) = Len(gs)
    BY <1>4 DEF a, b
  <2>2. /\ a \o b \in Seq(Seq(Nat)) /\ Len(a \o b) = Len(a) + Len(b)
        /\ \A i \in 1..(Len(a) + Len(b)) :
              (a \o b)[i] = IF i <= Len(a) THEN a[i] ELSE b[i - Len(a)]
    BY <2>1, ConcatProperties
  <2> QED BY <2>1, <2>2
<1>6. ASSUME NEW i \in 1..(Len(fs) + Len(gs)) PROVE c[i] = (a \o b)[i]
  <2>1. CASE i <= Len(fs)
    <3>1. i \in 1..Len(fs)
      BY <1>2, <2>1
    <3> QED BY <1>2, <1>3, <1>4, <1>5, <2>1, <3>1 DEF a, c
  <2>2. CASE ~(i <= Len(fs))
    <3>1. i - Len(fs) \in 1..Len(gs)
      BY <1>2, <2>2
    <3> QED BY <1>2, <1>3, <1>4, <1>5, <2>2, <3>1 DEF b, c
  <2> QED BY <2>1, <2>2
<1>7. c = a \o b
  <2>1. Len(c) = Len(a \o b) /\ c \in Seq(Seq(Nat))
    BY <1>3, <1>5 DEF c
  <2>2. \A i \in 1..Len(c) : c[i] = (a \o b)[i]
    BY <1>3, <1>6 DEF c
  <2> QED BY <1>5, <2>1, <2>2, SeqEqual
<1> QED
  BY <1>1, <1>2, <1>7 DEF a, b, c, hs

(* The same of entries.                                                    *)
LEMMA EntryPartsFacts ==
    ASSUME NEW fs \in Seq(Entries), NEW gs \in Seq(Entries)
    PROVE  /\ EntryParts(fs) \in Seq(Seq(Nat))
           /\ EntryParts(fs \o gs) = EntryParts(fs) \o EntryParts(gs)
<1> DEFINE F(s) == [i \in 1..Len(s) |-> EncodeEntry(s[i])]
<1>1. ASSUME NEW s \in Seq(Entries)
      PROVE  /\ EntryParts(s) = F(s) /\ F(s) \in Seq(Seq(Nat)) /\ Len(F(s)) = Len(s)
             /\ \A i \in 1..Len(s) : F(s)[i] = EncodeEntry(s[i])
  <2>1. \A i \in 1..Len(s) : EncodeEntry(s[i]) \in Seq(Nat)
    <3>1. \A i \in 1..Len(s) : s[i] \in Entries
      OBVIOUS
    <3> QED BY <3>1, EncodeEntryFacts
  <2>2. DOMAIN s = 1..Len(s) /\ Len(s) \in Nat
    OBVIOUS
  <2> QED BY <2>1, <2>2 DEF EntryParts
<1> DEFINE hs == fs \o gs
<1>2. /\ hs \in Seq(Entries) /\ Len(hs) = Len(fs) + Len(gs)
      /\ \A i \in 1..(Len(fs) + Len(gs)) :
            hs[i] = IF i <= Len(fs) THEN fs[i] ELSE gs[i - Len(fs)]
      /\ Len(fs) \in Nat /\ Len(gs) \in Nat
  OBVIOUS
<1> HIDE DEF F, hs
<1>3. /\ F(hs) \in Seq(Seq(Nat)) /\ Len(F(hs)) = Len(fs) + Len(gs)
      /\ \A i \in 1..(Len(fs) + Len(gs)) : F(hs)[i] = EncodeEntry(hs[i])
  BY <1>1, <1>2
<1>4. /\ F(fs) \in Seq(Seq(Nat)) /\ F(gs) \in Seq(Seq(Nat))
      /\ Len(F(fs)) = Len(fs) /\ Len(F(gs)) = Len(gs)
      /\ \A i \in 1..Len(fs) : F(fs)[i] = EncodeEntry(fs[i])
      /\ \A i \in 1..Len(gs) : F(gs)[i] = EncodeEntry(gs[i])
  BY <1>1
<1> DEFINE a == F(fs)
           b == F(gs)
           c == F(hs)
<1> HIDE DEF a, b, c
<1>5. /\ a \o b \in Seq(Seq(Nat)) /\ Len(a \o b) = Len(fs) + Len(gs)
      /\ \A i \in 1..(Len(fs) + Len(gs)) :
            (a \o b)[i] = IF i <= Len(fs) THEN a[i] ELSE b[i - Len(fs)]
  <2>1. /\ a \in Seq(Seq(Nat)) /\ b \in Seq(Seq(Nat))
        /\ Len(a) = Len(fs) /\ Len(b) = Len(gs)
    BY <1>4 DEF a, b
  <2>2. /\ a \o b \in Seq(Seq(Nat)) /\ Len(a \o b) = Len(a) + Len(b)
        /\ \A i \in 1..(Len(a) + Len(b)) :
              (a \o b)[i] = IF i <= Len(a) THEN a[i] ELSE b[i - Len(a)]
    BY <2>1, ConcatProperties
  <2> QED BY <2>1, <2>2
<1>6. ASSUME NEW i \in 1..(Len(fs) + Len(gs)) PROVE c[i] = (a \o b)[i]
  <2>1. CASE i <= Len(fs)
    <3>1. i \in 1..Len(fs)
      BY <1>2, <2>1
    <3> QED BY <1>2, <1>3, <1>4, <1>5, <2>1, <3>1 DEF a, c
  <2>2. CASE ~(i <= Len(fs))
    <3>1. i - Len(fs) \in 1..Len(gs)
      BY <1>2, <2>2
    <3> QED BY <1>2, <1>3, <1>4, <1>5, <2>2, <3>1 DEF b, c
  <2> QED BY <2>1, <2>2
<1>7. c = a \o b
  <2>1. Len(c) = Len(a \o b) /\ c \in Seq(Seq(Nat))
    BY <1>3, <1>5 DEF c
  <2>2. \A i \in 1..Len(c) : c[i] = (a \o b)[i]
    BY <1>3, <1>6 DEF c
  <2> QED BY <1>5, <2>1, <2>2, SeqEqual
<1> QED
  BY <1>1, <1>2, <1>7 DEF a, b, c, hs

(* The parts of no fields or entries, and of a single one.                 *)
LEMMA SmallParts ==
    /\ FieldParts(<<>>) = <<>> /\ EntryParts(<<>>) = <<>>
    /\ \A f : FieldParts(<<f>>) = <<PutBytes(f)>>
    /\ \A e : EntryParts(<<e>>) = <<EncodeEntry(e)>>
BY DEF FieldParts, EntryParts
-----------------------------------------------------------------------------
(* The parts decoded so far, as to_bytes would write them.                 *)
CountPart == IF kind = "revealed" \/ phase = "count" THEN <<>> ELSE <<<<mcount>>>>
NPart == IF phase = "entries" THEN <<<<n>>>> ELSE <<>>
Sofar == CountPart \o FieldParts(fields) \o NPart \o EntryParts(revealed)

(* Nothing in the buffer is skipped: what lies before the read position is *)
(* the encoding of what was decoded from it.                               *)
ReadInv == SubSeq(buf, 1, pos) = FlattenSeq(Sofar)

(* Which fields have been read in which phase, and what was tested of them. *)
ParseInv ==
    /\ phase = "count" => kind # "revealed" /\ fields = <<>>
    /\ phase = "fields" => kind # "revealed" /\ Len(fields) < FieldCount(kind)
    /\ phase \in {"n", "entries"} => Len(fields) = FieldCount(kind)
    /\ kind # "revealed" /\ phase # "count" => mcount >= 1
    /\ kind = "vote" /\ Len(fields) >= 3 => fields[3] \in Points \ {Identity}
    /\ revealed # <<>> => prev = revealed[Len(revealed)].idx
    /\ outcome = "ok" => phase = "entries" /\ Len(revealed) = n /\ pos = Len(buf)
    /\ Len(buf) <= USIZE_MAX

(* The parts decoded so far are strings of cells.                          *)
LEMMA SofarType ==
    ASSUME TypeOK
    PROVE  /\ CountPart \in Seq(Seq(Nat)) /\ FieldParts(fields) \in Seq(Seq(Nat))
           /\ NPart \in Seq(Seq(Nat)) /\ EntryParts(revealed) \in Seq(Seq(Nat))
           /\ Sofar \in Seq(Seq(Nat))
<1>1. CountPart \in Seq(Seq(Nat)) /\ NPart \in Seq(Seq(Nat))
  BY DEF CountPart, NPart, TypeOK
<1>2. FieldParts(fields) \in Seq(Seq(Nat)) /\ EntryParts(revealed) \in Seq(Seq(Nat))
  BY FieldPartsFacts, EntryPartsFacts DEF TypeOK
<1>3. Sofar \in Seq(Seq(Nat))
  BY <1>1, <1>2 DEF Sofar
<1> QED
  BY <1>1, <1>2, <1>3

(* Reading the next part moves the read position past it.                  *)
LEMMA ReadsAppend ==
    ASSUME NEW b \in Seq(Nat), NEW p \in 0..Len(b), NEW ss \in Seq(Seq(Nat)),
           NEW x \in Seq(Nat), SubSeq(b, 1, p) = FlattenSeq(ss),
           p + Len(x) <= Len(b), \A i \in 1..Len(x) : b[p + i] = x[i]
    PROVE  SubSeq(b, 1, p + Len(x)) = FlattenSeq(Append(ss, x))
<1>1. FlattenSeq(Append(ss, x)) = SubSeq(b, 1, p) \o x
  BY FlattenAppend
<1> DEFINE s == SubSeq(b, 1, p)
           t == SubSeq(b, 1, p + Len(x))
<1>2. /\ s \in Seq(Nat) /\ Len(s) = p /\ \A i \in 1..p : s[i] = b[i]
      /\ t \in Seq(Nat) /\ Len(t) = p + Len(x) /\ \A i \in 1..(p + Len(x)) : t[i] = b[i]
      /\ Len(x) \in Nat
  OBVIOUS
<1> HIDE DEF s, t
<1>3. /\ s \o x \in Seq(Nat) /\ Len(s \o x) = p + Len(x)
      /\ \A i \in 1..(p + Len(x)) : (s \o x)[i] = IF i <= p THEN s[i] ELSE x[i - p]
  <2>0. s \in Seq(Nat) /\ x \in Seq(Nat)
    BY <1>2
  <2>1. /\ s \o x \in Seq(Nat) /\ Len(s \o x) = Len(s) + Len(x)
        /\ \A i \in 1..(Len(s) + Len(x)) :
              (s \o x)[i] = IF i <= Len(s) THEN s[i] ELSE x[i - Len(s)]
    BY <2>0, ConcatProperties
  <2> QED BY <1>2, <2>1
<1>4. ASSUME NEW i \in 1..(p + Len(x)) PROVE t[i] = (s \o x)[i]
  <2>1. CASE i <= p
    <3>1. i \in 1..p
      BY <2>1, <1>2
    <3> QED BY <1>2, <1>3, <2>1, <3>1
  <2>2. CASE ~(i <= p)
    <3>1. i - p \in 1..Len(x) /\ p + (i - p) = i
      BY <1>2, <2>2
    <3>2. b[p + (i - p)] = x[i - p]
      BY <3>1
    <3> QED BY <1>2, <1>3, <2>2, <3>1, <3>2
  <2> QED BY <2>1, <2>2
<1>5. t = s \o x
  BY <1>2, <1>3, <1>4, SeqEqual
<1> QED
  BY <1>1, <1>5 DEF s, t

(* Reading one more part keeps ReadInv.                                    *)
LEMMA ReadInvStep ==
    ASSUME TypeOK, ReadInv, NEW x \in Seq(Nat), input' = input,
           Sofar' = Append(Sofar, x), pos' = pos + Len(x), pos + Len(x) <= Len(buf),
           \A i \in 1..Len(x) : buf[pos + i] = x[i]
    PROVE  ReadInv'
<1>1. buf \in Seq(Nat) /\ pos \in 0..Len(buf) /\ Sofar \in Seq(Seq(Nat))
  BY SofarType DEF TypeOK
<1>2. SubSeq(buf, 1, pos + Len(x)) = FlattenSeq(Append(Sofar, x))
  <2> DEFINE b == buf
             p == pos
             ss == Sofar
  <2>1. /\ b \in Seq(Nat) /\ p \in 0..Len(b) /\ ss \in Seq(Seq(Nat))
        /\ SubSeq(b, 1, p) = FlattenSeq(ss) /\ p + Len(x) <= Len(b)
        /\ \A i \in 1..Len(x) : b[p + i] = x[i]
    BY <1>1 DEF ReadInv
  <2> HIDE DEF b, p, ss
  <2>2. SubSeq(b, 1, p + Len(x)) = FlattenSeq(Append(ss, x))
    BY <2>1, ReadsAppend
  <2> QED BY <2>2 DEF b, p, ss
<1>3. buf' = buf
  BY DEF buf
<1> QED
  BY <1>2, <1>3 DEF ReadInv

(* The cells a read returns are the part it stands for.                    *)
LEMMA ReadBytesAre ==
    ASSUME TypeOK, NEW p \in Nat, HasBytes(p)
    PROVE  /\ BytesAt(p) \in Seq(Nat)
           /\ BytesEnd(p) = p + Len(PutBytes(BytesAt(p))) /\ BytesEnd(p) <= Len(buf)
           /\ \A i \in 1..Len(PutBytes(BytesAt(p))) : buf[p + i] = PutBytes(BytesAt(p))[i]
<1> DEFINE b == BytesAt(p)
           len == U32At(p)
<1>1. U32End(p) = p + 1 /\ p + 1 \in 1..Len(buf) /\ len \in Nat /\ len = buf[p + 1]
  BY U32Facts DEF HasBytes, U32At, TypeOK
<1>2. BytesEnd(p) = p + 1 + len /\ BytesEnd(p) <= Len(buf)
  BY <1>1 DEF HasBytes, Fits, BytesEnd, CheckedAdd, NoPos
<1>3. buf \in Seq(Nat)
  BY DEF TypeOK
<1>4. /\ b \in Seq(Nat) /\ Len(b) = len
      /\ \A i \in 1..len : b[i] = buf[p + 1 + i]
  <2>1. b = SubSeq(buf, p + 2, p + 1 + len)
    BY <1>1, <1>2 DEF BytesAt
  <2> DEFINE lo == p + 2
             hi == p + 1 + len
  <2>2. /\ lo \in Int /\ hi \in Int /\ hi - lo + 1 = len
        /\ \A i \in lo..hi : buf[i] \in Nat
        /\ \A i \in 1..len : lo + i - 1 = p + 1 + i
        /\ lo <= hi \/ len = 0
    BY <1>1, <1>2, <1>3
  <2> HIDE DEF lo, hi
  <2>3. /\ SubSeq(buf, lo, hi) \in Seq(Nat)
        /\ Len(SubSeq(buf, lo, hi)) = IF lo <= hi THEN hi - lo + 1 ELSE 0
        /\ \A i \in 1..(hi - lo + 1) : SubSeq(buf, lo, hi)[i] = buf[lo + i - 1]
    BY <2>2, SubSeqProperties
  <2>4. b = SubSeq(buf, lo, hi)
    BY <2>1 DEF lo, hi
  <2>5. (IF lo <= hi THEN hi - lo + 1 ELSE 0) = len
    BY <1>1, <2>2
  <2> HIDE DEF b, len
  <2> QED BY <2>2, <2>3, <2>4, <2>5
<1> HIDE DEF b, len
<1>5. /\ PutBytes(b) \in Seq(Nat) /\ Len(PutBytes(b)) = len + 1 /\ PutBytes(b)[1] = len
      /\ \A i \in 1..len : PutBytes(b)[i + 1] = b[i]
  BY <1>4, PutBytesFacts
<1>6. ASSUME NEW i \in 1..(len + 1) PROVE buf[p + i] = PutBytes(b)[i]
  <2>1. CASE i = 1
    BY <1>1, <1>5, <2>1
  <2>2. CASE i # 1
    <3>1. i - 1 \in 1..len /\ (i - 1) + 1 = i /\ p + 1 + (i - 1) = p + i
      BY <1>1, <2>2
    <3>2. PutBytes(b)[(i - 1) + 1] = b[i - 1] /\ b[i - 1] = buf[p + 1 + (i - 1)]
      BY <1>4, <1>5, <3>1
    <3> QED BY <3>1, <3>2
  <2> QED BY <2>1, <2>2
<1>7. BytesEnd(p) = p + Len(PutBytes(b))
  <2>1. Len(PutBytes(b)) = len + 1
    BY <1>5
  <2>2. len \in Nat /\ BytesEnd(p) = p + 1 + len
    BY <1>1, <1>2
  <2> QED BY <2>1, <2>2
<1>8. \A i \in 1..Len(PutBytes(b)) : buf[p + i] = PutBytes(b)[i]
  BY <1>5, <1>6
<1>9. b \in Seq(Nat)
  BY <1>4
<1> QED
  BY <1>2, <1>7, <1>8, <1>9 DEF b

(* Where the next part goes in the four stretches of a message.            *)
LEMMA NextStretch ==
    ASSUME NEW S, NEW a \in Seq(S), NEW b \in Seq(S), NEW x \in S
    PROVE  /\ <<x>> \o <<>> \o <<>> \o <<>> = Append(<<>> \o <<>> \o <<>> \o <<>>, x)
           /\ a \o (b \o <<x>>) \o <<>> \o <<>> = Append(a \o b \o <<>> \o <<>>, x)
           /\ a \o b \o <<x>> \o <<>> = Append(a \o b \o <<>> \o <<>>, x)
<1>1. <<x>> \in Seq(S) /\ <<>> \in Seq(S)
  OBVIOUS
<1>2. ASSUME NEW s \in Seq(S) PROVE s \o <<>> = s /\ Append(s, x) = s \o <<x>>
  BY AppendIsConcat, ConcatEmptySeq
<1>3. a \o b \in Seq(S)
  BY ConcatProperties
<1>4. a \o (b \o <<x>>) = a \o b \o <<x>> /\ a \o b \o <<x>> \in Seq(S)
  BY <1>1, <1>3, ConcatAssociative, ConcatProperties
<1>5. <<x>> \o <<>> = <<x>> /\ <<>> \o <<>> = <<>> /\ Append(<<>>, x) = <<x>>
  OBVIOUS
<1>6. /\ a \o b \o <<>> = a \o b /\ a \o b \o <<x>> \o <<>> = a \o b \o <<x>>
      /\ Append(a \o b, x) = a \o b \o <<x>>
  <2> DEFINE s == a \o b
             t == a \o b \o <<x>>
  <2>1. s \in Seq(S) /\ t \in Seq(S)
    BY <1>3, <1>4
  <2> HIDE DEF s, t
  <2>2. s \o <<>> = s /\ t \o <<>> = t /\ Append(s, x) = s \o <<x>>
    BY <1>2, <2>1
  <2> QED BY <2>2 DEF s, t
<1>7. <<x>> \o <<>> \o <<>> \o <<>> = Append(<<>> \o <<>> \o <<>> \o <<>>, x)
  BY <1>5
<1>8. a \o (b \o <<x>>) \o <<>> \o <<>> = Append(a \o b \o <<>> \o <<>>, x)
  BY <1>4, <1>6, Zenon
<1>9. a \o b \o <<x>> \o <<>> = Append(a \o b \o <<>> \o <<>>, x)
  BY <1>6, Zenon
<1> QED
  BY <1>7, <1>8, <1>9, Zenon

(* message_count is the first part.                                        *)
LEMMA ReadCountReads ==
    ASSUME IInv, ParseInv, ReadInv, ReadCount
    PROVE  ReadInv'
<1> DEFINE x == <<U32At(pos)>>
<1>1. TypeOK /\ HasU32(pos) /\ pos \in Nat
  BY DEF IInv, TypeOK, ReadCount, CountOk
<1>2. /\ U32End(pos) = pos + 1 /\ pos + 1 \in 1..Len(buf)
      /\ U32At(pos) \in Nat /\ U32At(pos) = buf[pos + 1]
  BY <1>1, U32Facts DEF U32At, TypeOK
<1>3. /\ x \in Seq(Nat) /\ Len(x) = 1 /\ x[1] = buf[pos + 1]
  BY <1>2
<1>4. /\ input' = input /\ pos' = pos + 1 /\ fields' = fields /\ revealed' = revealed
      /\ phase = "count" /\ phase' = "fields" /\ mcount' = U32At(pos)
      /\ kind # "revealed" /\ kind' = kind /\ fields = <<>> /\ revealed = <<>>
  BY <1>2 DEF ReadCount, ParseInv, IInv, LoopInv, kind
<1>5. /\ CountPart = <<>> /\ NPart = <<>> /\ FieldParts(fields) = <<>>
      /\ EntryParts(revealed) = <<>>
  BY <1>4, SmallParts DEF CountPart, NPart
<1>6. /\ CountPart' = <<x>> /\ NPart' = <<>> /\ FieldParts(fields)' = <<>>
      /\ EntryParts(revealed)' = <<>>
  BY <1>4, SmallParts DEF CountPart, NPart
<1> HIDE DEF x
<1>7. Sofar' = Append(Sofar, x)
  BY <1>3, <1>5, <1>6, NextStretch DEF Sofar
<1>8. \A i \in 1..Len(x) : buf[pos + i] = x[i]
  BY <1>3
<1>9. pos' = pos + Len(x) /\ pos + Len(x) <= Len(buf)
  BY <1>2, <1>3, <1>4
<1> QED
  BY <1>1, <1>3, <1>4, <1>7, <1>8, <1>9, ReadInvStep

(* A field is the next part.                                               *)
LEMMA ReadFieldReads ==
    ASSUME IInv, ParseInv, ReadInv, ReadField
    PROVE  ReadInv'
<1> DEFINE f == BytesAt(pos)
           x == PutBytes(f)
<1>1. TypeOK /\ HasBytes(pos) /\ pos \in Nat /\ fields \in Seq(Seq(Nat))
  BY DEF IInv, TypeOK, ReadField, FieldOk
<1>2. /\ f \in Seq(Nat) /\ BytesEnd(pos) = pos + Len(x) /\ BytesEnd(pos) <= Len(buf)
      /\ \A i \in 1..Len(x) : buf[pos + i] = x[i]
  BY <1>1, ReadBytesAre
<1>3. x \in Seq(Nat)
  BY <1>2, PutBytesFacts
<1>4. /\ input' = input /\ pos' = BytesEnd(pos) /\ fields' = Append(fields, f)
      /\ revealed' = revealed /\ mcount' = mcount
      /\ phase = "fields" /\ phase' \in {"n", "fields"} /\ kind' = kind /\ revealed = <<>>
  BY DEF ReadField, IInv, LoopInv, kind
<1> HIDE DEF f, x
<1>5. FieldParts(fields') = FieldParts(fields) \o <<x>>
  <2>1. fields' = fields \o <<f>> /\ <<f>> \in Seq(Seq(Nat))
    BY <1>1, <1>2, <1>4, AppendIsConcat
  <2>2. FieldParts(fields \o <<f>>) = FieldParts(fields) \o FieldParts(<<f>>)
    BY <1>1, <2>1, FieldPartsFacts
  <2> QED BY <2>1, <2>2, SmallParts DEF x
<1>6. NPart = <<>> /\ EntryParts(revealed) = <<>> /\ NPart' = <<>>
      /\ EntryParts(revealed)' = <<>> /\ CountPart' = CountPart
  BY <1>4, SmallParts DEF NPart, CountPart
<1>7. Sofar' = Append(Sofar, x)
  <2> DEFINE a == CountPart
             b == FieldParts(fields)
             S == Seq(Nat)
  <2>1. a \in Seq(S) /\ b \in Seq(S) /\ x \in S
    BY <1>1, <1>3, SofarType
  <2>2. Sofar = a \o b \o <<>> \o <<>> /\ Sofar' = a \o (b \o <<x>>) \o <<>> \o <<>>
    BY <1>5, <1>6 DEF Sofar
  <2> HIDE DEF a, b, S
  <2>3. a \o (b \o <<x>>) \o <<>> \o <<>> = Append(a \o b \o <<>> \o <<>>, x)
    BY <2>1, NextStretch
  <2> QED BY <2>2, <2>3
<1> QED
  BY <1>1, <1>2, <1>3, <1>4, <1>7, ReadInvStep

(* The number of entries is the next part.                                 *)
LEMMA ReadNReads ==
    ASSUME IInv, ParseInv, ReadInv, ReadN
    PROVE  ReadInv'
<1> DEFINE x == <<U32At(pos)>>
<1>1. TypeOK /\ HasU32(pos) /\ pos \in Nat
  BY DEF IInv, TypeOK, ReadN, NOk
<1>2. /\ U32End(pos) = pos + 1 /\ pos + 1 \in 1..Len(buf)
      /\ U32At(pos) \in Nat /\ U32At(pos) = buf[pos + 1]
  BY <1>1, U32Facts DEF U32At, TypeOK
<1>3. /\ x \in Seq(Nat) /\ Len(x) = 1 /\ x[1] = buf[pos + 1]
  BY <1>2
<1>4. /\ input' = input /\ pos' = pos + 1 /\ fields' = fields /\ revealed' = revealed
      /\ phase = "n" /\ phase' = "entries" /\ mcount' = mcount /\ n' = U32At(pos)
      /\ kind' = kind /\ revealed = <<>>
  BY <1>2 DEF ReadN, IInv, LoopInv, kind
<1>5. NPart = <<>> /\ EntryParts(revealed) = <<>> /\ NPart' = <<x>>
      /\ EntryParts(revealed)' = <<>> /\ CountPart' = CountPart
      /\ FieldParts(fields)' = FieldParts(fields)
  BY <1>4, SmallParts DEF NPart, CountPart
<1> HIDE DEF x
<1>6. Sofar' = Append(Sofar, x)
  <2> DEFINE a == CountPart
             b == FieldParts(fields)
             S == Seq(Nat)
  <2>1. a \in Seq(S) /\ b \in Seq(S) /\ x \in S
    BY <1>1, <1>3, SofarType
  <2>2. Sofar = a \o b \o <<>> \o <<>> /\ Sofar' = a \o b \o <<x>> \o <<>>
    BY <1>5 DEF Sofar
  <2> HIDE DEF a, b, S
  <2>3. a \o b \o <<x>> \o <<>> = Append(a \o b \o <<>> \o <<>>, x)
    BY <2>1, NextStretch
  <2> QED BY <2>2, <2>3
<1>7. \A i \in 1..Len(x) : buf[pos + i] = x[i]
  BY <1>3
<1>8. pos' = pos + Len(x) /\ pos + Len(x) <= Len(buf)
  BY <1>2, <1>3, <1>4
<1> QED
  BY <1>1, <1>3, <1>4, <1>6, <1>7, <1>8, ReadInvStep

(* An entry is the next part: its index, then its claim.                   *)
LEMMA ReadEntryReads ==
    ASSUME IInv, ParseInv, ReadInv, ReadEntry
    PROVE  ReadInv'
<1> DEFINE q == U32End(pos)
           e == [idx |-> U32At(pos), claim |-> BytesAt(q)]
           y == PutBytes(BytesAt(q))
           x == EncodeEntry(e)
<1>1. TypeOK /\ HasU32(pos) /\ HasBytes(q) /\ pos \in Nat /\ revealed \in Seq(Entries)
  BY DEF IInv, TypeOK, ReadEntry, EntryOk
<1>2. /\ q = pos + 1 /\ q \in Nat /\ U32At(pos) \in Nat /\ U32At(pos) = buf[pos + 1]
  BY <1>1, U32Facts DEF U32At, TypeOK
<1>3. /\ input' = input /\ pos' = BytesEnd(q) /\ revealed' = Append(revealed, e)
      /\ mcount' = mcount /\ n' = n /\ fields' = fields /\ phase' = phase /\ kind' = kind
  BY DEF ReadEntry, kind
<1> HIDE DEF q
<1>4. /\ BytesAt(q) \in Seq(Nat) /\ BytesEnd(q) = q + Len(y) /\ BytesEnd(q) <= Len(buf)
      /\ \A i \in 1..Len(y) : buf[q + i] = y[i]
  BY <1>1, <1>2, ReadBytesAre
<1>5. e \in Entries /\ e.idx = U32At(pos) /\ e.claim = BytesAt(q)
  BY <1>2, <1>4 DEF Entries
<1>6. /\ x \in Seq(Nat) /\ y \in Seq(Nat)
  BY <1>4, <1>5, EncodeEntryFacts, PutBytesFacts
<1>7. x = <<e.idx>> \o y
  BY <1>5 DEF EncodeEntry
<1> HIDE DEF e, x, y
<1>8. /\ Len(x) = Len(y) + 1 /\ x[1] = e.idx /\ \A i \in 1..Len(y) : x[i + 1] = y[i]
      /\ Len(y) \in Nat
  BY <1>2, <1>5, <1>6, <1>7
<1>9. ASSUME NEW i \in 1..Len(x) PROVE buf[pos + i] = x[i]
  <2>1. CASE i = 1
    BY <1>2, <1>5, <1>8, <2>1
  <2>2. CASE i # 1
    <3>1. i - 1 \in 1..Len(y) /\ (i - 1) + 1 = i /\ q + (i - 1) = pos + i
      BY <1>2, <1>1, <1>8, <2>2
    <3>2. x[(i - 1) + 1] = y[i - 1] /\ y[i - 1] = buf[q + (i - 1)]
      BY <1>4, <1>8, <3>1
    <3> QED BY <3>1, <3>2
  <2> QED BY <2>1, <2>2
<1>10. EntryParts(revealed') = EntryParts(revealed) \o <<x>>
  <2>1. revealed' = revealed \o <<e>> /\ <<e>> \in Seq(Entries)
    BY <1>1, <1>3, <1>5
  <2>2. EntryParts(revealed \o <<e>>) = EntryParts(revealed) \o EntryParts(<<e>>)
    BY <1>1, <2>1, EntryPartsFacts
  <2> QED BY <2>1, <2>2, SmallParts DEF x
<1>11. /\ NPart' = NPart /\ CountPart' = CountPart /\ FieldParts(fields)' = FieldParts(fields)
  BY <1>3 DEF NPart, CountPart
<1>12. Sofar' = Append(Sofar, x)
  <2> DEFINE a == CountPart \o FieldParts(fields) \o NPart
             d == EntryParts(revealed)
             S == Seq(Nat)
  <2>1. a \in Seq(S) /\ d \in Seq(S) /\ x \in S
    BY <1>1, <1>6, SofarType
  <2>2. Sofar = a \o d /\ Sofar' = a \o (d \o <<x>>)
    BY <1>10, <1>11 DEF Sofar
  <2> HIDE DEF a, d, S
  <2>3. d \o <<x>> = Append(d, x)
    BY <2>1, AppendIsConcat
  <2>4. a \o Append(d, x) = Append(a \o d, x)
    BY <2>1, ConcatAppend
  <2> QED BY <2>2, <2>3, <2>4
<1>13. pos' = pos + Len(x) /\ pos + Len(x) <= Len(buf)
  <2>1. Len(x) = Len(y) + 1 /\ Len(y) \in Nat
    BY <1>8
  <2>2. BytesEnd(q) = q + Len(y) /\ BytesEnd(q) <= Len(buf)
    BY <1>4
  <2> QED BY <1>1, <1>2, <1>3, <2>1, <2>2
<1> QED
  BY <1>1, <1>3, <1>6, <1>9, <1>12, <1>13, ReadInvStep

(* No step of a decoder leaves what its phases know.                       *)
LEMMA NextParseInv ==
    ASSUME IInv, ParseInv, Next
    PROVE  ParseInv'
<1> USE DEF kind, buf
<1>0. /\ kind \in Kinds /\ fields \in Seq(Seq(Nat)) /\ Len(fields) \in Nat
      /\ revealed \in Seq(Entries) /\ Len(revealed) \in Nat
      /\ mcount \in Nat /\ pos \in Nat /\ FieldCount(kind) \in Nat
      /\ FieldCount("vote") = 3 /\ FieldCount("selective") = 1 /\ FieldCount("revealed") = 0
  BY DEF IInv, TypeOK, Kinds, FieldCount
<1>1. CASE ReadCount
  <2>1. U32At(pos) \in Nat /\ U32At(pos) # 0
    BY <1>0, <1>1, U32Facts DEF IInv, ReadCount, CountOk
  <2>2. kind # "revealed" /\ fields = <<>> /\ Len(fields) = 0
    BY <1>1 DEF ReadCount, ParseInv
  <2>3. 0 < FieldCount(kind)
    BY <1>0, <2>2 DEF Kinds
  <2> QED
    BY <1>0, <1>1, <2>1, <2>2, <2>3 DEF ReadCount, ParseInv
<1>2. CASE ReadField
  <2>1. HasBytes(pos) /\ phase = "fields" /\ kind # "revealed" /\ Len(fields) < FieldCount(kind)
    BY <1>2 DEF ReadField, FieldOk, ParseInv
  <2>2. BytesAt(pos) \in Seq(Nat)
    BY <1>0, <2>1, BytesFacts DEF IInv
  <2>3. /\ fields' = Append(fields, BytesAt(pos)) /\ Len(fields') = Len(fields) + 1
        /\ fields'[Len(fields) + 1] = BytesAt(pos)
        /\ \A i \in 1..Len(fields) : fields'[i] = fields[i]
    BY <1>0, <1>2, <2>2 DEF ReadField
  <2>4. kind = "vote" /\ Len(fields) + 1 >= 3 => fields'[3] \in Points \ {Identity}
    <3>1. ASSUME kind = "vote", Len(fields) + 1 >= 3
          PROVE  fields'[3] = BytesAt(pos) /\ Len(fields) = 2
      <4>1. FieldCount(kind) = 3
        BY <1>0, <3>1
      <4>2. Len(fields) = 2 /\ Len(fields) + 1 = 3
        <5>1. Len(fields) \in Nat /\ Len(fields) < 3
          BY <1>0, <2>1, <4>1
        <5>2. Len(fields) + 1 >= 3
          BY <3>1
        <5> DEFINE k == Len(fields)
        <5> HIDE DEF k
        <5>3. k \in Nat /\ k < 3 /\ k + 1 >= 3
          BY <5>1, <5>2 DEF k
        <5>4. k = 2 /\ k + 1 = 3
          BY <5>3
        <5> QED BY <5>4 DEF k
      <4> QED BY <2>3, <4>2
    <3> QED BY <1>2, <3>1 DEF ReadField, FieldOk
  <2>5. /\ phase' = IF Len(fields) + 1 = FieldCount(kind) THEN "n" ELSE "fields"
        /\ UNCHANGED <<input, mcount, n, revealed, prev, outcome>> /\ outcome = "reading"
    BY <1>2 DEF ReadField
  <2> QED
    BY <1>0, <2>1, <2>3, <2>4, <2>5 DEF ParseInv
<1>3. CASE ReadN
  BY <1>0, <1>3 DEF ReadN, ParseInv
<1>4. CASE ReadEntry
  <2> DEFINE e == [idx |-> U32At(pos), claim |-> BytesAt(U32End(pos))]
  <2>1. revealed' = Append(revealed, e) /\ prev' = e.idx
    BY <1>4 DEF ReadEntry
  <2> HIDE DEF e
  <2>2. revealed'[Len(revealed')] = e
    BY <1>0, <2>1
  <2> QED
    BY <1>0, <1>4, <2>1, <2>2 DEF ReadEntry, ParseInv
<1>5. CASE Accept
  BY <1>0, <1>5 DEF Accept, ParseInv
<1>6. CASE Reject
  BY <1>0, <1>6 DEF Reject, ParseInv
<1> QED
  BY <1>1, <1>2, <1>3, <1>4, <1>5, <1>6 DEF Next

(* What has been read is the encoding of what was decoded, at every step.  *)
LEMMA NextReadInv ==
    ASSUME IInv, ParseInv, ReadInv, [Next]_vars
    PROVE  ReadInv'
<1>1. CASE Accept \/ Reject \/ UNCHANGED vars
  <2>1. UNCHANGED <<input, pos, phase, mcount, fields, n, revealed>>
    BY <1>1 DEF Accept, Reject, vars
  <2>2. buf' = buf /\ kind' = kind
    BY <2>1 DEF buf, kind
  <2>3. Sofar' = Sofar
    BY <2>1, <2>2 DEF Sofar, CountPart, NPart
  <2> QED
    BY <2>1, <2>2, <2>3 DEF ReadInv
<1> QED
  BY <1>1, ReadCountReads, ReadFieldReads, ReadNReads, ReadEntryReads DEF Next

(* Nothing read, nothing decoded.                                          *)
LEMMA InitReads ==
    ASSUME Init
    PROVE  ParseInv /\ ReadInv
<1>1. ParseInv
  BY InputsAssumption DEF Init, ParseInv, Kinds, FieldCount, kind, buf
<1>2. CountPart = <<>> /\ NPart = <<>> /\ FieldParts(fields) = <<>> /\ EntryParts(revealed) = <<>>
  BY SmallParts DEF Init, CountPart, NPart
<1>3. Sofar = <<>>
  BY <1>2 DEF Sofar
<1>4. buf \in Seq(Nat) /\ pos = 0
  BY InputsAssumption DEF Init, buf
<1>5. SubSeq(buf, 1, pos) = <<>>
  BY <1>4
<1>6. ReadInv
  BY <1>3, <1>5, FlattenEmpty DEF ReadInv
<1> QED
  BY <1>1, <1>6

(* Between two fields the decoder knows what it has read and decoded.      *)
THEOREM ReadInvariance == Spec => [](IInv /\ ParseInv /\ ReadInv)
<1>1. Init => ParseInv /\ ReadInv
  BY InitReads
<1>2. IInv /\ ParseInv /\ ReadInv /\ [Next]_vars => ParseInv' /\ ReadInv'
  <2> SUFFICES ASSUME IInv, ParseInv, ReadInv, [Next]_vars PROVE ParseInv' /\ ReadInv'
    OBVIOUS
  <2>1. ParseInv'
    <3>1. CASE UNCHANGED vars
      BY <3>1 DEF ParseInv, vars, kind, buf
    <3> QED BY <3>1, NextParseInv
  <2> QED BY <2>1, NextReadInv
<1> QED
  BY <1>1, <1>2, Invariance, PTL DEF Spec

(* An accepted buffer is the encoding of what was decoded from it, of any  *)
(* length, so no two buffers decode to one message; and what was decoded   *)
(* is well formed.                                                         *)
THEOREM AcceptedBuffersAreCanonical == Spec => []AcceptedIsCanonical
<1>1. IInv /\ ParseInv /\ ReadInv => AcceptedIsCanonical
  <2> SUFFICES ASSUME IInv, ParseInv, ReadInv, outcome = "ok"
               PROVE  WellFormed(Decoded) /\ Encode(Decoded) = buf
    BY DEF AcceptedIsCanonical
  <2>1. /\ phase = "entries" /\ Len(revealed) = n /\ pos = Len(buf) /\ buf \in Seq(Nat)
        /\ Len(fields) = FieldCount(kind)
        /\ kind # "revealed" => mcount >= 1
    BY DEF ParseInv, IInv, TypeOK
  <2>2. Parts(Decoded) = Sofar
    BY <2>1 DEF Parts, Decoded, Sofar, CountPart, NPart
  <2>3. SubSeq(buf, 1, pos) = buf
    BY <2>1
  <2>4. Encode(Decoded) = buf
    BY <2>2, <2>3 DEF ReadInv, Encode
  <2> DEFINE m == Decoded
  <2>5. m.kind = kind /\ m.mcount = mcount /\ m.fields = fields /\ m.revealed = revealed
    BY DEF Decoded
  <2>6. m.kind # "revealed" => m.mcount \in 1..MAX_BBS_MESSAGES
    <3>1. mcount \in Nat /\ mcount <= MAX_BBS_MESSAGES
      BY DEF IInv, TypeOK, LoopInv
    <3>2. kind # "revealed" => mcount \in 1..MAX_BBS_MESSAGES
      BY <2>1, <3>1, MaxAssumption
    <3> HIDE DEF m
    <3> QED BY <2>5, <3>2
  <2>7. Len(m.revealed) <= MAX_BBS_MESSAGES
    BY <2>1, <2>5 DEF IInv, LoopInv
  <2>8. ASSUME NEW i \in 1..Len(m.revealed)
        PROVE  /\ m.kind # "revealed" => m.revealed[i].idx < m.mcount
               /\ m.kind = "vote" => m.revealed[i].idx # VOTER_SECRET_MSG_INDEX
               /\ \A j \in 1..(i - 1) : m.revealed[j].idx < m.revealed[i].idx
    <3>1. Len(revealed) \in Nat /\ i \in 1..Len(revealed)
      BY <2>5 DEF IInv, TypeOK
    <3>2. \A j \in 1..(i - 1) : j \in 1..Len(revealed) /\ j < i
      BY <3>1
    <3> QED BY <2>5, <3>1, <3>2 DEF IInv, EntriesInOrder
  <2>9. m.kind = "vote" => m.fields[3] \in Points \ {Identity}
    <3>1. FieldCount("vote") = 3
      BY DEF FieldCount
    <3>2. kind = "vote" => fields[3] \in Points \ {Identity}
      BY <2>1, <3>1 DEF ParseInv
    <3> HIDE DEF m
    <3> QED BY <2>5, <3>2
  <2>10. WellFormed(m)
    <3> HIDE DEF m
    <3> QED BY <2>6, <2>7, <2>8, <2>9 DEF WellFormed
  <2> QED
    BY <2>4, <2>10
<1> QED
  BY <1>1, ReadInvariance, PTL
-----------------------------------------------------------------------------
(* On the encoding of a well-formed message the decoder has decoded the    *)
(* beginning of that message and refuses nothing.                          *)
Follows(m) ==
    /\ kind # "revealed" /\ phase # "count" => mcount = m.mcount
    /\ \E rest \in Seq(Seq(Nat)) : m.fields = fields \o rest
    /\ phase = "entries" => n = Len(m.revealed)
    /\ \E rest \in Seq(Entries) : m.revealed = revealed \o rest
    /\ outcome # "err"

Encodes(m) == m.kind = kind /\ WellFormed(m) /\ Encode(m) = buf

FollowInv == \A m \in Messages : Encodes(m) => Follows(m)

(* If the parts read are a beginning of the buffer's, the next one lies at *)
(* the read position.                                                      *)
LEMMA NextPartLies ==
    ASSUME NEW b \in Seq(Nat), NEW p \in 0..Len(b), NEW ss \in Seq(Seq(Nat)),
           NEW x \in Seq(Nat), NEW tt \in Seq(Seq(Nat)),
           SubSeq(b, 1, p) = FlattenSeq(ss), b = FlattenSeq(ss \o (<<x>> \o tt))
    PROVE  p + Len(x) <= Len(b) /\ \A i \in 1..Len(x) : b[p + i] = x[i]
<1> DEFINE s == FlattenSeq(ss)
           t == FlattenSeq(tt)
           xt == <<x>> \o tt
<1>1. s \in Seq(Nat) /\ t \in Seq(Nat) /\ <<x>> \in Seq(Seq(Nat)) /\ xt \in Seq(Seq(Nat))
  <2>1. <<>> \in Seq(Nat) /\ <<x>> \in Seq(Seq(Nat))
    OBVIOUS
  <2>2. s \in Seq(Nat) /\ t \in Seq(Nat)
    BY <2>1, FlattenAppend
  <2> QED BY <2>1, <2>2, ConcatProperties
<1>2. FlattenSeq(<<x>>) = x
  <2>1. <<x>> = Append(<<>>, x) /\ <<>> \in Seq(Seq(Nat)) /\ <<>> \o x = x
    OBVIOUS
  <2> QED BY <2>1, FlattenAppend, FlattenEmpty
<1>3. FlattenSeq(xt) = x \o t
  BY <1>1, <1>2, FlattenConcat
<1>4. b = s \o (x \o t)
  <2>1. b = FlattenSeq(ss \o xt)
    OBVIOUS
  <2> HIDE DEF xt
  <2>2. FlattenSeq(ss \o xt) = FlattenSeq(ss) \o FlattenSeq(xt)
    BY <1>1, FlattenConcat
  <2> QED BY <1>3, <2>1, <2>2
<1>5. Len(s) = p
  BY DEF s
<1> HIDE DEF s, t, xt
<1>6. /\ x \o t \in Seq(Nat) /\ Len(x \o t) = Len(x) + Len(t)
      /\ \A i \in 1..Len(x) : (x \o t)[i] = x[i]
      /\ Len(x) \in Nat /\ Len(t) \in Nat
  BY <1>1
<1> DEFINE u == x \o t
<1> HIDE DEF u
<1>7. /\ Len(s \o u) = p + Len(u) /\ \A i \in 1..Len(u) : (s \o u)[p + i] = u[i]
  <2>1. u \in Seq(Nat) /\ s \in Seq(Nat)
    BY <1>1, <1>6 DEF u
  <2>2. /\ Len(s \o u) = Len(s) + Len(u)
        /\ \A i \in 1..(Len(s) + Len(u)) :
              (s \o u)[i] = IF i <= Len(s) THEN s[i] ELSE u[i - Len(s)]
    BY <2>1, ConcatProperties
  <2>3. ASSUME NEW i \in 1..Len(u) PROVE (s \o u)[p + i] = u[i]
    <3>1. Len(u) \in Nat /\ p \in Nat
      BY <2>1
    <3>2. p + i \in 1..(p + Len(u)) /\ ~(p + i <= p) /\ (p + i) - p = i
      BY <3>1
    <3> QED BY <1>5, <2>2, <3>2
  <2> QED BY <1>5, <2>2, <2>3
<1>8. b = s \o u /\ Len(u) = Len(x) + Len(t) /\ \A i \in 1..Len(x) : u[i] = x[i]
  BY <1>4, <1>6 DEF u
<1>9. p + Len(x) <= Len(b)
  BY <1>6, <1>7, <1>8
<1>10. \A i \in 1..Len(x) : i \in 1..Len(u)
  BY <1>6, <1>8
<1> QED
  BY <1>7, <1>8, <1>9, <1>10

(* When there is no next part the buffer has been read to its end.         *)
LEMMA NoNextPart ==
    ASSUME NEW b \in Seq(Nat), NEW p \in 0..Len(b), SubSeq(b, 1, p) = b
    PROVE  p = Len(b)
<1>1. Len(SubSeq(b, 1, p)) = p
  OBVIOUS
<1> QED
  BY <1>1

(* A word or a length-prefixed string that lies in the buffer is read.     *)
LEMMA WordLies ==
    ASSUME TypeOK, Len(buf) <= USIZE_MAX, NEW p \in Nat, p + 1 <= Len(buf)
    PROVE  HasU32(p) /\ U32End(p) = p + 1 /\ U32At(p) = buf[p + 1] /\ buf[p + 1] \in Nat
<1>1. U32End(p) = p + 1
  <2>1. Len(buf) \in Nat
    BY DEF TypeOK
  <2>2. p + 1 <= USIZE_MAX
    BY <2>1, UsizeAssumption
  <2> QED BY <2>2 DEF U32End, CheckedAdd
<1>2. HasU32(p)
  BY <1>1 DEF HasU32, Fits, NoPos
<1> QED
  BY <1>1, <1>2 DEF U32At, TypeOK

LEMMA StringLies ==
    ASSUME TypeOK, Len(buf) <= USIZE_MAX, NEW p \in Nat, NEW f \in Seq(Nat),
           p + Len(PutBytes(f)) <= Len(buf),
           \A i \in 1..Len(PutBytes(f)) : buf[p + i] = PutBytes(f)[i]
    PROVE  HasBytes(p) /\ BytesAt(p) = f
<1> DEFINE len == Len(f)
<1>1. /\ Len(PutBytes(f)) = len + 1 /\ PutBytes(f)[1] = len /\ len \in Nat
      /\ \A i \in 1..len : PutBytes(f)[i + 1] = f[i]
  <2>1. Len(f) \in Nat
    OBVIOUS
  <2> QED BY <2>1, PutBytesFacts
<1>2. buf[p + 1] = len /\ p + 1 + len <= Len(buf) /\ \A i \in 1..len : buf[p + 1 + i] = f[i]
  <2>1. p + 1 + len <= Len(buf)
    BY <1>1
  <2>2. 1 \in 1..Len(PutBytes(f))
    BY <1>1
  <2>3. ASSUME NEW i \in 1..len PROVE buf[p + 1 + i] = f[i]
    <3>1. i + 1 \in 1..Len(PutBytes(f)) /\ p + (i + 1) = p + 1 + i
      BY <1>1
    <3>2. buf[p + (i + 1)] = PutBytes(f)[i + 1]
      BY <3>1
    <3> QED BY <1>1, <3>1, <3>2
  <2> QED BY <1>1, <2>1, <2>2, <2>3
<1> HIDE DEF len
<1>3. HasU32(p) /\ U32End(p) = p + 1 /\ U32At(p) = len
  <2>1. p + 1 <= Len(buf)
    BY <1>1, <1>2 DEF TypeOK
  <2> QED BY <1>2, <2>1, WordLies
<1>4. BytesEnd(p) = p + 1 + len
  <2>1. Len(buf) \in Nat /\ len \in Nat /\ p + 1 + len <= Len(buf)
    BY <1>1, <1>2 DEF TypeOK
  <2>2. p + 1 + len <= USIZE_MAX
    BY <2>1, UsizeAssumption
  <2> QED BY <1>3, <2>2 DEF BytesEnd, CheckedAdd
<1>5. HasBytes(p)
  BY <1>1, <1>2, <1>3, <1>4 DEF HasBytes, Fits, NoPos
<1> DEFINE b == BytesAt(p)
<1>6. /\ b \in Seq(Nat) /\ p + 1 + len = p + Len(PutBytes(b))
      /\ \A i \in 1..Len(PutBytes(b)) : buf[p + i] = PutBytes(b)[i]
  BY <1>4, <1>5, ReadBytesAre
<1> HIDE DEF b
<1>7. /\ Len(PutBytes(b)) = Len(b) + 1 /\ Len(b) \in Nat
      /\ \A i \in 1..Len(b) : PutBytes(b)[i + 1] = b[i]
  <2>1. b \in Seq(Nat) /\ Len(b) \in Nat
    BY <1>6
  <2> QED BY <2>1, PutBytesFacts
<1>8. Len(b) = len
  BY <1>1, <1>6, <1>7
<1>9. ASSUME NEW i \in 1..len PROVE b[i] = f[i]
  <2>1. i + 1 \in 1..Len(PutBytes(b)) /\ p + (i + 1) = p + 1 + i
    BY <1>1, <1>7, <1>8
  <2>2. buf[p + (i + 1)] = PutBytes(b)[i + 1]
    BY <1>6, <2>1
  <2> QED BY <1>2, <1>7, <1>8, <2>1, <2>2
<1>10. b = f
  BY <1>6, <1>8, <1>9, SeqEqual DEF len
<1> QED
  BY <1>5, <1>10 DEF b

(* Concatenation, kept folded where only its laws are needed.              *)
Cat(s, t) == s \o t

LEMMA CatLaws ==
    ASSUME NEW S
    PROVE  /\ <<>> \in Seq(S) /\ \A x \in S : <<x>> \in Seq(S)
           /\ \A s, t \in Seq(S) : Cat(s, t) \in Seq(S)
           /\ \A s, t, u \in Seq(S) : Cat(Cat(s, t), u) = Cat(s, Cat(t, u))
           /\ \A s \in Seq(S) : Cat(s, <<>>) = s /\ Cat(<<>>, s) = s
<1>1. ASSUME NEW s \in Seq(S), NEW t \in Seq(S) PROVE Cat(s, t) \in Seq(S)
  BY ConcatProperties DEF Cat
<1>2. ASSUME NEW s \in Seq(S), NEW t \in Seq(S), NEW u \in Seq(S)
      PROVE  Cat(Cat(s, t), u) = Cat(s, Cat(t, u))
  BY ConcatAssociative DEF Cat
<1>3. ASSUME NEW s \in Seq(S) PROVE Cat(s, <<>>) = s /\ Cat(<<>>, s) = s
  BY ConcatEmptySeq DEF Cat
<1>4. <<>> \in Seq(S) /\ \A x \in S : <<x>> \in Seq(S)
  OBVIOUS
<1> QED
  BY <1>1, <1>2, <1>3, <1>4

(* Where the next part x of a message lies in its four stretches, when     *)
(* those before it have been read.                                         *)
Ahead(S, a, b, c, d, e, x) ==
    /\ <<x>> \o b \o c \o d = (<<>> \o <<>> \o <<>> \o <<>>) \o (<<x>> \o (b \o c \o d))
    /\ a \o (b \o (<<x>> \o e)) \o c \o d
           = (a \o b \o <<>> \o <<>>) \o (<<x>> \o (e \o c \o d))
    /\ a \o b \o <<x>> \o d = (a \o b \o <<>> \o <<>>) \o (<<x>> \o d)
    /\ a \o b \o c \o (d \o (<<x>> \o e)) = (a \o b \o c \o d) \o (<<x>> \o e)
    /\ b \o c \o d \in Seq(S) /\ e \o c \o d \in Seq(S)

LEMMA NextAhead ==
    ASSUME NEW S, NEW a \in Seq(S), NEW b \in Seq(S), NEW c \in Seq(S), NEW d \in Seq(S),
           NEW e \in Seq(S), NEW x \in S
    PROVE  Ahead(S, a, b, c, d, e, x)
<1> DEFINE Q == Seq(S)
           y == <<x>>
           o == <<>>
<1>1. /\ o \in Q /\ y \in Q /\ \A s, t \in Q : Cat(s, t) \in Q
      /\ \A s, t, u \in Q : Cat(Cat(s, t), u) = Cat(s, Cat(t, u))
      /\ \A s \in Q : Cat(s, o) = s /\ Cat(o, s) = s
  BY CatLaws
<1>2. a \in Q /\ b \in Q /\ c \in Q /\ d \in Q /\ e \in Q
  OBVIOUS
<1> HIDE DEF Q, y, o
<1>3. Cat(Cat(Cat(y, b), c), d) = Cat(Cat(Cat(Cat(o, o), o), o), Cat(y, Cat(Cat(b, c), d)))
  BY <1>1, <1>2
<1>4. Cat(Cat(Cat(a, Cat(b, Cat(y, e))), c), d)
          = Cat(Cat(Cat(Cat(a, b), o), o), Cat(y, Cat(Cat(e, c), d)))
  <2>1. Cat(a, b) \in Q /\ Cat(y, e) \in Q /\ Cat(e, c) \in Q
    BY <1>1, <1>2
  <2>2. Cat(a, Cat(b, Cat(y, e))) = Cat(Cat(a, b), Cat(y, e))
    BY <1>1, <1>2, <2>1
  <2>3. Cat(Cat(y, e), c) \in Q /\ Cat(Cat(y, e), c) = Cat(y, Cat(e, c))
    BY <1>1, <1>2, <2>1
  <2>4. Cat(Cat(Cat(a, b), Cat(y, e)), c) = Cat(Cat(a, b), Cat(y, Cat(e, c)))
    BY <1>1, <1>2, <2>1, <2>3
  <2>5. Cat(y, Cat(e, c)) \in Q /\ Cat(Cat(y, Cat(e, c)), d) = Cat(y, Cat(Cat(e, c), d))
    BY <1>1, <1>2, <2>1
  <2>6. Cat(Cat(Cat(a, b), Cat(y, Cat(e, c))), d) = Cat(Cat(a, b), Cat(Cat(y, Cat(e, c)), d))
    BY <1>1, <1>2, <2>1, <2>5
  <2>7. Cat(Cat(Cat(a, b), o), o) = Cat(a, b)
    BY <1>1, <2>1
  <2> QED BY <2>2, <2>4, <2>5, <2>6, <2>7
<1>5. Cat(Cat(Cat(a, b), y), d) = Cat(Cat(Cat(Cat(a, b), o), o), Cat(y, d))
  BY <1>1, <1>2
<1>6. Cat(Cat(Cat(a, b), c), Cat(d, Cat(y, e))) = Cat(Cat(Cat(Cat(a, b), c), d), Cat(y, e))
  <2>1. Cat(Cat(a, b), c) \in Q /\ Cat(y, e) \in Q
    BY <1>1, <1>2
  <2> DEFINE abc == Cat(Cat(a, b), c)
             ye == Cat(y, e)
  <2> HIDE DEF abc, ye
  <2>2. Cat(Cat(abc, d), ye) = Cat(abc, Cat(d, ye))
    <3>1. abc \in Q /\ ye \in Q
      BY <2>1 DEF abc, ye
    <3> QED BY <1>1, <1>2, <3>1
  <2> QED BY <2>2 DEF abc, ye
<1>7. Cat(Cat(b, c), d) \in Q /\ Cat(Cat(e, c), d) \in Q
  BY <1>1, <1>2
<1>8. /\ b \o c \o d \in Q /\ e \o c \o d \in Q
  BY <1>7, Zenon DEF Cat
<1>9. y \o b \o c \o d = (o \o o \o o \o o) \o (y \o (b \o c \o d))
  BY <1>3, Zenon DEF Cat
<1>10. a \o (b \o (y \o e)) \o c \o d = (a \o b \o o \o o) \o (y \o (e \o c \o d))
  BY <1>4, Zenon DEF Cat
<1>11. a \o b \o y \o d = (a \o b \o o \o o) \o (y \o d)
  BY <1>5, Zenon DEF Cat
<1>12. a \o b \o c \o (d \o (y \o e)) = (a \o b \o c \o d) \o (y \o e)
  BY <1>6, Zenon DEF Cat
<1> QED
  BY <1>8, <1>9, <1>10, <1>11, <1>12, Zenon DEF Ahead, Q, y, o

(* The part that comes next in the buffer's message lies at the position.  *)
LEMMA PartAhead ==
    ASSUME TypeOK, ReadInv, NEW m, Encode(m) = buf, NEW x \in Seq(Nat),
           NEW tt \in Seq(Seq(Nat)), Parts(m) = Sofar \o (<<x>> \o tt)
    PROVE  pos + Len(x) <= Len(buf) /\ \A i \in 1..Len(x) : buf[pos + i] = x[i]
<1>1. buf \in Seq(Nat) /\ pos \in 0..Len(buf) /\ Sofar \in Seq(Seq(Nat))
  BY SofarType DEF TypeOK
<1>2. SubSeq(buf, 1, pos) = FlattenSeq(Sofar) /\ buf = FlattenSeq(Sofar \o (<<x>> \o tt))
  BY DEF ReadInv, Encode
<1> QED
  BY <1>1, <1>2, NextPartLies

(* A beginning of a list, and what follows it.                             *)
GoesOn(S, s, l) == \E f \in S, e \in Seq(S) : l = s \o (<<f>> \o e) /\ l[Len(s) + 1] = f

LEMMA SplitRest ==
    ASSUME NEW S, NEW s \in Seq(S), NEW l \in Seq(S), \E rest \in Seq(S) : l = s \o rest
    PROVE  /\ Len(s) <= Len(l) /\ \A i \in 1..Len(s) : l[i] = s[i]
           /\ Len(s) = Len(l) => s = l
           /\ Len(s) < Len(l) => GoesOn(S, s, l)
<1>1. PICK rest \in Seq(S) : l = s \o rest
  OBVIOUS
<1>2. /\ Len(s) \in Nat /\ Len(rest) \in Nat /\ Len(l) = Len(s) + Len(rest)
      /\ \A i \in 1..(Len(s) + Len(rest)) :
            l[i] = IF i <= Len(s) THEN s[i] ELSE rest[i - Len(s)]
  BY <1>1, ConcatProperties
<1>3. Len(s) <= Len(l) /\ \A i \in 1..Len(s) : l[i] = s[i]
  BY <1>2
<1>4. ASSUME Len(s) = Len(l) PROVE s = l
  BY <1>3, <1>4, SeqEqual
<1>5. ASSUME Len(s) < Len(l) PROVE GoesOn(S, s, l)
  <2>1. rest # <<>> /\ 1 \in 1..Len(rest)
    BY <1>2, <1>5
  <2>2. PICK f \in S : f = rest[1]
    BY <2>1
  <2>3. PICK e \in Seq(S) : e = Tail(rest)
    BY <2>1, HeadTailProperties
  <2>4. rest = <<f>> \o e
    <3>1. /\ Len(e) = Len(rest) - 1 /\ \A i \in 1..Len(e) : e[i] = rest[i + 1]
      BY <2>1, <2>3, HeadTailProperties
    <3>2. /\ <<f>> \in Seq(S) /\ Len(<<f>>) = 1 /\ <<f>>[1] = f
      OBVIOUS
    <3>3. /\ <<f>> \o e \in Seq(S) /\ Len(<<f>> \o e) = 1 + Len(e)
          /\ \A i \in 1..(1 + Len(e)) : (<<f>> \o e)[i] = IF i <= 1 THEN f ELSE e[i - 1]
      BY <3>2, ConcatProperties
    <3>4. Len(<<f>> \o e) = Len(rest)
      BY <1>2, <3>1, <3>3
    <3>5. ASSUME NEW i \in 1..Len(rest) PROVE (<<f>> \o e)[i] = rest[i]
      <4>1. CASE i = 1
        BY <2>2, <3>3, <3>4, <4>1
      <4>2. CASE i # 1
        <5>1. i - 1 \in 1..Len(e) /\ ~(i <= 1) /\ (i - 1) + 1 = i /\ i \in 1..(1 + Len(e))
          BY <1>2, <3>1, <4>2
        <5>2. e[i - 1] = rest[(i - 1) + 1]
          BY <3>1, <5>1
        <5> QED BY <3>3, <5>1, <5>2
      <4> QED BY <4>1, <4>2
    <3> QED BY <3>3, <3>4, <3>5, SeqEqual
  <2>5. l[Len(s) + 1] = f
    <3>1. Len(s) + 1 \in 1..(Len(s) + Len(rest)) /\ ~(Len(s) + 1 <= Len(s))
          /\ (Len(s) + 1) - Len(s) = 1
      BY <1>2, <1>5
    <3> QED BY <1>2, <2>2, <3>1
  <2> QED BY <1>1, <2>4, <2>5 DEF GoesOn
<1> QED
  BY <1>3, <1>4, <1>5

(* A well-formed message reveals no more entries than it has messages.     *)
LEMMA EntriesWithinCount ==
    ASSUME NEW m \in Messages, WellFormed(m), m.kind # "revealed"
    PROVE  Len(m.revealed) <= m.mcount
<1> DEFINE r == m.revealed
           len == Len(r)
           T == {k \in Nat : k + 1 <= len => r[k + 1].idx >= k}
<1>1. r \in Seq(Entries) /\ len \in Nat /\ m.mcount \in Nat
  BY MessagesAssumption
<1>2. \A i \in 1..len : r[i] \in Entries /\ r[i].idx \in Nat
  <2>1. \A i \in 1..len : r[i] \in Entries
    <3> HIDE DEF r
    <3> QED BY <1>1
  <2>2. \A x \in Entries : x.idx \in Nat
    BY DEF Entries
  <2> QED BY <2>1, <2>2
<1>3. \A i \in 1..len : r[i].idx < m.mcount /\ \A j \in 1..(i - 1) : r[j].idx < r[i].idx
  BY Zenon DEF WellFormed
<1> HIDE DEF r, len
<1>4. 0 \in T
  BY <1>1, <1>2
<1>5. ASSUME NEW k \in Nat, k \in T PROVE k + 1 \in T
  <2> SUFFICES ASSUME k + 2 <= len PROVE r[k + 2].idx >= k + 1
    BY <1>1
  <2>1. k + 1 \in 1..len /\ k + 2 \in 1..len /\ k + 1 \in 1..(k + 2 - 1)
    BY <1>1
  <2>2. r[k + 1].idx < r[k + 2].idx /\ r[k + 1].idx \in Nat /\ r[k + 2].idx \in Nat
    BY <1>2, <1>3, <2>1
  <2>3. r[k + 1].idx >= k
    BY <1>5, <2>1
  <2> DEFINE u == r[k + 1].idx
             w == r[k + 2].idx
  <2>4. u \in Nat /\ w \in Nat /\ u < w /\ u >= k
    BY <2>2, <2>3
  <2> HIDE DEF u, w
  <2>5. w >= k + 1
    BY <2>4
  <2> QED BY <2>5 DEF w
<1>6. \A k \in Nat : k \in T
  <2> HIDE DEF T
  <2> QED BY <1>4, <1>5, NatSetInduction
<1>7. CASE len = 0
  BY <1>1, <1>7 DEF len, r
<1>8. CASE len # 0
  <2>1. len - 1 \in Nat /\ (len - 1) + 1 = len /\ len \in 1..len
    BY <1>1, <1>8
  <2>2. len - 1 \in T
    BY <1>6, <2>1
  <2>3. r[len].idx >= len - 1
    BY <2>1, <2>2
  <2>4. r[len].idx \in Nat /\ r[len].idx < m.mcount
    BY <1>2, <1>3, <2>1
  <2> DEFINE u == r[len].idx
             c == m.mcount
  <2>5. u \in Nat /\ u < c /\ u >= len - 1 /\ c \in Nat
    BY <1>1, <2>3, <2>4
  <2> HIDE DEF u, c
  <2>6. len <= c
    BY <1>1, <2>5
  <2> QED BY <2>6 DEF c, len, r
<1> QED
  BY <1>7, <1>8

(* What is known of a message whose encoding is being decoded.             *)
LEMMA MessageParts ==
    ASSUME TypeOK, NEW m \in Messages, Encodes(m)
    PROVE  /\ m.kind = kind /\ m.mcount \in Nat /\ WellFormed(m)
           /\ m.fields \in Seq(Seq(Nat)) /\ Len(m.fields) = FieldCount(kind)
           /\ m.revealed \in Seq(Entries) /\ Len(m.revealed) \in Nat
           /\ FieldParts(m.fields) \in Seq(Seq(Nat))
           /\ EntryParts(m.revealed) \in Seq(Seq(Nat))
           /\ <<Len(m.revealed)>> \in Seq(Nat) /\ <<m.mcount>> \in Seq(Nat)
           /\ Encode(m) = buf
<1>1. /\ m.kind = kind /\ m.mcount \in Nat /\ WellFormed(m) /\ Encode(m) = buf
      /\ m.fields \in Seq(Seq(Nat)) /\ Len(m.fields) = FieldCount(kind)
      /\ m.revealed \in Seq(Entries)
  BY MessagesAssumption DEF Encodes
<1> DEFINE f == m.fields
           r == m.revealed
<1>2. f \in Seq(Seq(Nat)) /\ r \in Seq(Entries)
  BY <1>1
<1> HIDE DEF f, r
<1>3. FieldParts(f) \in Seq(Seq(Nat)) /\ EntryParts(r) \in Seq(Seq(Nat)) /\ Len(r) \in Nat
  BY <1>2, FieldPartsFacts, EntryPartsFacts
<1>4. <<Len(r)>> \in Seq(Nat) /\ <<m.mcount>> \in Seq(Nat)
  BY <1>1, <1>3
<1> QED
  BY <1>1, <1>3, <1>4 DEF f, r

(* The first word is the message count, and passes its test.               *)
LEMMA CountAhead ==
    ASSUME IInv, ParseInv, ReadInv, NEW m \in Messages, Encodes(m), phase = "count"
    PROVE  CountOk /\ U32At(pos) = m.mcount
<1> DEFINE S == Seq(Nat)
           x == <<m.mcount>>
           b == FieldParts(m.fields)
           c == <<<<Len(m.revealed)>>>>
           d == EntryParts(m.revealed)
<1>1. TypeOK /\ pos \in Nat /\ Len(buf) <= USIZE_MAX /\ kind # "revealed"
  BY DEF IInv, TypeOK, ParseInv
<1>2. x \in S /\ b \in Seq(S) /\ c \in Seq(S) /\ d \in Seq(S) /\ m.mcount \in Nat
      /\ m.kind = kind /\ WellFormed(m) /\ Encode(m) = buf
  BY <1>1, MessageParts
<1>3. Len(x) = 1 /\ x[1] = m.mcount
  OBVIOUS
<1>4. Parts(m) = <<x>> \o b \o c \o d
  BY <1>1, <1>2 DEF Parts
<1>5. Sofar = <<>> \o <<>> \o <<>> \o <<>>
  <2>1. fields = <<>> /\ revealed = <<>>
    BY DEF ParseInv, IInv, LoopInv
  <2> QED BY <2>1, SmallParts DEF Sofar, CountPart, NPart
<1> HIDE DEF S, x, b, c, d
<1> DEFINE tt == b \o c \o d
<1>6. Parts(m) = Sofar \o (<<x>> \o tt) /\ tt \in Seq(S)
  <2>1. Ahead(S, b, b, c, d, d, x)
    BY <1>2, NextAhead
  <2> QED BY <1>4, <1>5, <2>1, Zenon DEF Ahead
<1> HIDE DEF tt
<1>7. pos + Len(x) <= Len(buf) /\ \A i \in 1..Len(x) : buf[pos + i] = x[i]
  BY <1>1, <1>2, <1>6, PartAhead DEF S
<1>8. pos + 1 <= Len(buf) /\ buf[pos + 1] = m.mcount
  BY <1>3, <1>7
<1>9. HasU32(pos) /\ U32At(pos) = m.mcount
  BY <1>1, <1>8, WordLies
<1>10. m.mcount \in 1..MAX_BBS_MESSAGES
  BY <1>1, <1>2 DEF WellFormed
<1>11. m.mcount # 0 /\ m.mcount <= MAX_BBS_MESSAGES
  BY <1>10, MaxAssumption
<1> QED
  BY <1>9, <1>11 DEF CountOk

(* The next string is the message's next field, and passes its test.       *)
LEMMA FieldAhead ==
    ASSUME IInv, ParseInv, ReadInv, NEW m \in Messages, Encodes(m), Follows(m),
           phase = "fields"
    PROVE  /\ FieldOk
           /\ \E rest \in Seq(Seq(Nat)) : m.fields = fields \o (<<BytesAt(pos)>> \o rest)
<1> DEFINE S == Seq(Nat)
           a == <<<<m.mcount>>>>
           b == FieldParts(fields)
           c == <<<<Len(m.revealed)>>>>
           d == EntryParts(m.revealed)
           F == m.fields
<1>1. /\ TypeOK /\ pos \in Nat /\ Len(buf) <= USIZE_MAX /\ kind # "revealed"
      /\ fields \in Seq(Seq(Nat)) /\ mcount = m.mcount /\ Len(fields) < FieldCount(kind)
  BY DEF IInv, TypeOK, ParseInv, Follows
<1>2. /\ a \in Seq(S) /\ b \in Seq(S) /\ c \in Seq(S) /\ d \in Seq(S)
      /\ m.kind = kind /\ WellFormed(m) /\ Encode(m) = buf
      /\ F \in Seq(Seq(Nat)) /\ Len(F) = FieldCount(kind)
  BY <1>1, MessageParts, SofarType
<1>3. PICK f \in Seq(Nat), g \in Seq(Seq(Nat)) :
         F = fields \o (<<f>> \o g) /\ F[Len(fields) + 1] = f
  <2>1. \E rest \in Seq(S) : F = fields \o rest
    BY DEF Follows
  <2>2. Len(fields) < Len(F)
    BY <1>1, <1>2
  <2>3. fields \in Seq(S) /\ F \in Seq(S)
    BY <1>1, <1>2
  <2> HIDE DEF F, S
  <2>4. GoesOn(S, fields, F)
    BY <2>1, <2>2, <2>3, SplitRest
  <2> QED BY <2>4 DEF GoesOn, S
<1> DEFINE x == PutBytes(f)
           e == FieldParts(g)
<1>4. x \in S /\ e \in Seq(S)
  BY PutBytesFacts, FieldPartsFacts
<1>5. FieldParts(F) = b \o (<<x>> \o e)
  <2>1. <<f>> \in Seq(Seq(Nat)) /\ <<f>> \o g \in Seq(Seq(Nat))
    <3>1. <<f>> \in Seq(Seq(Nat))
      OBVIOUS
    <3> QED BY <3>1, ConcatProperties
  <2>2. FieldParts(<<f>> \o g) = FieldParts(<<f>>) \o FieldParts(g)
    BY <2>1, FieldPartsFacts
  <2> DEFINE h == <<f>> \o g
  <2> HIDE DEF h
  <2>3. FieldParts(fields \o h) = FieldParts(fields) \o FieldParts(h)
    BY <1>1, <2>1, FieldPartsFacts DEF h
  <2>4. FieldParts(<<f>>) = <<x>>
    BY SmallParts
  <2> QED BY <1>3, <2>2, <2>3, <2>4, Zenon DEF h
<1>6. Parts(m) = a \o (b \o (<<x>> \o e)) \o c \o d
  <2>1. Parts(m) = a \o FieldParts(F) \o c \o d
    BY <1>1, <1>2, Zenon DEF Parts
  <2> QED BY <1>5, <2>1, Zenon
<1>7. Sofar = a \o b \o <<>> \o <<>>
  <2>1. revealed = <<>>
    BY DEF IInv, LoopInv
  <2>2. CountPart = a /\ NPart = <<>> /\ EntryParts(revealed) = <<>>
    BY <1>1, <2>1, SmallParts DEF CountPart, NPart
  <2> QED BY <2>2, Zenon DEF Sofar
<1> HIDE DEF S, a, b, c, d, e, x, F
<1> DEFINE tt == e \o c \o d
<1>8. Parts(m) = Sofar \o (<<x>> \o tt) /\ tt \in Seq(S)
  <2>1. Ahead(S, a, b, c, d, e, x)
    BY <1>2, <1>4, NextAhead
  <2> QED BY <1>6, <1>7, <2>1, Zenon DEF Ahead
<1> HIDE DEF tt
<1>9. pos + Len(x) <= Len(buf) /\ \A i \in 1..Len(x) : buf[pos + i] = x[i]
  BY <1>1, <1>2, <1>4, <1>8, PartAhead DEF S
<1>10. HasBytes(pos) /\ BytesAt(pos) = f
  BY <1>1, <1>9, StringLies DEF x
<1>11. kind = "vote" /\ Len(fields) = 2 => f \in Points \ {Identity}
  <2>1. m.kind = "vote" => m.fields[3] \in Points \ {Identity}
    BY <1>2 DEF WellFormed
  <2>2. Len(fields) = 2 => Len(fields) + 1 = 3
    OBVIOUS
  <2> QED BY <1>2, <1>3, <2>1, <2>2 DEF F
<1> QED
  BY <1>3, <1>10, <1>11 DEF FieldOk, F

(* The next word is the number of entries, and passes its test.            *)
LEMMA NAhead ==
    ASSUME IInv, ParseInv, ReadInv, NEW m \in Messages, Encodes(m), Follows(m), phase = "n"
    PROVE  NOk /\ U32At(pos) = Len(m.revealed)
<1> DEFINE S == Seq(Nat)
           a == IF m.kind = "revealed" THEN <<>> ELSE <<<<m.mcount>>>>
           b == FieldParts(m.fields)
           x == <<Len(m.revealed)>>
           d == EntryParts(m.revealed)
           F == m.fields
<1>1. /\ TypeOK /\ pos \in Nat /\ Len(buf) <= USIZE_MAX
      /\ fields \in Seq(Seq(Nat)) /\ Len(fields) = FieldCount(kind)
      /\ kind # "revealed" => mcount = m.mcount
  BY DEF IInv, TypeOK, ParseInv, Follows
<1>2. /\ b \in Seq(S) /\ x \in S /\ d \in Seq(S) /\ Len(m.revealed) \in Nat
      /\ m.kind = kind /\ WellFormed(m) /\ Encode(m) = buf
      /\ F \in Seq(Seq(Nat)) /\ Len(F) = FieldCount(kind) /\ <<m.mcount>> \in S
  BY <1>1, MessageParts
<1>3. a \in Seq(S)
  <2> HIDE DEF S
  <2> QED BY <1>2
<1>4. fields = F
  <2>1. \E rest \in Seq(Seq(Nat)) : F = fields \o rest
    BY DEF Follows
  <2> HIDE DEF F
  <2> QED BY <1>1, <1>2, <2>1, SplitRest
<1>5. Len(x) = 1 /\ x[1] = Len(m.revealed)
  OBVIOUS
<1>6. Parts(m) = a \o b \o <<x>> \o d
  BY Zenon DEF Parts
<1>7. Sofar = a \o b \o <<>> \o <<>>
  <2>1. revealed = <<>>
    BY DEF IInv, LoopInv
  <2>2. CountPart = a /\ NPart = <<>> /\ EntryParts(revealed) = <<>>
    BY <1>1, <1>2, <2>1, SmallParts DEF CountPart, NPart
  <2> QED BY <1>4, <2>2, Zenon DEF Sofar
<1> HIDE DEF S, a, b, d, x, F
<1>8. Parts(m) = Sofar \o (<<x>> \o d)
  <2>1. Ahead(S, a, b, b, d, d, x)
    BY <1>2, <1>3, NextAhead
  <2> QED BY <1>6, <1>7, <2>1, Zenon DEF Ahead
<1>9. pos + Len(x) <= Len(buf) /\ \A i \in 1..Len(x) : buf[pos + i] = x[i]
  BY <1>1, <1>2, <1>8, PartAhead DEF S
<1>10. pos + 1 <= Len(buf) /\ buf[pos + 1] = Len(m.revealed)
  BY <1>5, <1>9
<1>11. HasU32(pos) /\ U32At(pos) = Len(m.revealed)
  BY <1>1, <1>10, WordLies
<1>12. Len(m.revealed) <= MAX_BBS_MESSAGES
  BY <1>2, Zenon DEF WellFormed
<1>13. kind # "revealed" => Len(m.revealed) <= mcount
  BY <1>1, <1>2, EntriesWithinCount
<1> QED
  BY <1>11, <1>12, <1>13 DEF NOk

(* While entries are read, what has been read is the count, the fields and *)
(* the number of entries of the message.                                   *)
LEMMA EntriesSofar ==
    ASSUME IInv, ParseInv, NEW m \in Messages, Encodes(m), Follows(m), phase = "entries"
    PROVE  \E abc \in Seq(Seq(Nat)) :
               /\ Sofar = abc \o EntryParts(revealed)
               /\ Parts(m) = abc \o EntryParts(m.revealed)
<1> DEFINE a == IF m.kind = "revealed" THEN <<>> ELSE <<<<m.mcount>>>>
           b == FieldParts(m.fields)
           c == <<<<Len(m.revealed)>>>>
           F == m.fields
<1>1. /\ TypeOK /\ fields \in Seq(Seq(Nat)) /\ Len(fields) = FieldCount(kind)
      /\ kind # "revealed" => mcount = m.mcount
      /\ n = Len(m.revealed)
  BY DEF IInv, TypeOK, ParseInv, Follows
<1>2. m.kind = kind /\ F \in Seq(Seq(Nat)) /\ Len(F) = FieldCount(kind)
  BY <1>1, MessageParts
<1>3. fields = F
  <2>1. \E rest \in Seq(Seq(Nat)) : F = fields \o rest
    BY DEF Follows
  <2> HIDE DEF F
  <2> QED BY <1>1, <1>2, <2>1, SplitRest
<1>4. CountPart = a /\ NPart = c /\ FieldParts(fields) = b
  BY <1>1, <1>2, <1>3 DEF CountPart, NPart
<1>5. /\ Parts(m) = a \o b \o c \o EntryParts(m.revealed)
      /\ Sofar = a \o b \o c \o EntryParts(revealed)
  BY <1>4, Zenon DEF Parts, Sofar
<1>6. a \in Seq(Seq(Nat)) /\ b \in Seq(Seq(Nat)) /\ c \in Seq(Seq(Nat))
  BY <1>1, <1>4, SofarType
<1> DEFINE S == Seq(Nat)
<1> HIDE DEF a, b, c, S
<1>7. a \o b \o c \in Seq(S)
  <2>1. Ahead(S, a, a, b, c, c, <<>>)
    <3>1. a \in Seq(S) /\ b \in Seq(S) /\ c \in Seq(S) /\ <<>> \in S
      BY <1>6 DEF S
    <3> QED BY <3>1, NextAhead
  <2> QED BY <2>1 DEF Ahead
<1> QED
  BY <1>5, <1>7 DEF S

(* The next index and string are the message's next entry, and pass the    *)
(* tests of the loop.                                                      *)
LEMMA EntryAhead ==
    ASSUME IInv, ParseInv, ReadInv, NEW m \in Messages, Encodes(m), Follows(m),
           phase = "entries", Len(revealed) < n
    PROVE  /\ EntryOk
           /\ \E rest \in Seq(Entries) :
                 m.revealed = revealed \o
                     (<<[idx |-> U32At(pos), claim |-> BytesAt(U32End(pos))]>> \o rest)
<1> DEFINE S == Seq(Nat)
           d == EntryParts(revealed)
           R == m.revealed
<1>1. /\ TypeOK /\ pos \in Nat /\ Len(buf) <= USIZE_MAX /\ revealed \in Seq(Entries)
      /\ kind # "revealed" => mcount = m.mcount
      /\ n = Len(m.revealed) /\ Len(revealed) \in Nat
  BY DEF IInv, TypeOK, ParseInv, Follows
<1>2. /\ m.kind = kind /\ WellFormed(m) /\ Encode(m) = buf /\ R \in Seq(Entries)
      /\ d \in Seq(S)
  BY <1>1, MessageParts, SofarType
<1>3. PICK f \in Entries, g \in Seq(Entries) :
         R = revealed \o (<<f>> \o g) /\ R[Len(revealed) + 1] = f
  <2>1. \E rest \in Seq(Entries) : R = revealed \o rest
    BY DEF Follows
  <2>2. Len(revealed) < Len(R)
    BY <1>1
  <2> HIDE DEF R
  <2>3. GoesOn(Entries, revealed, R)
    BY <1>1, <1>2, <2>1, <2>2, SplitRest
  <2> QED BY <2>3 DEF GoesOn
<1> DEFINE x == EncodeEntry(f)
           y == PutBytes(f.claim)
           e == EntryParts(g)
           k == Len(revealed) + 1
<1>4. /\ x \in S /\ e \in Seq(S) /\ y \in S /\ f.idx \in Nat /\ f.claim \in Seq(Nat)
  BY EncodeEntryFacts, EntryPartsFacts, PutBytesFacts DEF Entries
<1>5. EntryParts(R) = d \o (<<x>> \o e)
  <2>1. <<f>> \in Seq(Entries) /\ <<f>> \o g \in Seq(Entries)
    <3>1. <<f>> \in Seq(Entries)
      OBVIOUS
    <3> QED BY <3>1, ConcatProperties
  <2>2. EntryParts(<<f>> \o g) = EntryParts(<<f>>) \o EntryParts(g)
    BY <2>1, EntryPartsFacts
  <2> DEFINE h == <<f>> \o g
  <2> HIDE DEF h
  <2>3. EntryParts(revealed \o h) = EntryParts(revealed) \o EntryParts(h)
    BY <1>1, <2>1, EntryPartsFacts DEF h
  <2>4. EntryParts(<<f>>) = <<x>>
    BY SmallParts
  <2> QED BY <1>3, <2>2, <2>3, <2>4, Zenon DEF h
<1>6. PICK abc \in Seq(Seq(Nat)) : Sofar = abc \o d /\ Parts(m) = abc \o EntryParts(R)
  BY EntriesSofar
<1>7. x = <<f.idx>> \o y
  BY DEF EncodeEntry
<1> HIDE DEF S, d, e, x, y, R
<1>8. Parts(m) = Sofar \o (<<x>> \o e)
  <2>1. PICK xe \in Seq(S) : xe = <<x>> \o e
    <3>1. <<x>> \in Seq(S)
      BY <1>4
    <3> QED BY <1>4, <3>1, ConcatProperties
  <2>2. Cat(Cat(abc, d), xe) = Cat(abc, Cat(d, xe))
    <3>1. abc \in Seq(S)
      BY DEF S
    <3> QED BY <1>2, <3>1, CatLaws
  <2>3. abc \o d \o xe = abc \o (d \o xe)
    BY <2>2, Zenon DEF Cat
  <2> QED BY <1>5, <1>6, <2>1, <2>3, Zenon
<1>9. pos + Len(x) <= Len(buf) /\ \A i \in 1..Len(x) : buf[pos + i] = x[i]
  BY <1>1, <1>2, <1>4, <1>8, PartAhead DEF S
<1>10. /\ Len(x) = Len(y) + 1 /\ x[1] = f.idx /\ \A i \in 1..Len(y) : x[i + 1] = y[i]
       /\ Len(y) \in Nat
  BY <1>4, <1>7 DEF S
<1>11. HasU32(pos) /\ U32End(pos) = pos + 1 /\ U32At(pos) = f.idx
  <2>1. 1 \in 1..Len(x) /\ pos + 1 <= Len(buf)
    <3>1. Len(buf) \in Nat
      BY <1>1 DEF TypeOK
    <3> QED BY <1>1, <1>9, <1>10, <3>1
  <2>2. buf[pos + 1] = f.idx
    BY <1>9, <1>10, <2>1
  <2> QED BY <1>1, <2>1, <2>2, WordLies
<1>12. HasBytes(pos + 1) /\ BytesAt(pos + 1) = f.claim
  <2>1. (pos + 1) + Len(y) <= Len(buf)
    <3>1. Len(buf) \in Nat
      BY <1>1 DEF TypeOK
    <3> QED BY <1>1, <1>9, <1>10, <3>1
  <2>2. ASSUME NEW i \in 1..Len(y) PROVE buf[(pos + 1) + i] = y[i]
    <3>1. i + 1 \in 1..Len(x) /\ pos + (i + 1) = (pos + 1) + i
      BY <1>1, <1>10
    <3>2. buf[pos + (i + 1)] = x[i + 1]
      BY <1>9, <3>1
    <3> QED BY <1>10, <3>1, <3>2
  <2>3. pos + 1 \in Nat
    BY <1>1
  <2> QED BY <1>1, <1>4, <2>1, <2>2, <2>3, StringLies DEF y
<1>13. f = [idx |-> U32At(pos), claim |-> BytesAt(U32End(pos))]
  BY <1>11, <1>12 DEF Entries
<1>14. IndexOk(f.idx)
  <2>1. k \in 1..Len(R) /\ R[k] = f
    BY <1>1, <1>3 DEF R
  <2>2. /\ m.kind # "revealed" => R[k].idx < m.mcount
        /\ m.kind = "vote" => R[k].idx # VOTER_SECRET_MSG_INDEX
        /\ \A j \in 1..(k - 1) : R[j].idx < R[k].idx
    <3> HIDE DEF k
    <3> QED BY <1>2, <2>1, Zenon DEF WellFormed, R
  <2>3. f.idx > prev
    <3>1. CASE revealed = <<>>
      <4>1. prev = -1
        BY <3>1 DEF IInv, LoopInv
      <4> QED BY <1>4, <4>1
    <3>2. CASE revealed # <<>>
      <4>1. Len(revealed) \in 1..(k - 1) /\ Len(revealed) \in 1..Len(revealed)
        BY <1>1, <3>2
      <4>2. R[Len(revealed)] = revealed[Len(revealed)]
        <5>1. \E rest \in Seq(Entries) : R = revealed \o rest
          BY DEF Follows, R
        <5> QED BY <1>1, <1>2, <4>1, <5>1, SplitRest
      <4>3. prev = revealed[Len(revealed)].idx /\ prev \in Nat
        <5>1. prev = revealed[Len(revealed)].idx
          BY <3>2 DEF ParseInv
        <5>2. revealed[Len(revealed)] \in Entries
          BY <1>1, <4>1
        <5> QED BY <5>1, <5>2 DEF Entries
      <4>4. R[Len(revealed)].idx < R[k].idx
        BY <2>2, <4>1
      <4>5. prev < f.idx
        BY <2>1, <4>2, <4>3, <4>4
      <4> QED BY <1>4, <4>3, <4>5
    <3> QED BY <3>1, <3>2
  <2> HIDE DEF k
  <2> QED BY <1>1, <1>2, <2>1, <2>2, <2>3 DEF IndexOk
<1>15. EntryOk
  BY <1>11, <1>12, <1>14 DEF EntryOk
<1> QED
  BY <1>3, <1>13, <1>15 DEF R

(* After the last entry the buffer is at its end.                          *)
LEMMA EndAhead ==
    ASSUME IInv, ParseInv, ReadInv, NEW m \in Messages, Encodes(m), Follows(m),
           phase = "entries", ~(Len(revealed) < n)
    PROVE  pos = Len(buf)
<1> DEFINE R == m.revealed
<1>1. /\ TypeOK /\ buf \in Seq(Nat) /\ pos \in 0..Len(buf) /\ revealed \in Seq(Entries)
      /\ n = Len(R) /\ Len(revealed) \in Nat
  BY DEF IInv, TypeOK, Follows
<1>2. R \in Seq(Entries) /\ Encode(m) = buf
  BY <1>1, MessageParts
<1>3. revealed = R
  <2>1. \E rest \in Seq(Entries) : R = revealed \o rest
    BY DEF Follows
  <2> HIDE DEF R
  <2>2. Len(revealed) <= Len(R) /\ Len(R) \in Nat
    BY <1>1, <1>2, <2>1, SplitRest
  <2>3. Len(revealed) = Len(R)
    BY <1>1, <2>2
  <2> QED BY <1>1, <1>2, <2>1, <2>3, SplitRest
<1>4. Sofar = Parts(m)
  <2>1. PICK abc \in Seq(Seq(Nat)) : Sofar = abc \o EntryParts(revealed)
                                     /\ Parts(m) = abc \o EntryParts(R)
    BY EntriesSofar
  <2> QED BY <1>3, <2>1, Zenon
<1>5. SubSeq(buf, 1, pos) = buf
  BY <1>2, <1>4 DEF ReadInv, Encode
<1> QED
  BY <1>1, <1>5, NoNextPart

(* What has been decoded stays a beginning when the next item is pushed.   *)
Begins(S, s, l) == \E rest \in Seq(S) : l = s \o rest

LEMMA PushKeepsBeginning ==
    ASSUME NEW S, NEW s \in Seq(S), NEW l, NEW f \in S,
           \E rest \in Seq(S) : l = s \o (<<f>> \o rest)
    PROVE  Begins(S, Append(s, f), l)
<1>1. PICK rest \in Seq(S) : l = s \o (<<f>> \o rest)
  OBVIOUS
<1>2. PICK y \in Seq(S) : y = <<f>>
  BY CatLaws
<1>3. s \o y \o rest = s \o (y \o rest)
  BY ConcatAssociative
<1>4. Append(s, f) = s \o y
  BY <1>2, AppendIsConcat
<1> QED
  BY <1>1, <1>2, <1>3, <1>4 DEF Begins

(* On a well-formed message's encoding no test fails.                      *)
LEMMA NothingIsRefused ==
    ASSUME IInv, ParseInv, ReadInv, NEW m \in Messages, Encodes(m), Follows(m)
    PROVE  WellRead
<1>1. phase \in {"count", "fields", "n", "entries"}
  BY DEF IInv, TypeOK
<1>2. CASE phase = "count"
  BY <1>2, CountAhead DEF WellRead
<1>3. CASE phase = "fields"
  BY <1>3, FieldAhead DEF WellRead
<1>4. CASE phase = "n"
  BY <1>4, NAhead DEF WellRead
<1>5. CASE phase = "entries"
  BY <1>5, EntryAhead, EndAhead DEF WellRead
<1> QED
  BY <1>1, <1>2, <1>3, <1>4, <1>5

(* Every step decodes the next part of the message, and none refuses it.   *)
LEMMA NextFollowInv ==
    ASSUME IInv, ParseInv, ReadInv, FollowInv, [Next]_vars
    PROVE  FollowInv'
<1> SUFFICES ASSUME NEW m \in Messages, Encodes(m)' PROVE Follows(m)'
  BY DEF FollowInv
<1>1. input' = input
  BY DEF Next, ReadCount, ReadField, ReadN, ReadEntry, Accept, Reject, vars
<1>2. kind' = kind /\ buf' = buf
  BY <1>1 DEF kind, buf
<1>3. Encodes(m) /\ Follows(m)
  BY <1>2 DEF Encodes, FollowInv
<1>4. /\ fields \in Seq(Seq(Nat)) /\ revealed \in Seq(Entries) /\ TypeOK /\ pos \in Nat
  BY DEF IInv, TypeOK
<1>5. CASE ReadCount
  <2>1. U32At(pos) = m.mcount
    BY <1>3, <1>5, CountAhead DEF ReadCount
  <2> QED BY <1>2, <1>3, <1>5, <2>1 DEF Follows, ReadCount
<1>6. CASE ReadField
  <2> DEFINE f == BytesAt(pos)
  <2>1. \E rest \in Seq(Seq(Nat)) : m.fields = fields \o (<<f>> \o rest)
    BY <1>3, <1>6, FieldAhead DEF ReadField
  <2>2. f \in Seq(Nat)
    BY <1>4, <1>6, BytesFacts DEF ReadField, FieldOk
  <2>3. fields' = Append(fields, f)
    BY <1>6 DEF ReadField
  <2>4. \E rest \in Seq(Seq(Nat)) : m.fields = fields' \o rest
    <3> DEFINE S == Seq(Nat)
    <3>1. /\ fields \in Seq(S) /\ f \in S
          /\ \E rest \in Seq(S) : m.fields = fields \o (<<f>> \o rest)
      BY <1>4, <2>1, <2>2
    <3> HIDE DEF S, f
    <3>2. Begins(S, Append(fields, f), m.fields)
      BY <3>1, PushKeepsBeginning
    <3> QED BY <2>3, <3>2 DEF S, Begins
  <2>5. phase = "fields" /\ phase' \in {"n", "fields"} /\ outcome' = "reading"
        /\ mcount' = mcount /\ n' = n /\ revealed' = revealed
    BY <1>6 DEF ReadField
  <2> QED BY <1>2, <1>3, <2>4, <2>5 DEF Follows
<1>7. CASE ReadN
  <2>1. U32At(pos) = Len(m.revealed)
    BY <1>3, <1>7, NAhead DEF ReadN
  <2> QED BY <1>2, <1>3, <1>7, <2>1 DEF Follows, ReadN
<1>8. CASE ReadEntry
  <2> DEFINE e == [idx |-> U32At(pos), claim |-> BytesAt(U32End(pos))]
  <2>1. \E rest \in Seq(Entries) : m.revealed = revealed \o (<<e>> \o rest)
    BY <1>3, <1>8, EntryAhead DEF ReadEntry
  <2>2. e \in Entries
    <3>1. HasU32(pos) /\ HasBytes(U32End(pos))
      BY <1>8 DEF ReadEntry, EntryOk
    <3>2. U32At(pos) \in Nat /\ U32End(pos) \in Nat
      BY <1>4, <3>1, U32Facts
    <3>3. BytesAt(U32End(pos)) \in Seq(Nat)
      BY <1>4, <3>1, <3>2, BytesFacts
    <3> QED BY <3>2, <3>3 DEF Entries
  <2>3. revealed' = Append(revealed, e)
    BY <1>8 DEF ReadEntry
  <2>4. phase' = phase /\ outcome' = "reading" /\ mcount' = mcount /\ n' = n
        /\ fields' = fields
    BY <1>8 DEF ReadEntry
  <2> HIDE DEF e
  <2>5. \E rest \in Seq(Entries) : m.revealed = revealed' \o rest
    <3>1. Begins(Entries, Append(revealed, e), m.revealed)
      BY <1>4, <2>1, <2>2, PushKeepsBeginning
    <3> QED BY <2>3, <3>1 DEF Begins
  <2> QED BY <1>2, <1>3, <2>4, <2>5 DEF Follows
<1>9. CASE Accept
  BY <1>2, <1>3, <1>9 DEF Follows, Accept
<1>10. CASE Reject
  BY <1>3, <1>10, NothingIsRefused DEF Reject
<1>11. CASE UNCHANGED vars
  BY <1>2, <1>3, <1>11 DEF Follows, vars
<1> QED
  BY <1>5, <1>6, <1>7, <1>8, <1>9, <1>10, <1>11 DEF Next

(* Before anything is read, nothing has been decoded.                      *)
LEMMA InitFollowInv ==
    ASSUME Init
    PROVE  FollowInv
<1> SUFFICES ASSUME NEW m \in Messages, Encodes(m) PROVE Follows(m)
  BY DEF FollowInv
<1> DEFINE F == m.fields
           R == m.revealed
<1>1. F \in Seq(Seq(Nat)) /\ R \in Seq(Entries)
  BY MessagesAssumption
<1> HIDE DEF F, R
<1>2. F = <<>> \o F /\ R = <<>> \o R
  BY <1>1, ConcatEmptySeq
<1>3. /\ fields = <<>> /\ revealed = <<>> /\ outcome = "reading" /\ phase \in {"n", "count"}
      /\ kind # "revealed" => phase = "count"
  BY DEF Init
<1> QED
  BY <1>1, <1>2, <1>3 DEF Follows, F, R

(* from_bytes is the inverse of to_bytes: on the encoding of a well-formed *)
(* message, with any number of entries and bytes, none of the decoders'    *)
(* early returns is taken.                                                 *)
THEOREM EncodingsOfMessagesAreAccepted == Spec => []EncodingsAreAccepted
<1>1. Init => FollowInv
  BY InitFollowInv
<1>2. IInv /\ ParseInv /\ ReadInv /\ FollowInv /\ [Next]_vars => FollowInv'
  BY NextFollowInv
<1>3. IInv /\ FollowInv => EncodingsAreAccepted
  <2> SUFFICES ASSUME IInv, FollowInv, outcome = "err", buf \in AcceptedEncodings[kind]
               PROVE  FALSE
    BY DEF EncodingsAreAccepted
  <2>1. kind \in Kinds
    BY DEF IInv, TypeOK
  <2>2. PICK m \in Messages : m.kind = kind /\ WellFormed(m) /\ buf = Encode(m)
    BY <2>1 DEF AcceptedEncodings
  <2> QED BY <2>2 DEF Encodes, FollowInv, Follows
<1> QED
  BY <1>1, <1>2, <1>3, ReadInvariance, PTL DEF Spec
=============================================================================
