---------------------------- MODULE WireDecoder ----------------------------
(***************************************************************************)
(* The three length-prefixed decoders that untrusted bytes enter through:  *)
(*   "selective"  SelectiveProof::from_bytes      src/src/bbs.rs           *)
(*   "vote"       VoteProof::from_bytes           src/src/voting_snark.rs  *)
(*   "revealed"   decode_revealed                 src/src/ffi.rs           *)
(* One call decodes one buffer, field by field, and ends in an outcome.    *)
(*                                                                         *)
(* Scaling: a big-endian u32 and a payload byte are both one cell of the   *)
(* buffer, so positions count cells; a lying length prefix makes a later   *)
(* word be read as payload, or payload as a word, exactly as in the code.  *)
(* usize is a bounded integer, so checked_add can fail as on wasm32.       *)
(***************************************************************************)
EXTENDS Integers, Sequences

CONSTANTS
    MAX_BBS_MESSAGES,   \* bbs.rs:42
    USIZE_MAX,          \* largest usize; every buffer is at most this long
    Inputs,             \* the (kind, buffer) pairs decoded
    Points,             \* encodings deser::<G1Affine> accepts (external)
    Identity            \* the encoding of the identity point

Kinds == {"selective", "vote", "revealed"}

ASSUME MaxAssumption == MAX_BBS_MESSAGES \in Nat
ASSUME UsizeAssumption == USIZE_MAX \in Nat
ASSUME InputsAssumption ==
    \A x \in Inputs : /\ x.kind \in Kinds
                      /\ x.buf \in Seq(Nat)
                      /\ Len(x.buf) <= USIZE_MAX

VOTER_SECRET_MSG_INDEX == 0

VARIABLES
    input,      \* the call's kind and buffer
    pos,        \* Reader.pos
    phase,      \* which field is read next
    mcount,     \* message_count
    fields,     \* the byte-string fields read so far (proofs, nullifier)
    n,          \* the announced number of revealed entries
    revealed,   \* the entries pushed so far
    prev,       \* index of the last entry, -1 for None
    outcome     \* "reading", "ok" (Ok/Some) or "err" (Err/None)

vars == <<input, pos, phase, mcount, fields, n, revealed, prev, outcome>>

buf == input.buf
kind == input.kind
-----------------------------------------------------------------------------
NoPos == -1

(* Mutant: the addition wraps instead of being checked.                    *)
WrappingAdd(a, b) == (a + b) % (USIZE_MAX + 1)

(* usize::checked_add.                                                     *)
CheckedAdd(a, b) == IF a + b <= USIZE_MAX THEN a + b ELSE NoPos

(* The bounds test both readers make before they slice.                    *)
Fits(end) == end # NoPos /\ end <= Len(buf)

(* Reader::u32 and u32_at: where the word at p ends, and its value.        *)
U32End(p) == CheckedAdd(p, 1)
HasU32(p) == Fits(U32End(p))
U32At(p) == IF p + 1 \in DOMAIN buf THEN buf[p + 1] ELSE 0

(* Reader::bytes: a length word, then that many cells.                     *)
BytesEnd(p) == CheckedAdd(U32End(p), U32At(p))
HasBytes(p) == HasU32(p) /\ Fits(BytesEnd(p))
BytesAt(p) == SubSeq(buf, U32End(p) + 1, BytesEnd(p))

-----------------------------------------------------------------------------
(* How many byte-string fields precede the revealed list.                  *)
FieldCount(k) == CASE k = "selective" -> 1      \* proof
                   [] k = "vote" -> 3           \* bbs_proof, dl_proof, nullifier
                   [] k = "revealed" -> 0

Init ==
    /\ input \in Inputs
    /\ pos = 0
    /\ phase = IF kind = "revealed" THEN "n" ELSE "count"
    /\ mcount = 0
    /\ fields = <<>>
    /\ n = 0
    /\ revealed = <<>>
    /\ prev = -1
    /\ outcome = "reading"

CountOk ==
    /\ HasU32(pos)
    /\ U32At(pos) # 0
    /\ U32At(pos) <= MAX_BBS_MESSAGES

ReadCount ==
    /\ outcome = "reading" /\ phase = "count"
    /\ CountOk
    /\ mcount' = U32At(pos)
    /\ pos' = U32End(pos)
    /\ phase' = "fields"
    /\ UNCHANGED <<input, fields, n, revealed, prev, outcome>>

(* r.bytes()?, and for the nullifier deser(..)? and the identity test.     *)
FieldOk ==
    /\ HasBytes(pos)
    /\ kind = "vote" /\ Len(fields) = 2 => BytesAt(pos) \in Points \ {Identity}

ReadField ==
    /\ outcome = "reading" /\ phase = "fields"
    /\ FieldOk
    /\ fields' = Append(fields, BytesAt(pos))
    /\ pos' = BytesEnd(pos)
    /\ phase' = IF Len(fields) + 1 = FieldCount(kind) THEN "n" ELSE "fields"
    /\ UNCHANGED <<input, mcount, n, revealed, prev, outcome>>

(* The reservation Vec::with_capacity(n) makes is bounded before it is     *)
(* made: by message_count, or by MAX_BBS_MESSAGES in decode_revealed.      *)
NOk ==
    /\ HasU32(pos)
    /\ U32At(pos) <= IF kind = "revealed" THEN MAX_BBS_MESSAGES ELSE mcount

ReadN ==
    /\ outcome = "reading" /\ phase = "n"
    /\ NOk
    /\ n' = U32At(pos)
    /\ pos' = U32End(pos)
    /\ phase' = "entries"
    /\ UNCHANGED <<input, mcount, fields, revealed, prev, outcome>>

(* Mutant: prev starts as 0 instead of None.                               *)
IndexOkPrevZero(idx) ==
    /\ kind = "vote" => idx # VOTER_SECRET_MSG_INDEX
    /\ kind # "revealed" => idx < mcount
    /\ idx > IF prev = -1 THEN 0 ELSE prev

(* Mutant: repeated indices pass.                                          *)
IndexOkRepeated(idx) ==
    /\ kind = "vote" => idx # VOTER_SECRET_MSG_INDEX
    /\ kind # "revealed" => idx < mcount
    /\ idx >= prev

IndexOk(idx) ==
    /\ kind = "vote" => idx # VOTER_SECRET_MSG_INDEX
    /\ kind # "revealed" => idx < mcount
    /\ idx > prev

EntryOk ==
    /\ HasU32(pos)
    /\ IndexOk(U32At(pos))
    /\ HasBytes(U32End(pos))

ReadEntry ==
    /\ outcome = "reading" /\ phase = "entries" /\ Len(revealed) < n
    /\ EntryOk
    /\ revealed' = Append(revealed, [idx |-> U32At(pos), claim |-> BytesAt(U32End(pos))])
    /\ prev' = U32At(pos)
    /\ pos' = BytesEnd(U32End(pos))
    /\ UNCHANGED <<input, phase, mcount, fields, n, outcome>>

(* Mutant: bytes after the last entry are ignored.                         *)
AcceptTrailing ==
    /\ outcome = "reading" /\ phase = "entries" /\ Len(revealed) = n
    /\ outcome' = "ok"
    /\ UNCHANGED <<input, pos, phase, mcount, fields, n, revealed, prev>>

Accept ==
    /\ outcome = "reading" /\ phase = "entries" /\ Len(revealed) = n
    /\ pos = Len(buf)
    /\ outcome' = "ok"
    /\ UNCHANGED <<input, pos, phase, mcount, fields, n, revealed, prev>>

WellRead ==
    CASE phase = "count" -> CountOk
      [] phase = "fields" -> FieldOk
      [] phase = "n" -> NOk
      [] phase = "entries" -> IF Len(revealed) < n THEN EntryOk ELSE pos = Len(buf)

(* Every early return: a truncated read or a failed test.                  *)
Reject ==
    /\ outcome = "reading"
    /\ ~WellRead
    /\ outcome' = "err"
    /\ UNCHANGED <<input, pos, phase, mcount, fields, n, revealed, prev>>

Next ==
    \/ ReadCount
    \/ ReadField
    \/ ReadN
    \/ ReadEntry
    \/ Accept
    \/ Reject

Spec == Init /\ [][Next]_vars
-----------------------------------------------------------------------------
Entries == [idx : Nat, claim : Seq(Nat)]

(* The shape of the decoder's state.                                       *)
TypeOK ==
    /\ kind \in Kinds /\ buf \in Seq(Nat)
    /\ pos \in 0..Len(buf)
    /\ phase \in {"count", "fields", "n", "entries"}
    /\ mcount \in Nat
    /\ fields \in Seq(Seq(Nat))
    /\ n \in Nat
    /\ revealed \in Seq(Entries)
    /\ prev \in Nat \cup {-1}
    /\ outcome \in {"reading", "ok", "err"}

(* `self.b[start..end]` panics unless start <= end <= len.                 *)
SliceInBounds(start, end) == start <= end /\ end <= Len(buf)

(* Whatever the buffer, a read whose tests passed slices inside it: the    *)
(* "panic-free" claim of Reader (bbs.rs:128, voting_snark.rs:471), with    *)
(* usize as narrow as the build makes it.                                  *)
ReadsStayInBounds ==
    outcome = "reading" =>
        \A p \in {pos} \cup {q \in {U32End(pos)} : HasU32(pos)} :
            /\ HasU32(p) => SliceInBounds(p, U32End(p))
            /\ HasBytes(p) => SliceInBounds(U32End(p), BytesEnd(p))

(* The entries decoded so far are strictly increasing in index, below the  *)
(* message count, never the voter's secret, and no more of them are        *)
(* reserved or pushed than MAX_BBS_MESSAGES, at every step of the loop.    *)
EntriesInOrder ==
    /\ \A i, j \in 1..Len(revealed) : i < j => revealed[i].idx < revealed[j].idx
    /\ \A i \in 1..Len(revealed) :
           /\ kind # "revealed" => revealed[i].idx < mcount
           /\ kind = "vote" => revealed[i].idx # VOTER_SECRET_MSG_INDEX
    /\ Len(revealed) <= n /\ n <= MAX_BBS_MESSAGES
=============================================================================
