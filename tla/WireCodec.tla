----------------------------- MODULE WireCodec -----------------------------
(***************************************************************************)
(* The encoders (SelectiveProof::to_bytes, VoteProof::to_bytes) and what   *)
(* they and the decoders of WireDecoder promise each other.                *)
(***************************************************************************)
EXTENDS WireDecoder, SequencesExt

CONSTANT Messages   \* messages whose encodings the decoder must accept or refuse

ASSUME MessagesAssumption ==
    \A m \in Messages : /\ m.kind \in Kinds /\ m.mcount \in Nat
                        /\ m.fields \in Seq(Seq(Nat)) /\ Len(m.fields) = FieldCount(m.kind)
                        /\ m.revealed \in Seq(Entries)

(* put_bytes: a length word, then the bytes.                               *)
PutBytes(b) == <<Len(b)>> \o b

EncodeEntry(e) == <<e.idx>> \o PutBytes(e.claim)

FieldParts(fs) == [i \in DOMAIN fs |-> PutBytes(fs[i])]
EntryParts(es) == [i \in DOMAIN es |-> EncodeEntry(es[i])]

(* The words and strings to_bytes writes for a message of the given kind,  *)
(* in order; the list decode_revealed reads is the revealed part alone.    *)
Parts(m) ==
    (IF m.kind = "revealed" THEN <<>> ELSE <<<<m.mcount>>>>)
    \o FieldParts(m.fields)
    \o <<<<Len(m.revealed)>>>>
    \o EntryParts(m.revealed)

Encode(m) == FlattenSeq(Parts(m))

Decoded == [kind |-> kind, mcount |-> mcount, fields |-> fields, revealed |-> revealed]

(* Reference definition of a message a decoder may hand to a verifier.     *)
WellFormed(m) ==
    LET idx(i) == m.revealed[i].idx IN
    /\ m.kind # "revealed" => m.mcount \in 1..MAX_BBS_MESSAGES
    /\ Len(m.revealed) <= MAX_BBS_MESSAGES
    /\ \A i \in 1..Len(m.revealed) :
           /\ m.kind # "revealed" => idx(i) < m.mcount
           /\ m.kind = "vote" => idx(i) # VOTER_SECRET_MSG_INDEX
           /\ \A j \in 1..(i - 1) : idx(j) < idx(i)
    /\ m.kind = "vote" => m.fields[3] \in Points \ {Identity}

AcceptedEncodings ==
    [k \in Kinds |-> {Encode(m) : m \in {x \in Messages : x.kind = k /\ WellFormed(x)}}]

(* An accepted buffer is the one and only encoding of what was decoded     *)
(* (tests/decoder_injectivity.rs): nothing in it was ignored, and the      *)
(* decoded message is well formed.                                         *)
AcceptedIsCanonical ==
    outcome = "ok" => WellFormed(Decoded) /\ Encode(Decoded) = buf

(* from_bytes is the inverse of to_bytes on well-formed messages: the      *)
(* encoding of one is never refused.                                       *)
EncodingsAreAccepted == outcome = "err" => buf \notin AcceptedEncodings[kind]
=============================================================================
