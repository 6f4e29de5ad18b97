----------------------------- MODULE BallotBox -----------------------------
(***************************************************************************)
(* What the composed anonymous vote promises: a ballot box.  A voter whom  *)
(* a chain's issuer made eligible casts a vote there; the box counts votes *)
(* that were cast, at most one of each voter in an election, and never     *)
(* changes or loses one it has counted.  Proofs, nullifiers, relays and    *)
(* replays are not visible.                                                *)
(***************************************************************************)
CONSTANTS
    Chains, Elections, Signals,
    Voters,         \* a voter is the secret in its credentials
    Eligible(_)     \* chain |-> the voters its issuer signed for

VARIABLES
    cast,           \* the votes that voters have cast
    box             \* the votes that count

Votes == [chain : Chains, election : Elections, voter : Voters, signal : Signals]

Init == cast = {} /\ box = {}

Cast(v) ==
    /\ v.voter \in Eligible(v.chain)
    /\ cast' = cast \cup {v}
    /\ UNCHANGED box

Count(v) ==
    /\ v \in cast
    /\ \A w \in box : <<w.chain, w.election, w.voter>> # <<v.chain, v.election, v.voter>>
    /\ box' = box \cup {v}
    /\ UNCHANGED cast

Next == \E v \in Votes : Cast(v) \/ Count(v)

Spec == Init /\ [][Next]_<<cast, box>>
=============================================================================
