-------------------------- MODULE MCSemaphoreVote --------------------------
(* Model-checking instance of SemaphoreVote. *)
EXTENDS SemaphoreVote

CONSTANTS k1, k2

(* Two eligible voters and one of another issuer.                          *)
ThreeVoters == {[secret |-> <<1>>, key |-> k1], [secret |-> <<1, 2>>, key |-> k1],
                [secret |-> <<2>>, key |-> k2]}

(* Ids and options that run together when they are not framed.             *)
TwoElections == {<<1>>, <<1, 2>>}
TwoSignals == {<<2, 1>>, <<1>>}
=============================================================================
