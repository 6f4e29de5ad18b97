-------------------------- MODULE MCAnonymousVote --------------------------
(* Model-checking instance of AnonymousVote. *)
EXTENDS AnonymousVote

CONSTANTS k1, k2, young, old

(* Two voters; the first holds two credentials over the same secret, the   *)
(* second one of an issuer the chains do not trust.                        *)
TwoVoters == {[key |-> k1, secret |-> 1, attr |-> young],
              [key |-> k1, secret |-> 1, attr |-> old],
              [key |-> k2, secret |-> 2, attr |-> old]}

(* Ids and options that run together when they are not framed.             *)
TwoChains == {<<1>>, <<1, 1>>}
TwoElections == {<<1>>, <<2>>}
TwoSignals == {<<1, 2>>, <<2>>}
OneIssuer == [c \in TwoChains |-> k1]
=============================================================================
