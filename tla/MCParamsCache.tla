--------------------------- MODULE MCParamsCache ---------------------------
(***************************************************************************)
(* The parameter cache for TLC: every cacheable count and the first count  *)
(* above the bound.                                                        *)
(***************************************************************************)
EXTENDS ParamsCache

MCCounts == 1 .. MAX_BBS_MESSAGES + 1
=============================================================================
