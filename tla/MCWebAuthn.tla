---------------------------- MODULE MCWebAuthn ----------------------------
(* Model-checking instance of WebAuthn. *)
EXTENDS WebAuthn

(* A login page, a forum on the same site, and another site.               *)
ThreeOrigins == {"login", "forum", "other"}
SiteOf == [o \in ThreeOrigins |-> IF o = "other" THEN "elsewhere" ELSE "site"]
TwoKeys == {"phone", "laptop"}
KeySite == [k \in TwoKeys |-> IF k = "phone" THEN "site" ELSE "elsewhere"]
=============================================================================
