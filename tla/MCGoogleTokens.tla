--------------------------- MODULE MCGoogleTokens ---------------------------
(* GoogleTokens on small instances; see the cfg files for the bounds.      *)
EXTENDS GoogleTokens
=============================================================================
