--------------------------- MODULE MCGmailIngest ---------------------------
(* GmailIngest on small instances; see the cfg files for the bounds.       *)
EXTENDS GmailIngest, TLC

MessageSymmetry == Permutations(Msgs)
=============================================================================
