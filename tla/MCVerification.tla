--------------------------- MODULE MCVerification ---------------------------
(* A lot harvested on the first day and handed over on the second.          *)
EXTENDS MCAnchoring, Verification
=============================================================================
