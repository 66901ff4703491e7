------------------------- MODULE MCBitwardenSession -------------------------
(* Model-checking instances of BitwardenSession.                            *)
EXTENDS BitwardenSession
=============================================================================
