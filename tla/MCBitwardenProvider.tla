------------------------ MODULE MCBitwardenProvider ------------------------
(* A model-checking instance of BitwardenProvider.                          *)
EXTENDS BitwardenProvider
=============================================================================
