----------------------------- MODULE MCCacheCell -----------------------------
(* A model-checking instance of CacheCell.                                  *)
EXTENDS CacheCell
=============================================================================
