----------------------------- MODULE MCCacheMemory -----------------------------
(* Model-checking instance of CacheMemory.                                  *)
EXTENDS CacheMemory
================================================================================
