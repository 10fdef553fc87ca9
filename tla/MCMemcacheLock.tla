-------------------------- MODULE MCMemcacheLock --------------------------
(***************************************************************************)
(* MemcacheLock for TLC.  Two threads nest two deep on two keys, so they    *)
(* can block each other.  One timeout is zero (api.py:2677) and the other   *)
(* is the expiry time, as the defaults have it.                             *)
(***************************************************************************)
EXTENDS MemcacheLock
=============================================================================
