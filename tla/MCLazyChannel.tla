---------------------------- MODULE MCLazyChannel ----------------------------
(* An instance of LazyChannel for TLC. *)
EXTENDS LazyChannel
==============================================================================
