---------------------------- MODULE MCLocalMpsc ----------------------------
(* Bounded instance of LocalMpsc: three producers compete for two places. *)
EXTENDS LocalMpsc
============================================================================
