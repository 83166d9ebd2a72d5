---------------------------- MODULE MCNodeInbox ----------------------------
(* Bounded instances of NodeInbox. *)
EXTENDS NodeInbox
=============================================================================
