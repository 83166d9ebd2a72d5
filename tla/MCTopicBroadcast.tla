-------------------------- MODULE MCTopicBroadcast --------------------------
(* Two publishers and two subscribers on a ring of two slots.              *)
EXTENDS TopicBroadcast
=============================================================================
