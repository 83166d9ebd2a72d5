--------------------------- MODULE MCQuiverEngine ---------------------------
(* Small instances of QuiverEngine: the durable buffer has one subscriber. *)
EXTENDS QuiverEngine
=============================================================================
