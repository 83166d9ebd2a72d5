--------------------------- MODULE MCPipelineCtrl ---------------------------
(* Two receivers, a processor and an exporter; every channel holds one     *)
(* message.                                                                *)
EXTENDS PipelineCtrl
=============================================================================
