-------------------------- MODULE MCPluginSupervisor --------------------------
(* PluginSupervisor for TLC.                                               *)
EXTENDS PluginSupervisor
=============================================================================
