------------------------------- MODULE MCConfig -------------------------------
(* Instances of ConfigManager for model checking.                          *)
EXTENDS ConfigManager
==============================================================================
