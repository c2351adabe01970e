----------------------------- MODULE MCConfigFile ----------------------------
(* Instances of ConfigFile for TLC: the factory's file has one value in every *)
(* line, and the values are otherwise alike.                                  *)
EXTENDS ConfigFile

CONSTANTS initial

MCFactory == [p \in Params |-> initial]
==============================================================================
